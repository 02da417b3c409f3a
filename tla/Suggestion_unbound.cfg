\* A field deleted and discovered again between two reconciliations that nothing overlaps.
SPECIFICATION PartsSpec
CONSTANTS
  Parts = {"suggestions"}
  Overlap = {FALSE}
  MaxScans = 4
  MaxMoves = 5
  Names = {n1}
  Categories = {c1}
  Fields = {q1, q2}
  Flags = {p1, p2}
  Columns = {a, b}
  Items = {p1, p2}
  Dashboards = {d1}
  Users = {r1, r2}
  Subjects = {p1, p2}
  Charts = {c1}
  Rows = {p1, p2}
  Arriving = {"runs", "ingested_records"}
  Datasets = {ds}
  Runs = {q1, q2}
  None = None
  Null = None
  NoField = None
  NoName = None
  NoFlag = None
  Gone = None
  Shapes <- MCShapes
  Policies <- MCPolicies
  Width = 2
SYMMETRY Symmetry
PROPERTY InboxBound
CHECK_DEADLOCK FALSE
