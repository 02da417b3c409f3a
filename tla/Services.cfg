\* All parts, each in its own behaviours; fairness is the worker's.
SPECIFICATION Spec
CONSTANTS
  Parts = {"feed", "records", "credentials", "worker", "egress", "auth", "rules"}
  Ids <- MCIds
  Keys = {1, 2, 3, 4}
  Name <- MCName
  Val <- MCVal
  Types <- MCTypes
  Queries <- MCQueries
  PageSizes = {1, 2}
  MaxChanges = 1
  NotGiven = NoValue
  EntitySetNames <- SetNames
  Selected <- RowsSelected
  MaxDepth = 2
  NoValue = NoValue
  RowIds = {1, 2}
  Users = {u1, u2}
  PutColumns = {"name", "dataset_id", "score", "grid_columns"}
  MaxWrites = 3
  None = None
  Creds = {1, 2}
  MaxKeys = 2
  Principal <- MCPrincipal
  Malformed = NoValue
  Blank = None
  Items = {"r1", "d1", "s1", "s2"}
  MaxAttempts = 2
  Batch = 1
  MaxFaults = 2
  MaxStops = 1
  Urls <- MCUrls
  Connections = {"c1", "c2"}
  Endpoint <- MCEndpoint
  SourceOf <- MCSourceOf
  CredentialRows <- MCSecrets
  MaxRows = 1
  HostClass <- MCHostClass
  AllowedHosts = {}
  Strict = TRUE
  MaxHops = 2
  BadPort = NoValue
  Unset = None
  KeyIds = {1, 2}
  Tokens <- MCTokens
  Missing = None
  Modes = {"production", "off", "development", "staging"}
  Roles = {"admin"}
  MaxBucket = 2
  MaxKeyChanges = 2
  MaxSteps = 3
INVARIANTS PagesComplete TrailExact AcceptedOnOwnKeys HeaderStaysHome RulesAgree
PROPERTIES WithdrawnKeysExpire QueuesDrain
CHECK_DEADLOCK FALSE
