---------------------------- MODULE MCGovernance ----------------------------
(***************************************************************************)
(* Small instances of Suggestions, PiiFlags, ErasedSubjects and            *)
(* RetentionSweeps for TLC.  The four share only the kind of deployment: a *)
(* behaviour is one of the component that "part" names, and the others stay*)
(* as they start.                                                          *)
(***************************************************************************)
EXTENDS Suggestions, PiiFlags, ErasedSubjects, RetentionSweeps, TLC

CONSTANT Parts      \* the components of this instance
VARIABLE part       \* the component at work

ASSUME PartsOK == Parts \subseteq {"suggestions", "pii", "erasure", "retention"}

\* The shapes of columns: a measure, and a date.
MCShapes == {[type |-> "numeric", words |-> <<{"additive"}>>, key |-> FALSE],
             [type |-> "temporal", words |-> <<{}>>, key |-> FALSE]}

\* What the administrator may choose: both kinds of purge, and everything that is
\* not to be carried out.
Policy(table, action, scope, dataset, period, enabled) ==
  [table |-> table, action |-> action, scope |-> scope, dataset |-> dataset,
   period |-> period, enabled |-> enabled]
SomeDataset == CHOOSE d \in Datasets : TRUE
MCPolicies ==
  {Policy("runs", "purge", "class", Null, 30, TRUE),
   Policy("ingested_records", "purge", "dataset", SomeDataset, 30, TRUE),
   Policy("runs", "purge", "class", Null, 30, FALSE),
   Policy("runs", "purge", "dataset", SomeDataset, 30, TRUE),
   Policy("ingested_records", "anonymize", "class", Null, 30, TRUE),
   Policy("ingested_records", "purge", "class", Null, 0, TRUE)}

PartsInit ==
  /\ part \in Parts
  /\ Init /\ (part # "suggestions" => column = [c \in Columns |-> Gone])
  /\ FlagsInit /\ (part # "pii" => rule = [n \in Names |-> {}])
  /\ SubjectsInit
  /\ SweepsInit /\ (part = "retention" => overlap = CHOOSE o \in Overlap : TRUE)

PartsNext ==
  /\ \/ part = "suggestions" /\ Next /\ UNCHANGED <<flagVars, subjectVars, sweepVars>>
     \/ part = "pii" /\ FlagsNext /\ UNCHANGED <<vars, subjectVars, sweepVars>>
     \/ part = "erasure" /\ SubjectsNext /\ UNCHANGED <<vars, flagVars, sweepVars>>
     \/ part = "retention" /\ SweepsNext /\ UNCHANGED <<vars, flagVars, subjectVars>>
  /\ UNCHANGED part

PartsSpec == PartsInit /\ [][PartsNext]_<<part, vars, flagVars, subjectVars, sweepVars>>

Symmetry == UNION {Permutations(s) : s \in {Flags, Fields, Users}}

-----------------------------------------------------------------------------
\* The type invariant of every part.
TypesOK == CASE part = "suggestions" -> TypeOK
             [] part = "pii"         -> FlagsTypeOK
             [] part = "erasure"     -> SubjectsTypeOK
             [] part = "retention"   -> SweepsTypeOK

=============================================================================
