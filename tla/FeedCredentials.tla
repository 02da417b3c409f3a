--------------------------- MODULE FeedCredentials --------------------------
(***************************************************************************)
(* Credentials of the OData feed (app/feed/auth.py and                     *)
(* app/api/feed_credentials.py): requests present a Basic pair, an API key *)
(* or both, each looked up in a transaction of its own, while keys are     *)
(* rotated and revoked.  A key is <<credential, generation>>; a hash that  *)
(* was never a key's is Malformed.  last_used_at is left out.              *)
(***************************************************************************)
EXTENDS Naturals, FiniteSets

CONSTANTS
  Creds,      \* ids of feed_credentials
  Principal,  \* credential -> principal: several may share one
  MaxKeys,    \* bound: keys made for one credential
  Malformed,  \* NULL, or a hash no key has
  Blank       \* no such thing

VARIABLES
  cred,         \* [key, revoked] of each row, or Blank
  made,         \* keys made so far, per credential
  rotator,      \* the credential a rotation has read, or Blank
  feedRequest,  \* the request under way
  lived         \* history: the keys that were good at some time of the request

credVars == <<cred, made, rotator, feedRequest, lived>>

Secrets == Creds \X (1 .. MaxKeys)
Presented == [principal : {Principal[c] : c \in Creds}, basic : Secrets, api : {Blank}]
        \cup [principal : {Blank}, basic : {Blank}, api : Secrets]
        \cup [principal : {Principal[c] : c \in Creds}, basic : Secrets, api : Secrets]
NoFeedRequest == [phase |-> "idle", shown |-> Blank, row |-> Blank]

ASSUME CredConstantsOK ==
  /\ MaxKeys \in Nat \ {0} /\ Blank \notin Creds \cup {Principal[c] : c \in Creds}
  /\ Blank \notin Secrets /\ Malformed \notin Secrets

CredTypeOK ==
  /\ \A c \in Creds : cred[c] # Blank => cred[c].key \in Secrets \cup {Malformed}
                                        /\ cred[c].revoked \in BOOLEAN
  /\ made \in [Creds -> 0 .. MaxKeys] /\ rotator \in Creds \cup {Blank}
  /\ feedRequest.phase \in {"idle", "first", "second", "accepted", "refused"}
  /\ lived \subseteq Secrets

CredInit ==
  /\ cred = [c \in Creds |-> Blank] /\ made = [c \in Creds |-> 0]
  /\ rotator = Blank /\ feedRequest = NoFeedRequest /\ lived = {}

-----------------------------------------------------------------------------
(* Looking up what a request presents.                                     *)

NonRevoked(rows, principal) ==
  {c \in Creds : rows[c] # Blank /\ ~rows[c].revoked /\ (principal = Blank \/ Principal[c] = principal)}

MatchRow(rows, principal, key) == {c \in NonRevoked(rows, principal) : rows[c].key = key}

Good(rows) == {rows[c].key : c \in NonRevoked(rows, Blank)} \cap Secrets

-----------------------------------------------------------------------------
(* Seeded faults: each stands in for the definition named.                 *)

SameRowAny(first, second) == first # Blank /\ second # Blank          \* SameRow

-----------------------------------------------------------------------------
\* Both forms must have selected one and the same row.
SameRow(first, second) == first # Blank /\ first = second

\* The history goes on as long as the request does.
Remember == lived' = IF feedRequest.phase \in {"first", "second"} THEN lived \cup Good(cred') ELSE lived

\* POST, and the generic PUT, which may also change the hash.
WriteCredential(c, key, revoked) ==
  /\ cred' = [cred EXCEPT ![c] = [key |-> key, revoked |-> revoked]]
  /\ UNCHANGED <<rotator, feedRequest>> /\ Remember

CreateCredential(c) ==
  /\ cred[c] = Blank /\ made[c] = 0
  /\ made' = [made EXCEPT ![c] = 1] /\ WriteCredential(c, <<c, 1>>, FALSE)

UpdateCredential(c, revoked, key) ==
  /\ cred[c] # Blank /\ WriteCredential(c, key, revoked) /\ UNCHANGED made

DeleteFeedCredential(c) ==
  /\ cred[c] # Blank /\ cred' = [cred EXCEPT ![c] = Blank]
  /\ UNCHANGED <<made, rotator, feedRequest>> /\ Remember

\* rotate reads the row and then writes the new hash by id: a revoked row stays revoked,
\* and the key of a row that is gone is never handed out (404).
RotateRead(c) ==
  /\ rotator = Blank /\ cred[c] # Blank /\ made[c] < MaxKeys
  /\ rotator' = c /\ UNCHANGED <<cred, made, feedRequest>> /\ Remember

RotateWrite ==
  /\ rotator # Blank /\ rotator' = Blank
  /\ LET new == made[rotator] + 1 IN
     /\ made' = [made EXCEPT ![rotator] = new]
     /\ cred' = IF cred[rotator] = Blank THEN cred
                ELSE [cred EXCEPT ![rotator].key = <<rotator, new>>]
  /\ UNCHANGED feedRequest /\ Remember

\* A request without a form that could be read is refused unseen.
Arrive(shown) ==
  /\ feedRequest.phase \in {"idle", "accepted", "refused"}
  /\ feedRequest' = [phase |-> "first", shown |-> shown, row |-> Blank]
  /\ lived' = Good(cred)
  /\ UNCHANGED <<cred, made, rotator>>

LookUp ==
  /\ feedRequest.phase = "first"
  /\ LET shown == feedRequest.shown
         hits  == IF shown.basic # Blank THEN MatchRow(cred, shown.principal, shown.basic)
                                        ELSE MatchRow(cred, Blank, shown.api)
         both  == shown.basic # Blank /\ shown.api # Blank IN
     \/ /\ hits = {}
        /\ feedRequest' = [feedRequest EXCEPT !.phase = IF both THEN "second" ELSE "refused"]
     \/ \E c \in hits :
          feedRequest' = [feedRequest EXCEPT !.row = c, !.phase = IF both THEN "second" ELSE "accepted"]
  /\ UNCHANGED <<cred, made, rotator, lived>>

LookUpKey ==
  /\ feedRequest.phase = "second"
  /\ \E second \in {Blank} \cup Creds :
       /\ LET hits == MatchRow(cred, Blank, feedRequest.shown.api)
          IN IF hits = {} THEN second = Blank ELSE second \in hits
       /\ feedRequest' = [feedRequest EXCEPT !.phase = IF SameRow(feedRequest.row, second)
                                               THEN "accepted" ELSE "refused"]
  /\ UNCHANGED <<cred, made, rotator, lived>>

CredNext ==
  \/ \E c \in Creds : CreateCredential(c) \/ DeleteFeedCredential(c) \/ RotateRead(c)
  \/ \E c \in Creds, revoked \in BOOLEAN :
       \E key \in {Malformed} \cup (IF cred[c] = Blank THEN {} ELSE {cred[c].key}) :
         UpdateCredential(c, revoked, key)
  \/ RotateWrite \/ LookUp \/ LookUpKey
  \/ \E shown \in Presented : Arrive(shown)

CredSpec == CredInit /\ [][CredNext]_credVars

-----------------------------------------------------------------------------
(* Properties.                                                             *)

\* A request is accepted as a credential only if every key it presented was that
\* credential's, and good at some time since the request arrived: a key revoked or
\* rotated away before is refused, and two forms never vouch for each other.
AcceptedOnOwnKeys ==
  feedRequest.phase = "accepted" =>
    /\ \A key \in {feedRequest.shown.basic, feedRequest.shown.api} \ {Blank} :
         key[1] = feedRequest.row /\ key \in lived
    /\ feedRequest.shown.basic # Blank => Principal[feedRequest.row] = feedRequest.shown.principal

=============================================================================
