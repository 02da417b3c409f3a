--------------------------- MODULE ServicesProofs ---------------------------
(***************************************************************************)
(* What holds of the parts that share no variable with the others: the     *)
(* credentials of the feed accept a request on keys of their own, a token  *)
(* passes on a published key, and the credential of a source stays with    *)
(* its origin; for any number of credentials, keys, redirects and clients' *)
(* urls.                                                                   *)
(***************************************************************************)
EXTENDS FeedCredentials, TokenAuth, Egress, TLAPS

-----------------------------------------------------------------------------
(* Tokens.  What is cached for this bucket was published in it, and a      *)
(* request that has yet to be verified has no user.                        *)

RequestSteps == {"idle", "keys", "verify", "checked", "answered"}
KnownUsers == {Missing, Anonymous} \cup {UserOf(t) : t \in Tokens}
Requests == [step : RequestSteps, token : Tokens \cup {Missing}, in : Nat, user : KnownUsers,
             status : {0, 200, 401, 403}]

RequestInv ==
  /\ request \in Requests /\ request.in <= bucket
  /\ request.step \in {"keys", "verify"} => request.user = Missing /\ request.token # Missing
CacheInv ==
  /\ bucket \in Nat /\ published \subseteq recent
  /\ cache # Missing => /\ cache.bucket \in Nat /\ cache.bucket <= bucket
                        /\ cache.bucket = bucket => cache.keys \subseteq recent
AuthInv == RequestInv /\ CacheInv

\* A request that has gone on, field by field.
LEMMA RequestExcept ==
  ASSUME NEW r \in Requests, NEW step, NEW new
  PROVE  /\ [r EXCEPT !.step = step, !.in = new]
              = [step |-> step, token |-> r.token, in |-> new, user |-> r.user, status |-> r.status]
         /\ [r EXCEPT !.step = step, !.user = new]
              = [step |-> step, token |-> r.token, in |-> r.in, user |-> new, status |-> r.status]
         /\ [r EXCEPT !.step = step, !.status = new]
              = [step |-> step, token |-> r.token, in |-> r.in, user |-> r.user, status |-> new]
<1> DEFINE mid == [r EXCEPT !.step = step]
<1>1. mid = [step |-> step, token |-> r.token, in |-> r.in, user |-> r.user, status |-> r.status]
  BY DEF Requests
<1>2. /\ [r EXCEPT !.step = step, !.in = new] = [mid EXCEPT !.in = new]
      /\ [r EXCEPT !.step = step, !.user = new] = [mid EXCEPT !.user = new]
      /\ [r EXCEPT !.step = step, !.status = new] = [mid EXCEPT !.status = new]
  OBVIOUS
<1> HIDE DEF mid
<1>3. [mid EXCEPT !.in = new]
       = [step |-> step, token |-> r.token, in |-> new, user |-> r.user, status |-> r.status]
  BY <1>1
<1>4. [mid EXCEPT !.user = new]
       = [step |-> step, token |-> r.token, in |-> r.in, user |-> new, status |-> r.status]
  BY <1>1
<1>5. [mid EXCEPT !.status = new]
       = [step |-> step, token |-> r.token, in |-> r.in, user |-> r.user, status |-> new]
  BY <1>1
<1> QED BY <1>2, <1>3, <1>4, <1>5

\* The provider's and time's steps leave the requests alone.
LEMMA ProviderKeeps ==
  ASSUME AuthInv, NextBucket \/ \E keys \in SUBSET KeyIds : PublishKeys(keys)
  PROVE  AuthInv' /\ (request' = request)
<1>1. CASE NextBucket
  BY <1>1 DEF AuthInv, RequestInv, CacheInv, NextBucket, Requests
<1>2. ASSUME NEW keys \in SUBSET KeyIds, PublishKeys(keys)
      PROVE  AuthInv' /\ (request' = request)
  BY <1>2 DEF AuthInv, RequestInv, CacheInv, PublishKeys, Requests
<1> QED BY <1>1, <1>2

\* A user is made only of a token that was verified.
LEMMA VerifiedType ==
  ASSUME NEW keys, AuthInv, request.step = "verify"
  PROVE  /\ Verified(keys) \in Requests /\ Verified(keys).step = "checked"
         /\ Verified(keys).in = request.in
         /\ Verified(keys).user # Missing => request.token.key \in keys
<1>1. /\ request \in Requests /\ request.token \in Tokens
  BY DEF AuthInv, RequestInv, Requests
<1>2. VerificationKeys(keys, request.token) \subseteq keys
  BY DEF VerificationKeys
<1> DEFINE passes == /\ request.token.valid
                     /\ request.token.key \in VerificationKeys(keys, request.token)
           user == IF passes THEN UserOf(request.token) ELSE Missing
<1>3. user \in KnownUsers /\ (user # Missing => request.token.key \in keys)
  BY <1>1, <1>2 DEF KnownUsers
<1>4. Verified(keys) = [request EXCEPT !.step = "checked", !.user = user]
  BY DEF Verified
<1> HIDE DEF user
<1>5. "checked" \in RequestSteps
  BY DEF RequestSteps
<1>6. Verified(keys) = [step |-> "checked", token |-> request.token, in |-> request.in,
                        user |-> user, status |-> request.status]
  BY <1>1, <1>4, RequestExcept, ZenonT(40)
<1> QED BY <1>1, <1>3, <1>5, <1>6 DEF Requests

\* Where a token of this bucket passes, its key was published in it.
Passes == request.step = "verify" /\ request.in = bucket /\ request'.user # Missing
            => request.token.key \in recent

\* The steps of a request.
LEMMA RequestStep ==
  ASSUME AuthInv,
         \/ TakeBucket \/ VerifyCached \/ VerifyFetched \/ FetchFails \/ Done
         \/ \E token \in Tokens \cup {Missing} : BearerToken(token)
         \/ \E anyOf \in SUBSET Roles : Authorize(anyOf)
  PROVE  AuthInv' /\ Passes
<1>0. /\ request \in Requests /\ request.in \in Nat /\ request.in <= bucket /\ bucket \in Nat
      /\ CacheInv
  BY DEF AuthInv, RequestInv, CacheInv, Requests
<1>1. CASE TakeBucket
  <2>1. /\ request' = [request EXCEPT !.step = "verify", !.in = bucket] /\ request.step = "keys"
        /\ UNCHANGED <<published, bucket, cache, recent>> /\ "verify" \in RequestSteps
    BY <1>1 DEF TakeBucket, RequestSteps
  <2>2. /\ request' \in Requests /\ request'.step = "verify" /\ request'.in = bucket
        /\ request'.user = request.user /\ request'.token = request.token
    <3>1. request' = [step |-> "verify", token |-> request.token, in |-> bucket,
                      user |-> request.user, status |-> request.status]
      BY <1>0, <2>1, RequestExcept, ZenonT(40)
    <3> QED BY <1>0, <2>1, <3>1 DEF Requests
  <2> QED BY <1>0, <2>1, <2>2 DEF AuthInv, RequestInv, CacheInv, Passes
<1>2. CASE VerifyCached
  <2>1. /\ request' = Verified(cache.keys) /\ request.step = "verify"
        /\ cache # Missing /\ cache.bucket = request.in
        /\ UNCHANGED <<published, bucket, cache, recent>>
    BY <1>2 DEF VerifyCached, Cached
  <2>2. /\ request' \in Requests /\ request'.step = "checked" /\ request'.in = request.in
        /\ request'.user # Missing => request.token.key \in cache.keys
    BY <2>1, VerifiedType
  <2> QED BY <1>0, <2>1, <2>2 DEF AuthInv, RequestInv, CacheInv, Passes
<1>3. CASE VerifyFetched
  <2>1. /\ request' = Verified(published) /\ request.step = "verify"
        /\ cache' = [bucket |-> request.in, keys |-> published]
        /\ UNCHANGED <<published, bucket, recent>>
    BY <1>3 DEF VerifyFetched
  <2>2. /\ request' \in Requests /\ request'.step = "checked" /\ request'.in = request.in
        /\ request'.user # Missing => request.token.key \in published
    BY <2>1, VerifiedType
  <2> QED BY <1>0, <2>1, <2>2 DEF AuthInv, RequestInv, CacheInv, Passes
<1>4. CASE FetchFails
  BY <1>0, <1>4 DEF AuthInv, RequestInv, CacheInv, FetchFails, Requests, RequestSteps, Passes
<1>5. CASE Done
  BY <1>0, <1>5 DEF AuthInv, RequestInv, CacheInv, Done, Requests, RequestSteps, Passes,
     NoRequest, KnownUsers
<1>6. ASSUME NEW token \in Tokens \cup {Missing}, BearerToken(token) PROVE AuthInv' /\ Passes
  <2> DEFINE step == IF mode = "production" /\ token # Missing THEN "keys" ELSE "checked"
             user == CASE mode = "off" -> Anonymous
                       [] mode = "development" /\ token # Missing ->
                            IF token.valid THEN UserOf(token) ELSE Missing
                       [] OTHER -> Missing
  <2>1. user \in KnownUsers
    BY DEF KnownUsers
  <2>2. /\ step \in {"keys", "checked"}
        /\ step = "keys" => mode = "production" /\ token # Missing
    OBVIOUS
  <2>3. step = "keys" => user = Missing
    BY <2>2
  <2>4. /\ request' = [NoRequest EXCEPT !.token = token, !.step = step, !.user = user]
        /\ request.step = "idle" /\ UNCHANGED <<published, bucket, cache, recent>>
    BY <1>6 DEF BearerToken
  <2> HIDE DEF user, step
  <2>5. /\ request' \in Requests /\ request'.in = 0 /\ request'.step = step
        /\ request'.user = user /\ request'.token = token
    <3> DEFINE mid == [NoRequest EXCEPT !.token = token]
    <3>1. /\ mid \in Requests /\ mid.in = 0 /\ mid.token = token
      BY DEF NoRequest, Requests, RequestSteps, KnownUsers
    <3>2. request' = [mid EXCEPT !.step = step, !.user = user]
      BY <2>4
    <3>3. step \in RequestSteps
      BY <2>2 DEF RequestSteps
    <3> HIDE DEF mid
    <3>4. request' = [step |-> step, token |-> mid.token, in |-> mid.in,
                      user |-> user, status |-> mid.status]
      BY <3>1, <3>2, RequestExcept, ZenonT(40)
    <3> QED BY <2>1, <3>1, <3>3, <3>4 DEF Requests
  <2> QED BY <1>0, <2>2, <2>3, <2>4, <2>5 DEF AuthInv, RequestInv, CacheInv, Passes
<1>7. ASSUME NEW anyOf \in SUBSET Roles, Authorize(anyOf) PROVE AuthInv' /\ Passes
  <2> DEFINE status == CASE request.user = Missing -> 401
                         [] request.user # Missing /\ anyOf # {}
                              /\ request.user.roles \cap anyOf = {} -> 403
                         [] OTHER -> 200
  <2>1. status \in {200, 401, 403}
    OBVIOUS
  <2>2. /\ request' = [request EXCEPT !.step = "answered", !.status = status]
        /\ request.step = "checked" /\ UNCHANGED <<published, bucket, cache, recent>>
    BY <1>7 DEF Authorize
  <2> HIDE DEF status
  <2>3. /\ request' \in Requests /\ request'.step = "answered" /\ request'.in = request.in
    <3>1. request' = [step |-> "answered", token |-> request.token, in |-> request.in,
                      user |-> request.user, status |-> status]
      BY <1>0, <2>2, RequestExcept
    <3> QED BY <1>0, <2>1, <3>1 DEF Requests, RequestSteps
  <2> QED BY <1>0, <2>2, <2>3 DEF AuthInv, RequestInv, CacheInv, Passes
<1> QED BY <1>1, <1>2, <1>3, <1>4, <1>5, <1>6, <1>7

\* A key that the provider has withdrawn passes no token in the next bucket of time,
\* whatever was cached, fetched late or failed to be fetched, for any keys and tokens.
THEOREM WithdrawnKeys == AuthSpec => WithdrawnKeysExpire
<1>1. AuthInit => AuthInv
  BY DEF AuthInit, AuthInv, RequestInv, CacheInv, NoRequest, Requests, RequestSteps, KnownUsers
<1>2. AuthInv /\ [AuthNext]_authVars => AuthInv' /\ (request' # request => Passes)
  <2> SUFFICES ASSUME AuthInv, [AuthNext]_authVars
               PROVE  AuthInv' /\ (request' # request => Passes)
    OBVIOUS
  <2>1. CASE UNCHANGED authVars
    BY <2>1 DEF AuthInv, RequestInv, CacheInv, authVars
  <2>2. CASE AuthNext
    BY <2>2, ProviderKeeps, RequestStep DEF AuthNext
  <2> QED BY <2>1, <2>2
<1>3. AuthInv /\ request' = request => Passes
  BY DEF AuthInv, RequestInv, Passes
<1>4. AuthInv /\ [AuthNext]_authVars
        => (request.step = "verify" /\ request.in = bucket /\ request'.user # Missing
              => request.token.key \in recent)
  BY <1>2, <1>3 DEF Passes
<1> QED BY <1>1, <1>2, <1>4, PTL DEF AuthSpec, WithdrawnKeysExpire

-----------------------------------------------------------------------------
(* Credentials of the feed.  The key of a row is one made for it, and what *)
(* was good since a request arrived is what it may be accepted on.         *)

FeedPhases == {"idle", "first", "second", "accepted", "refused"}
FeedRequests == [phase : FeedPhases, shown : Presented \cup {Blank}, row : Creds \cup {Blank}]
Own(c) == {c} \X (1 .. MaxKeys)
FeedRows == [key : Secrets \cup {Malformed}, revoked : BOOLEAN]

\* A rotation makes a key for a credential that has one already, and has room for it.
KeysInv ==
  /\ made \in [Creds -> 0 .. MaxKeys] /\ rotator \in Creds \cup {Blank}
  /\ cred \in [Creds -> FeedRows \cup {Blank}]
  /\ \A c \in Creds : cred[c] # Blank => cred[c].key \in Own(c) \cup {Malformed} /\ made[c] # 0
  /\ rotator # Blank => made[rotator] \in 1 .. MaxKeys - 1

\* What a request has presented and been found with so far.
Vouched(row) ==
  /\ feedRequest.shown.basic[1] = row /\ feedRequest.shown.basic \in lived
  /\ Principal[row] = feedRequest.shown.principal
LookupInv ==
  /\ feedRequest \in FeedRequests
  /\ feedRequest.phase # "idle" => feedRequest.shown \in Presented
  /\ feedRequest.phase \in {"first", "second"} => Good(cred) \subseteq lived
  /\ feedRequest.phase = "first" => feedRequest.row = Blank
  /\ feedRequest.phase = "second" => /\ feedRequest.shown.basic # Blank
                                     /\ feedRequest.shown.api # Blank
                                     /\ feedRequest.row # Blank => Vouched(feedRequest.row)
CredInv == KeysInv /\ LookupInv /\ AcceptedOnOwnKeys

\* What a request presents: a Basic pair, an API key, or both.
LEMMA Shown ==
  ASSUME NEW shown \in Presented
  PROVE  /\ shown.basic \in Secrets \cup {Blank} /\ shown.api \in Secrets \cup {Blank}
         /\ shown.basic # Blank => shown.principal # Blank
         /\ shown.basic = Blank => shown.api # Blank
BY CredConstantsOK DEF Presented

\* A row that matches a key is its own, and is good.
LEMMA Matching ==
  ASSUME KeysInv, NEW key \in Secrets, NEW principal, NEW c \in MatchRow(cred, principal, key)
  PROVE  /\ c \in Creds /\ c # Blank /\ key[1] = c /\ key \in Good(cred)
         /\ principal # Blank => Principal[c] = principal
<1>1. /\ c \in Creds /\ cred[c] # Blank /\ ~cred[c].revoked /\ cred[c].key = key
      /\ principal # Blank => Principal[c] = principal
  BY DEF MatchRow, NonRevoked
<1>2. key \in Own(c)
  BY <1>1, CredConstantsOK DEF KeysInv
<1>3. key \in Good(cred)
  BY <1>1 DEF Good, NonRevoked
<1> QED BY <1>1, <1>2, <1>3, CredConstantsOK DEF Own

\* A write of the rows keeps what the request under way has been found with.
LEMMA RequestRemembers ==
  ASSUME CredInv, KeysInv', UNCHANGED feedRequest, Remember
  PROVE  CredInv'
<1>1. lived \subseteq lived'
  BY DEF Remember
<1>2. feedRequest.phase \in {"first", "second"} => Good(cred)' \subseteq lived'
  BY DEF Remember, Good, NonRevoked
<1>3. feedRequest.phase \notin {"first", "second"} => lived' = lived
  BY DEF Remember
<1>4. LookupInv'
  BY <1>1, <1>2 DEF CredInv, LookupInv, Vouched, FeedRequests
<1>5. AcceptedOnOwnKeys'
  BY <1>3 DEF CredInv, AcceptedOnOwnKeys
<1> QED BY <1>4, <1>5 DEF CredInv

\* The steps of the administrator.
LEMMA RowsStep ==
  ASSUME CredInv,
         \/ RotateWrite
         \/ \E c \in Creds : CreateCredential(c) \/ DeleteFeedCredential(c) \/ RotateRead(c)
         \/ \E c \in Creds, revoked \in BOOLEAN :
              \E key \in {Malformed} \cup (IF cred[c] = Blank THEN {} ELSE {cred[c].key}) :
                UpdateCredential(c, revoked, key)
  PROVE  CredInv'
<1> USE DEF CredInv
<1>1. CASE RotateWrite
  <2>1. KeysInv'
    <3> DEFINE new == made[rotator] + 1
               key == <<rotator, new>>
               row == [cred[rotator] EXCEPT !.key = key]
    <3>1. rotator \in Creds /\ new \in 1 .. MaxKeys /\ MaxKeys \in Nat /\ rotator' = Blank
          /\ made' = [made EXCEPT ![rotator] = new]
      BY <1>1, CredConstantsOK DEF KeysInv, RotateWrite
    <3>2. made' \in [Creds -> 0 .. MaxKeys] /\ made'[rotator] # 0
          /\ \A c \in Creds \ {rotator} : made'[c] = made[c]
      BY <3>1 DEF KeysInv
    <3>3. key \in Own(rotator) /\ key \in Secrets
      BY <3>1 DEF Own, Secrets
    <3>4. CASE cred[rotator] = Blank
      BY <1>1, <3>1, <3>2, <3>4 DEF KeysInv, RotateWrite
    <3>5. CASE cred[rotator] # Blank
      <4>1. cred[rotator] \in FeedRows
        BY <3>1, <3>5 DEF KeysInv
      <4>2. row \in FeedRows /\ row.key = key
        BY <3>3, <4>1 DEF FeedRows
      <4>3. cred' = [cred EXCEPT ![rotator] = row]
        BY <1>1, <3>5 DEF RotateWrite
      <4> HIDE DEF row, key
      <4> QED BY <3>1, <3>2, <3>3, <4>2, <4>3 DEF KeysInv
    <3> QED BY <3>4, <3>5
  <2> QED BY <1>1, <2>1, RequestRemembers DEF RotateWrite
<1>2. ASSUME NEW c \in Creds, CreateCredential(c) PROVE CredInv'
  <2>1. KeysInv'
    <3> DEFINE key == <<c, 1>>
               row == [key |-> key, revoked |-> FALSE]
    <3>1. key \in Own(c) /\ row \in FeedRows /\ row.key = key
      BY CredConstantsOK DEF Own, FeedRows, Secrets
    <3>2. /\ cred' = [cred EXCEPT ![c] = row] /\ made' = [made EXCEPT ![c] = 1] /\ made[c] = 0
          /\ rotator' = rotator
      BY <1>2 DEF CreateCredential, WriteCredential
    <3> HIDE DEF key, row
    <3> QED BY <3>1, <3>2, CredConstantsOK DEF KeysInv
  <2> QED BY <1>2, <2>1, RequestRemembers DEF CreateCredential, WriteCredential
<1>3. ASSUME NEW c \in Creds, DeleteFeedCredential(c) PROVE CredInv'
  <2>1. KeysInv'
    BY <1>3 DEF KeysInv, DeleteFeedCredential, Own
  <2> QED BY <1>3, <2>1, RequestRemembers DEF DeleteFeedCredential
<1>4. ASSUME NEW c \in Creds, RotateRead(c) PROVE CredInv'
  <2>1. KeysInv'
    BY <1>4, CredConstantsOK DEF KeysInv, RotateRead, Own
  <2> QED BY <1>4, <2>1, RequestRemembers DEF RotateRead
<1>5. ASSUME NEW c \in Creds, NEW revoked \in BOOLEAN,
             NEW key \in {Malformed} \cup (IF cred[c] = Blank THEN {} ELSE {cred[c].key}),
             UpdateCredential(c, revoked, key)
      PROVE  CredInv'
  <2>1. KeysInv'
    <3> DEFINE row == [key |-> key, revoked |-> revoked]
    <3>1. cred[c] # Blank /\ cred' = [cred EXCEPT ![c] = row] /\ UNCHANGED <<made, rotator>>
      BY <1>5 DEF UpdateCredential, WriteCredential
    <3>2. key \in Own(c) \cup {Malformed} /\ Own(c) \subseteq Secrets
      BY <3>1 DEF KeysInv, Own, Secrets
    <3>3. row \in FeedRows /\ row.key = key
      BY <3>2 DEF FeedRows
    <3> HIDE DEF row
    <3> QED BY <3>1, <3>2, <3>3 DEF KeysInv
  <2> QED BY <1>5, <2>1, RequestRemembers DEF UpdateCredential, WriteCredential
<1> QED BY <1>1, <1>2, <1>3, <1>4, <1>5

\* The steps of a request.
LEMMA LookupStep ==
  ASSUME CredInv, LookUp \/ LookUpKey \/ \E shown \in Presented : Arrive(shown)
  PROVE  CredInv'
<1>0. feedRequest \in FeedRequests /\ KeysInv /\ LookupInv
  BY DEF CredInv, LookupInv
<1>1. ASSUME NEW shown \in Presented, Arrive(shown) PROVE CredInv'
  BY <1>0, <1>1 DEF CredInv, KeysInv, LookupInv, AcceptedOnOwnKeys, Arrive, FeedRequests,
     FeedPhases, Good, NonRevoked
<1> DEFINE shown == feedRequest.shown
<1>2. CASE LookUp
  <2> DEFINE hits == IF shown.basic # Blank THEN MatchRow(cred, shown.principal, shown.basic)
                                           ELSE MatchRow(cred, Blank, shown.api)
             both == shown.basic # Blank /\ shown.api # Blank
  <2>1. /\ feedRequest.phase = "first" /\ shown \in Presented /\ Good(cred) \subseteq lived
        /\ feedRequest.row = Blank
    BY <1>0, <1>2 DEF LookUp, LookupInv
  <2>2. /\ shown.basic \in Secrets \cup {Blank} /\ shown.api \in Secrets \cup {Blank}
        /\ shown.basic # Blank => shown.principal # Blank
        /\ shown.basic = Blank => shown.api # Blank
    BY <2>1, Shown
  <2>3. UNCHANGED <<cred, made, rotator, lived>> /\ KeysInv' /\ Good(cred)' = Good(cred)
    BY <1>0, <1>2 DEF LookUp, KeysInv, Good, NonRevoked
  <2>4. CASE feedRequest' = [feedRequest EXCEPT !.phase = IF both THEN "second" ELSE "refused"]
    BY <1>0, <2>1, <2>2, <2>3, <2>4 DEF CredInv, LookupInv, AcceptedOnOwnKeys, FeedRequests,
       FeedPhases
  <2>5. ASSUME NEW c \in hits,
               feedRequest' = [feedRequest EXCEPT !.row = c,
                                                  !.phase = IF both THEN "second" ELSE "accepted"]
        PROVE  CredInv'
    <3> DEFINE phase == IF both THEN "second" ELSE "accepted"
    <3>1. CASE shown.basic # Blank
      <4>1. /\ c \in Creds /\ c # Blank /\ shown.basic[1] = c /\ shown.basic \in Good(cred)
            /\ Principal[c] = shown.principal
        BY <1>0, <2>2, <2>5, <3>1, Matching
      <4>2. feedRequest' = [phase |-> phase, shown |-> shown, row |-> c]
        BY <1>0, <2>5 DEF FeedRequests
      <4>3. phase \in {"second", "accepted"} /\ (phase = "second" => both)
            /\ (phase = "accepted" => shown.api = Blank)
        BY <3>1
      <4> HIDE DEF phase
      <4>4. feedRequest' \in FeedRequests
        BY <2>1, <4>1, <4>2, <4>3 DEF FeedRequests, FeedPhases
      <4>5. LookupInv'
        BY <2>1, <2>3, <4>1, <4>2, <4>3, <4>4 DEF LookupInv, Vouched
      <4>6. AcceptedOnOwnKeys'
        BY <2>1, <2>3, <4>1, <4>2, <4>3 DEF AcceptedOnOwnKeys
      <4> QED BY <2>3, <4>5, <4>6 DEF CredInv
    <3>2. CASE shown.basic = Blank
      <4>1. /\ c \in Creds /\ c # Blank /\ shown.api[1] = c /\ shown.api \in Good(cred)
        BY <1>0, <2>2, <2>5, <3>2, Matching
      <4>2. feedRequest' = [phase |-> "accepted", shown |-> shown, row |-> c]
        BY <1>0, <2>5, <3>2 DEF FeedRequests
      <4>4. feedRequest' \in FeedRequests
        BY <2>1, <4>1, <4>2 DEF FeedRequests, FeedPhases
      <4>5. LookupInv'
        BY <2>1, <2>3, <4>1, <4>2, <4>4 DEF LookupInv
      <4>6. AcceptedOnOwnKeys'
        BY <2>1, <2>3, <3>2, <4>1, <4>2 DEF AcceptedOnOwnKeys
      <4> QED BY <2>3, <4>5, <4>6 DEF CredInv
    <3> QED BY <3>1, <3>2
  <2> QED BY <1>2, <2>4, <2>5 DEF LookUp
<1>3. CASE LookUpKey
  <2>1. PICK second \in {Blank} \cup Creds :
          /\ LET hits == MatchRow(cred, Blank, shown.api)
             IN IF hits = {} THEN second = Blank ELSE second \in hits
          /\ feedRequest' = [feedRequest EXCEPT !.phase = IF SameRow(feedRequest.row, second)
                                                          THEN "accepted" ELSE "refused"]
    BY <1>3 DEF LookUpKey
  <2>2. /\ feedRequest.phase = "second" /\ shown \in Presented /\ Good(cred) \subseteq lived
        /\ shown.basic # Blank /\ shown.api # Blank
        /\ feedRequest.row # Blank => Vouched(feedRequest.row)
    BY <1>0, <1>3 DEF LookUpKey, LookupInv
  <2>3. UNCHANGED <<cred, made, rotator, lived>> /\ KeysInv'
    BY <1>0, <1>3 DEF LookUpKey, KeysInv
  <2>4. CASE ~SameRow(feedRequest.row, second)
    BY <1>0, <2>1, <2>2, <2>3, <2>4 DEF CredInv, LookupInv, AcceptedOnOwnKeys, FeedRequests,
       FeedPhases
  <2>5. CASE SameRow(feedRequest.row, second)
    <3>1. feedRequest.row = second /\ second # Blank /\ second \in MatchRow(cred, Blank, shown.api)
      BY <2>1, <2>5 DEF SameRow
    <3>2. shown.api \in Secrets
      BY <2>2, Shown
    <3>3. /\ second \in Creds /\ shown.api[1] = second /\ shown.api \in Good(cred)
      BY <1>0, <3>1, <3>2, Matching
    <3>4. feedRequest' = [phase |-> "accepted", shown |-> shown, row |-> second]
      BY <1>0, <2>1, <2>5, <3>1 DEF FeedRequests
    <3>5. LookupInv'
      BY <2>2, <2>3, <3>3, <3>4 DEF LookupInv, FeedRequests, FeedPhases
    <3>6. AcceptedOnOwnKeys'
      BY <2>2, <2>3, <3>1, <3>3, <3>4 DEF AcceptedOnOwnKeys, Vouched
    <3> QED BY <2>3, <3>5, <3>6 DEF CredInv
  <2> QED BY <2>4, <2>5
<1> QED BY <1>1, <1>2, <1>3

\* A request is accepted as a credential only on keys of that credential, each good at
\* some time since it arrived, whatever is rotated, revoked and deleted meanwhile: for any
\* number of credentials and keys.
THEOREM OwnKeys == CredSpec => []AcceptedOnOwnKeys
<1>1. CredInit => CredInv
  BY CredConstantsOK DEF CredInit, CredInv, KeysInv, LookupInv, AcceptedOnOwnKeys, NoFeedRequest,
     FeedRequests, FeedPhases
<1>2. CredInv /\ [CredNext]_credVars => CredInv'
  <2> SUFFICES ASSUME CredInv, [CredNext]_credVars PROVE CredInv'
    OBVIOUS
  <2>1. CASE UNCHANGED credVars
    BY <2>1 DEF CredInv, KeysInv, LookupInv, AcceptedOnOwnKeys, Vouched, Good, NonRevoked, credVars
  <2>2. CASE CredNext
    BY <2>2, RowsStep, LookupStep DEF CredNext
  <2> QED BY <2>1, <2>2
<1>3. CredInv => AcceptedOnOwnKeys
  BY DEF CredInv
<1> QED BY <1>1, <1>2, <1>3, PTL DEF CredSpec

-----------------------------------------------------------------------------
(* Fetching.  A fetch is at a permitted host, has sent one request for each *)
(* hop, and holds a credential of an endpoint that covers its first url.   *)

FetchSteps == {"idle", "connection", "credential", "request", "answer", "done", "recorded"}
Sources == {SourceOf[c] : c \in Connections}
Fetches == [step : FetchSteps, url : Urls \cup {Unset}, at : Urls \cup {Unset},
            source : Sources \cup {Unset}, header : CredentialRows \cup {Unset}, hops : Nat,
            outcome : Outcomes]
Sendings == [url : Urls, header : CredentialRows \cup {Unset}]

Covers(source, url) ==
  \E c \in Connections : SourceOf[c] = source /\ EndpointMatches(Endpoint[c], url)
Busy == {"connection", "credential", "request", "answer"}

FetchInv ==
  /\ fetch \in Fetches /\ fetch.hops <= MaxHops
  /\ fetch.step \in Busy => /\ fetch.url \in Urls /\ fetch.at \in Urls
                            /\ ValidDestination(fetch.at)
  /\ fetch.step \in {"connection", "credential"} => fetch.hops = 0 /\ fetch.header = Unset
  /\ fetch.step = "credential" => Covers(fetch.source, fetch.url)
  /\ fetch.header # Unset => Covers(fetch.header.source, fetch.url)
SentInv ==
  /\ credentials \in Seq(CredentialRows) /\ sent \in Seq(Sendings)
  /\ fetch.step \in Busy \ {"answer"} => Len(sent) = fetch.hops
  /\ fetch.step = "answer" => Len(sent) = fetch.hops + 1
EgressInv == FetchInv /\ SentInv /\ HeaderStaysHome

\* A fetch field by field: one that is at another step.
LEMMA FetchAt ==
  ASSUME NEW f \in Fetches, NEW a
  PROVE  [f EXCEPT !.step = a]
           = [step |-> a, url |-> f.url, at |-> f.at, source |-> f.source,
              header |-> f.header, hops |-> f.hops, outcome |-> f.outcome]
BY DEF Fetches

\* One that changes in another field with it.
LEMMA FetchExcept ==
  ASSUME NEW f \in Fetches, NEW a, NEW b
  PROVE  /\ [f EXCEPT !.step = a, !.outcome = b]
              = [step |-> a, url |-> f.url, at |-> f.at, source |-> f.source,
                 header |-> f.header, hops |-> f.hops, outcome |-> b]
         /\ [f EXCEPT !.source = b, !.step = a]
              = [step |-> a, url |-> f.url, at |-> f.at, source |-> b,
                 header |-> f.header, hops |-> f.hops, outcome |-> f.outcome]
         /\ [f EXCEPT !.step = a, !.header = b]
              = [step |-> a, url |-> f.url, at |-> f.at, source |-> f.source,
                 header |-> b, hops |-> f.hops, outcome |-> f.outcome]
<1> DEFINE mid == [f EXCEPT !.step = a]
<1>1. mid = [step |-> a, url |-> f.url, at |-> f.at, source |-> f.source,
             header |-> f.header, hops |-> f.hops, outcome |-> f.outcome]
  BY FetchAt
<1>2. /\ [f EXCEPT !.step = a, !.outcome = b] = [mid EXCEPT !.outcome = b]
      /\ [f EXCEPT !.source = b, !.step = a] = [mid EXCEPT !.source = b]
      /\ [f EXCEPT !.step = a, !.header = b] = [mid EXCEPT !.header = b]
  OBVIOUS
<1> HIDE DEF mid
<1> QED BY <1>1, <1>2

\* One that has been redirected.
LEMMA FetchOn ==
  ASSUME NEW f \in Fetches, NEW a, NEW b, NEW c
  PROVE  [f EXCEPT !.step = a, !.at = b, !.hops = c]
           = [step |-> a, url |-> f.url, at |-> b, source |-> f.source,
              header |-> f.header, hops |-> c, outcome |-> f.outcome]
<1> DEFINE mid == [f EXCEPT !.step = a]
           next == [mid EXCEPT !.at = b]
<1>1. mid = [step |-> a, url |-> f.url, at |-> f.at, source |-> f.source,
             header |-> f.header, hops |-> f.hops, outcome |-> f.outcome]
  BY FetchAt
<1>2. [f EXCEPT !.step = a, !.at = b, !.hops = c] = [next EXCEPT !.hops = c]
  OBVIOUS
<1> HIDE DEF mid
<1>3. next = [step |-> a, url |-> f.url, at |-> b, source |-> f.source,
              header |-> f.header, hops |-> f.hops, outcome |-> f.outcome]
  BY <1>1
<1> HIDE DEF next
<1> QED BY <1>2, <1>3

\* A fetch that sends nothing in a step, asks for the same url, and keeps its invariant.
LEMMA FetchMoves ==
  ASSUME EgressInv, FetchInv', UNCHANGED <<credentials, sent>>, fetch'.url = fetch.url,
         \/ fetch'.step \in Busy \ {"answer"} /\ Len(sent) = fetch'.hops
         \/ fetch'.step \notin Busy
  PROVE  EgressInv'
<1>1. SentInv'
  BY DEF EgressInv, SentInv, Busy
<1>2. HeaderStaysHome'
  BY DEF EgressInv, HeaderStaysHome
<1> QED BY <1>1, <1>2 DEF EgressInv

\* One that is over.
LEMMA FetchFinishes ==
  ASSUME EgressInv, NEW outcome \in Outcomes, Finished(outcome), UNCHANGED <<credentials, sent>>
  PROVE  EgressInv'
<1>1. fetch \in Fetches
  BY DEF EgressInv, FetchInv
<1>2. fetch' = [step |-> "done", url |-> fetch.url, at |-> fetch.at, source |-> fetch.source,
                header |-> fetch.header, hops |-> fetch.hops, outcome |-> outcome]
  BY <1>1, FetchExcept, ZenonT(40) DEF Finished
<1>3. fetch' \in Fetches
  BY <1>1, <1>2 DEF Fetches, FetchSteps
<1>4. FetchInv'
  BY <1>2, <1>3 DEF EgressInv, FetchInv, Busy, Covers
<1> QED BY <1>2, <1>4, FetchMoves DEF Busy

\* A fetch begins anew.
LEMMA FetchStep ==
  ASSUME EgressInv, NEW url \in Urls, FetchBytes(url)
  PROVE  EgressInv'
<1>1. UNCHANGED credentials /\ sent' = <<>>
  BY DEF FetchBytes
<1> DEFINE step == IF ValidDestination(url) THEN "connection" ELSE "done"
           at == IF ValidDestination(url) THEN url ELSE Unset
<1>2. /\ fetch' \in Fetches /\ fetch'.step = step /\ fetch'.url = at /\ fetch'.at = at
      /\ fetch'.header = Unset /\ fetch'.hops = 0
  BY DEF FetchBytes, NoFetch, Fetches, FetchSteps, Outcomes
<1>3. FetchInv'
  BY <1>2, EgressConstantsOK DEF FetchInv, Busy
<1>4. SentInv'
  BY <1>1, <1>2 DEF EgressInv, SentInv, Busy
<1>5. HeaderStaysHome'
  BY <1>1, EgressConstantsOK DEF HeaderStaysHome
<1> QED BY <1>3, <1>4, <1>5 DEF EgressInv

\* The credential of the endpoint that covers the url best.
LEMMA CredentialStep ==
  ASSUME EgressInv, FindConnection \/ FindCredential
  PROVE  EgressInv'
<1>1. fetch \in Fetches /\ FetchInv /\ SentInv /\ UNCHANGED <<credentials, sent>>
  BY DEF EgressInv, FetchInv, FindConnection, FindCredential
<1>2. CASE FindConnection
  <2>1. fetch.step = "connection" /\ Len(sent) = fetch.hops
    BY <1>1, <1>2 DEF FindConnection, SentInv, Busy
  <2>2. CASE fetch' = [fetch EXCEPT !.step = "request"]
    <3>1. fetch' = [step |-> "request", url |-> fetch.url, at |-> fetch.at,
                    source |-> fetch.source, header |-> fetch.header, hops |-> fetch.hops,
                    outcome |-> fetch.outcome]
      BY <1>1, <2>2, FetchAt
    <3>2. FetchInv'
      BY <1>1, <2>1, <3>1 DEF FetchInv, Fetches, FetchSteps, Busy, Covers
    <3> QED BY <1>1, <2>1, <3>1, <3>2, FetchMoves DEF Busy
  <2>3. ASSUME NEW c \in BestConnections(fetch.url),
               fetch' = [fetch EXCEPT !.source = SourceOf[c],
                                      !.step = IF SourceOf[c] = Unset THEN "request"
                                                                     ELSE "credential"]
        PROVE  EgressInv'
    <3> DEFINE step == IF SourceOf[c] = Unset THEN "request" ELSE "credential"
    <3>1. step \in {"request", "credential"}
      OBVIOUS
    <3>2. fetch' = [step |-> step, url |-> fetch.url, at |-> fetch.at,
                    source |-> SourceOf[c], header |-> fetch.header, hops |-> fetch.hops,
                    outcome |-> fetch.outcome]
      BY <1>1, <2>3, FetchExcept, ZenonT(40)
    <3> HIDE DEF step
    <3>3. c \in Connections /\ EndpointMatches(Endpoint[c], fetch.url)
      BY DEF BestConnections
    <3>4. Covers(SourceOf[c], fetch.url) /\ SourceOf[c] \in Sources
      BY <3>3 DEF Covers, Sources
    <3>5. fetch' \in Fetches
      BY <1>1, <3>1, <3>2, <3>4 DEF Fetches, FetchSteps
    <3>6. FetchInv'
      BY <1>1, <2>1, <3>1, <3>2, <3>4, <3>5 DEF FetchInv, Busy, Covers
    <3> QED BY <1>1, <2>1, <3>1, <3>2, <3>6, FetchMoves DEF Busy
  <2> QED BY <1>2, <2>2, <2>3 DEF FindConnection
<1>3. CASE FindCredential
  <2>1. fetch.step = "credential" /\ Len(sent) = fetch.hops
    BY <1>1, <1>3 DEF FindCredential, SentInv, Busy
  <2>2. CASE fetch' = [fetch EXCEPT !.step = "request"]
    <3>1. fetch' = [step |-> "request", url |-> fetch.url, at |-> fetch.at,
                    source |-> fetch.source, header |-> fetch.header, hops |-> fetch.hops,
                    outcome |-> fetch.outcome]
      BY <1>1, <2>2, FetchAt
    <3>2. FetchInv'
      BY <1>1, <2>1, <3>1 DEF FetchInv, Fetches, FetchSteps, Busy, Covers
    <3> QED BY <1>1, <2>1, <3>1, <3>2, FetchMoves DEF Busy
  <2>3. ASSUME NEW row \in ActiveCredential(fetch.source),
               fetch' = [fetch EXCEPT !.step = "request", !.header = row]
        PROVE  EgressInv'
    <3>1. row \in CredentialRows /\ row.source = fetch.source
      BY <1>1 DEF ActiveCredential, SentInv
    <3>2. fetch' = [step |-> "request", url |-> fetch.url, at |-> fetch.at,
                    source |-> fetch.source, header |-> row, hops |-> fetch.hops,
                    outcome |-> fetch.outcome]
      BY <1>1, <2>3, FetchExcept, ZenonT(40)
    <3>3. fetch' \in Fetches
      BY <1>1, <3>1, <3>2 DEF Fetches, FetchSteps
    <3>4. FetchInv'
      BY <1>1, <2>1, <3>1, <3>2, <3>3 DEF FetchInv, Busy, Covers
    <3> QED BY <1>1, <2>1, <3>2, <3>4, FetchMoves DEF Busy
  <2>4. CASE Finished("auth_failed") \/ Finished("secret")
    BY <1>1, <2>4, FetchFinishes DEF Outcomes
  <2>5. \/ fetch' = [fetch EXCEPT !.step = "request"]
        \/ Finished("auth_failed") \/ Finished("secret")
        \/ \E row \in ActiveCredential(fetch.source) :
             fetch' = [fetch EXCEPT !.step = "request", !.header = row]
    BY <1>3 DEF FindCredential
  <2> QED BY <2>2, <2>3, <2>4, <2>5
<1> QED BY <1>2, <1>3

\* A request is sent with the credential where it is at home, and without it elsewhere.
LEMMA SendStep ==
  ASSUME EgressInv, Send
  PROVE  EgressInv'
<1>1. /\ fetch \in Fetches /\ FetchInv /\ SentInv /\ HeaderStaysHome /\ UNCHANGED credentials
      /\ fetch.step = "request" /\ Len(sent) = fetch.hops /\ fetch.hops \in Nat
      /\ fetch.hops <= MaxHops /\ fetch.at \in Urls /\ ValidDestination(fetch.at)
      /\ sent \in Seq(Sendings)
  BY DEF EgressInv, FetchInv, SentInv, Send, Busy, Fetches
<1> DEFINE new == [url |-> fetch.at, header |-> HeaderFor(fetch)]
<1>2. /\ new \in Sendings /\ new.url = fetch.at
      /\ new.header # Unset => /\ EffectiveOrigin(fetch.at) = EffectiveOrigin(fetch.url)
                               /\ Covers(new.header.source, fetch.url)
  BY <1>1 DEF HeaderFor, Sendings, FetchInv, Fetches
<1>3. sent' = Append(sent, new) /\ fetch' = [fetch EXCEPT !.step = "answer"]
  BY DEF Send
<1> HIDE DEF new
<1>4. fetch' = [step |-> "answer", url |-> fetch.url, at |-> fetch.at,
                source |-> fetch.source, header |-> fetch.header, hops |-> fetch.hops,
                outcome |-> fetch.outcome]
  BY <1>1, <1>3, FetchAt
<1>5. /\ sent' \in Seq(Sendings) /\ Len(sent') = Len(sent) + 1 /\ DOMAIN sent' = 1 .. Len(sent) + 1
      /\ DOMAIN sent = 1 .. Len(sent) /\ sent'[Len(sent) + 1] = new
      /\ \A i \in DOMAIN sent : sent'[i] = sent[i]
  BY <1>1, <1>2, <1>3
<1>6. FetchInv'
  BY <1>1, <1>4 DEF FetchInv, Fetches, FetchSteps, Busy, Covers
<1>7. SentInv'
  BY <1>1, <1>4, <1>5 DEF SentInv, Busy
<1>8. HeaderStaysHome'
  <2>1. Len(sent') <= MaxHops + 1
    BY <1>1, <1>5, EgressConstantsOK
  <2>2. ASSUME NEW i \in DOMAIN sent'
        PROVE  /\ ValidDestination(sent'[i].url)
               /\ sent'[i].header # Unset =>
                    /\ EffectiveOrigin(sent'[i].url) = EffectiveOrigin(fetch.url)
                    /\ Covers(sent'[i].header.source, fetch.url)
    <3>1. CASE i = Len(sent) + 1
      BY <1>1, <1>2, <1>5, <3>1
    <3>2. CASE i \in DOMAIN sent
      BY <1>1, <1>5, <3>2 DEF HeaderStaysHome, Covers
    <3> QED BY <1>1, <1>5, <3>1, <3>2
  <2> QED BY <1>4, <2>1, <2>2 DEF HeaderStaysHome, Covers
<1> QED BY <1>6, <1>7, <1>8 DEF EgressInv

\* A redirect is followed where there is a hop left and the host is permitted.
LEMMA RedirectStep ==
  ASSUME EgressInv, NEW to \in Urls, Redirected(to)
  PROVE  EgressInv'
<1>1. /\ fetch \in Fetches /\ FetchInv /\ UNCHANGED <<credentials, sent>>
      /\ fetch.step = "answer" /\ Len(sent) = fetch.hops + 1 /\ fetch.hops \in Nat
      /\ fetch.hops <= MaxHops /\ MaxHops \in Nat
  BY EgressConstantsOK DEF EgressInv, FetchInv, SentInv, Redirected, Fetches
<1>2. CASE Finished("failed") \/ Finished("denied")
  BY <1>1, <1>2, FetchFinishes DEF Outcomes
<1>3. CASE /\ fetch.hops # MaxHops /\ ValidDestination(to)
           /\ fetch' = [fetch EXCEPT !.step = "request", !.at = to, !.hops = @ + 1]
  <2>1. fetch' = [step |-> "request", url |-> fetch.url, at |-> to,
                  source |-> fetch.source, header |-> fetch.header, hops |-> fetch.hops + 1,
                  outcome |-> fetch.outcome]
    BY <1>1, <1>3, FetchOn
  <2>2. FetchInv'
    BY <1>1, <1>3, <2>1 DEF FetchInv, Fetches, FetchSteps, Busy, Covers
  <2> QED BY <1>1, <2>1, <2>2, FetchMoves DEF Busy
<1>4. \/ Finished("failed") \/ Finished("denied")
      \/ /\ fetch.hops # MaxHops /\ ValidDestination(to)
         /\ fetch' = [fetch EXCEPT !.step = "request", !.at = to, !.hops = @ + 1]
  BY <1>1 DEF Redirected
<1> QED BY <1>2, <1>3, <1>4

\* The outcome of a test is recorded, and the administrator changes the credentials.
LEMMA RecordStep ==
  ASSUME EgressInv,
         \/ RecordTest
         \/ \E row \in CredentialRows : AddCredential(row)
         \/ \E i \in 1 .. MaxRows : DeleteSourceCredential(i)
  PROVE  EgressInv'
<1>1. fetch \in Fetches /\ FetchInv /\ SentInv
  BY DEF EgressInv, FetchInv
<1>2. CASE RecordTest
  <2>1. fetch' = [step |-> "recorded", url |-> fetch.url, at |-> fetch.at,
                  source |-> fetch.source, header |-> fetch.header, hops |-> fetch.hops,
                  outcome |-> fetch.outcome]
    BY <1>1, <1>2, FetchAt DEF RecordTest
  <2>2. FetchInv'
    BY <1>1, <2>1 DEF FetchInv, Fetches, FetchSteps, Busy, Covers
  <2>3. UNCHANGED <<credentials, sent>>
    BY <1>2 DEF RecordTest
  <2> QED BY <2>1, <2>2, <2>3, FetchMoves DEF Busy
<1>3. CASE credentials' \in Seq(CredentialRows) /\ UNCHANGED <<fetch, sent>>
  BY <1>3 DEF EgressInv, FetchInv, SentInv, HeaderStaysHome
<1>4. ASSUME NEW row \in CredentialRows, AddCredential(row)
      PROVE  credentials' \in Seq(CredentialRows) /\ UNCHANGED <<fetch, sent>>
  BY <1>1, <1>4 DEF AddCredential, SentInv
<1>5. ASSUME NEW i \in 1 .. MaxRows, DeleteSourceCredential(i)
      PROVE  credentials' \in Seq(CredentialRows) /\ UNCHANGED <<fetch, sent>>
  <2>1. credentials \in Seq(CredentialRows) /\ i \in 1 .. Len(credentials)
    BY <1>1, <1>5 DEF DeleteSourceCredential, SentInv
  <2>2. /\ SubSeq(credentials, 1, i - 1) \in Seq(CredentialRows)
        /\ SubSeq(credentials, i + 1, Len(credentials)) \in Seq(CredentialRows)
    BY <2>1
  <2> QED BY <1>5, <2>2 DEF DeleteSourceCredential
<1> QED BY <1>2, <1>3, <1>4, <1>5

\* Through any redirects, of any fetch: every request goes to a permitted host, within the
\* hops allowed, and a credential only to the origin that was asked for first, which an
\* endpoint of the credential's own source covers.
THEOREM HeaderAtHome == EgressSpec => []HeaderStaysHome
<1>1. EgressInit => EgressInv
  BY EgressConstantsOK DEF EgressInit, EgressInv, FetchInv, SentInv, HeaderStaysHome, NoFetch,
     Fetches, FetchSteps, Outcomes, Busy
<1>2. EgressInv /\ [EgressNext]_egressVars => EgressInv'
  <2> SUFFICES ASSUME EgressInv, [EgressNext]_egressVars PROVE EgressInv'
    OBVIOUS
  <2>1. CASE UNCHANGED egressVars
    BY <2>1 DEF EgressInv, FetchInv, SentInv, HeaderStaysHome, Covers, egressVars
  <2>2. ASSUME NEW o \in {"ok", "auth_failed", "transport", "failed"}, Responded(o)
        PROVE  EgressInv'
    BY <2>2, FetchFinishes DEF Responded, Outcomes
  <2>3. CASE EgressNext
    BY <2>2, <2>3, FetchStep, CredentialStep, SendStep, RedirectStep, RecordStep DEF EgressNext
  <2> QED BY <2>1, <2>3
<1>3. EgressInv => HeaderStaysHome
  BY DEF EgressInv
<1> QED BY <1>1, <1>2, <1>3, PTL DEF EgressSpec

=============================================================================
