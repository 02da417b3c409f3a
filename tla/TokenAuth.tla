----------------------------- MODULE TokenAuth ------------------------------
(***************************************************************************)
(* Bearer tokens (app/auth/security.py, dependencies.py, authorization.py):*)
(* the identity provider's keys are cached for the bucket of time they were*)
(* fetched in, a token is checked against them, and a route asks for a     *)
(* user or for a role.  Signatures hold exactly for the key that made them.*)
(***************************************************************************)
EXTENDS Naturals, FiniteSets

CONSTANTS
  KeyIds,         \* of the provider's keys: numbers, in the order of its document
  Tokens,         \* [kid, key, valid, roles]: the kid it names or Missing, the key that signed it
  Roles,          \* that routes ask for
  Modes,          \* AUTH_MODE, or "off" where AUTH_ENABLED is false
  MaxBucket,      \* bound: buckets of AUTH_JWKS_CACHE_TTL seconds
  MaxKeyChanges,  \* bound: changes of the published keys
  Missing         \* no such thing

ASSUME AuthConstantsOK == KeyIds \subseteq Nat /\ MaxBucket \in Nat /\ MaxKeyChanges \in Nat

VARIABLES
  mode,       \* of this deployment
  published,  \* the keys the provider publishes
  bucket,     \* the time, in buckets
  cache,      \* _cached_jwks: [bucket, keys], or Missing
  request,    \* the request under way
  recent,     \* history: the keys published at some time of this bucket
  keyChanges

authVars == <<mode, published, bucket, cache, request, recent, keyChanges>>

NoRequest == [step |-> "idle", token |-> Missing, in |-> 0, user |-> Missing, status |-> 0]

AuthInit ==
  /\ mode \in Modes
  /\ published \in SUBSET KeyIds /\ recent = published
  /\ bucket = 0 /\ cache = Missing /\ request = NoRequest /\ keyChanges = 0

-----------------------------------------------------------------------------
(* Seeded faults: each stands in for the definition named.                 *)

CachedAny(b) == cache # Missing                                        \* Cached

-----------------------------------------------------------------------------
(* The provider, and time.                                                 *)

PublishKeys(keys) ==
  /\ keyChanges < MaxKeyChanges /\ keyChanges' = keyChanges + 1
  /\ published' = keys /\ recent' = recent \cup keys
  /\ UNCHANGED <<mode, bucket, cache, request>>

NextBucket ==
  /\ bucket < MaxBucket /\ bucket' = bucket + 1 /\ recent' = published
  /\ UNCHANGED <<mode, published, cache, request, keyChanges>>

-----------------------------------------------------------------------------
(* Validating a token.                                                     *)

\* _get_verification_key: the key of the document that the token names; without a kid
\* the first one, whoever signed.
VerificationKeys(keys, token) ==
  CASE token.kid # Missing -> keys \cap {token.kid}
    [] token.kid = Missing -> {k \in keys : \A other \in keys : k <= other}

\* A user without a role is a "user".
UserOf(token) == [roles |-> IF token.roles = {} THEN {"user"} ELSE token.roles]

Anonymous == [roles |-> {}]

\* get_current_user and validate_token: with authentication off everybody is somebody
\* without roles, and a mode that is neither of the two refuses every token.
BearerToken(token) ==
  /\ request.step = "idle"
  /\ request' =
       [NoRequest EXCEPT
          !.token = token,
          !.step = IF mode = "production" /\ token # Missing THEN "keys" ELSE "checked",
          !.user = CASE mode = "off" -> Anonymous
                     [] mode = "development" /\ token # Missing ->
                          IF token.valid THEN UserOf(token) ELSE Missing
                     [] OTHER -> Missing]
  /\ UNCHANGED <<mode, published, bucket, cache, recent, keyChanges>>

\* The bucket is taken once, before the cache is asked.
TakeBucket ==
  /\ request.step = "keys"
  /\ request' = [request EXCEPT !.step = "verify", !.in = bucket]
  /\ UNCHANGED <<mode, published, bucket, cache, recent, keyChanges>>

Cached(b) == cache # Missing /\ cache.bucket = b

Verified(keys) ==
  [request EXCEPT !.step = "checked",
     !.user = IF request.token.valid /\ request.token.key \in VerificationKeys(keys, request.token)
              THEN UserOf(request.token) ELSE Missing]

VerifyCached ==
  /\ request.step = "verify" /\ Cached(request.in)
  /\ request' = Verified(cache.keys)
  /\ UNCHANGED <<mode, published, bucket, cache, recent, keyChanges>>

VerifyFetched ==
  /\ request.step = "verify" /\ ~Cached(request.in)
  /\ cache' = [bucket |-> request.in, keys |-> published]
  /\ request' = Verified(published)
  /\ UNCHANGED <<mode, published, bucket, recent, keyChanges>>

\* The provider does not answer, nor when asked again: nothing is cached.
FetchFails ==
  /\ request.step = "verify" /\ ~Cached(request.in)
  /\ request' = [request EXCEPT !.step = "checked"]
  /\ UNCHANGED <<mode, published, bucket, cache, recent, keyChanges>>

\* require_authenticated_user, and on top of it require_role and require_any_role.
Authorize(anyOf) ==
  /\ request.step = "checked"
  /\ request' = [request EXCEPT !.step = "answered",
                   !.status = CASE request.user = Missing -> 401
                                [] request.user # Missing /\ anyOf # {}
                                     /\ request.user.roles \cap anyOf = {} -> 403
                                [] OTHER -> 200]
  /\ UNCHANGED <<mode, published, bucket, cache, recent, keyChanges>>

Done ==
  /\ request.step = "answered" /\ request' = NoRequest
  /\ UNCHANGED <<mode, published, bucket, cache, recent, keyChanges>>

AuthNext ==
  \/ \E keys \in SUBSET KeyIds : PublishKeys(keys)
  \/ NextBucket \/ TakeBucket \/ VerifyCached \/ VerifyFetched \/ FetchFails \/ Done
  \/ \E token \in Tokens \cup {Missing} : BearerToken(token)
  \/ \E anyOf \in SUBSET Roles : Authorize(anyOf)

AuthSpec == AuthInit /\ [][AuthNext]_authVars

-----------------------------------------------------------------------------
(* Properties.                                                             *)

\* Whatever the cache holds: in the bucket a request began in, a token passes only on a
\* key that the provider published at some time of that bucket.  One withdrawn before it
\* is refused, also where the document was fetched late or a fetch failed meanwhile.
WithdrawnKeysExpire ==
  [][request.step = "verify" /\ request.in = bucket /\ request'.user # Missing
       => request.token.key \in recent]_authVars

=============================================================================
