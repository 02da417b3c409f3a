------------------------------- MODULE Egress -------------------------------
(***************************************************************************)
(* Outgoing requests (app/egress/http.py, policy.py, secrets.py) and the   *)
(* connection test that makes one (app/api/connection_tests.py): the       *)
(* destination is judged, the credential of the URL looked up, and         *)
(* redirects followed by hand.                                             *)
(*                                                                         *)
(* A URL is [scheme, host, port, path]: port is Unset where it is not given *)
(* and BadPort where it cannot be read, path a sequence of segments.       *)
(***************************************************************************)
EXTENDS Integers, Sequences, FiniteSets
LOCAL INSTANCE SequencesExt

CONSTANTS
  Urls,          \* that are asked for, and that sources redirect to
  Connections,   \* source_connections
  Endpoint,      \* connection -> URL
  SourceOf,      \* connection -> source, or Unset
  CredentialRows,\* what a source_credentials row may be: [source, scheme, principal, secret]
  MaxRows,       \* bound: rows of source_credentials
  HostClass,     \* host -> its class
  AllowedHosts,  \* EGRESS_ALLOWED_HOSTS
  Strict,        \* EGRESS_POLICY = strict
  MaxHops,       \* max_hops: 3
  BadPort, Unset \* a port that cannot be read; no such thing

VARIABLES
  credentials,   \* source_credentials in the order of their creation
  fetch,         \* fetch_bytes
  tested,        \* status of the connection test that makes it, or Unset
  sent           \* history: the requests of this fetch: [url, header]

egressVars == <<credentials, fetch, tested, sent>>

Outcomes == {"none", "ok", "auth_failed", "denied", "secret", "transport", "failed"}
NoFetch == [step |-> "idle", url |-> Unset, at |-> Unset, source |-> Unset, header |-> Unset,
            hops |-> 0, outcome |-> "none"]

ASSUME EgressConstantsOK ==
  /\ MaxHops \in Nat /\ Strict \in BOOLEAN
  /\ \A u \in Urls \cup {Endpoint[c] : c \in Connections} : u.host \in DOMAIN HostClass

EgressInit == credentials = <<>> /\ fetch = NoFetch /\ tested = Unset /\ sent = <<>>

-----------------------------------------------------------------------------
(* The destination policy: the host as it is written.                      *)

DeniedReason(host) ==
  \/ HostClass[host] \in {"empty", "unspecified", "noncanonical", "linklocal"}
  \/ Strict /\ HostClass[host] = "loopback"

ValidDestination(url) == url.host \in AllowedHosts \/ ~DeniedReason(url.host)

-----------------------------------------------------------------------------
(* Origins, and the credential of a URL.                                   *)

DefaultPort(url) == IF url.scheme = "http" THEN 80 ELSE 443
EffectivePort(url) == IF url.port \in {Unset, BadPort} THEN DefaultPort(url) ELSE url.port

\* Unset: a port that cannot be read equals no other.
EffectiveOrigin(url) ==
  IF HostClass[url.host] = "empty" \/ url.port = BadPort THEN Unset
  ELSE <<url.scheme, url.host, EffectivePort(url)>>

NormalizePath(path) ==
  FoldLeft(LAMBDA out, s : CASE s = "." -> out
                             [] s = ".." -> IF out = <<>> THEN out ELSE Front(out)
                             [] OTHER -> Append(out, s), <<>>, path)

EndpointMatches(endpoint, target) ==
  /\ endpoint.scheme = target.scheme
  /\ HostClass[endpoint.host] # "empty" /\ endpoint.host = target.host
  /\ EffectivePort(endpoint) = EffectivePort(target)
  /\ IsPrefix(NormalizePath(endpoint.path), NormalizePath(target.path))

\* The length of the text, in parts.
Length(url) == Len(url.path) + (IF url.port = Unset THEN 0 ELSE 1)

\* The longest endpoint that covers the URL; the first row read wins a tie.
BestConnections(url) ==
  LET covering == {c \in Connections : EndpointMatches(Endpoint[c], url)}
  IN {c \in covering : \A d \in covering : Length(Endpoint[d]) <= Length(Endpoint[c])}

\* The row created last, if there is one.
ActiveCredential(source) ==
  LET own == {i \in DOMAIN credentials : credentials[i].source = source}
  IN {credentials[i] : i \in {j \in own : \A k \in own : k <= j}}

-----------------------------------------------------------------------------
(* Seeded faults: each stands in for the definition named.                 *)

HeaderAlways(f) == f.header                                          \* HeaderFor

-----------------------------------------------------------------------------
(* The fetch.                                                              *)

\* The header is attached again wherever the origin is that of the first request.
HeaderFor(f) ==
  IF EffectiveOrigin(f.url) # Unset /\ EffectiveOrigin(f.at) = EffectiveOrigin(f.url)
  THEN f.header ELSE Unset

Finished(outcome) == fetch' = [fetch EXCEPT !.step = "done", !.outcome = outcome]

FetchBytes(url) ==
  /\ fetch.step \in {"idle", "recorded"}
  /\ fetch' = IF ValidDestination(url)
              THEN [NoFetch EXCEPT !.step = "connection", !.url = url, !.at = url]
              ELSE [NoFetch EXCEPT !.step = "done", !.outcome = "denied"]
  /\ sent' = <<>> /\ UNCHANGED <<credentials, tested>>

\* Two transactions: the connections, and then the credential of the source found.
FindConnection ==
  /\ fetch.step = "connection"
  /\ LET best == BestConnections(fetch.url) IN
     \/ /\ best = {} /\ fetch' = [fetch EXCEPT !.step = "request"]
     \/ \E c \in best :
          fetch' = [fetch EXCEPT !.source = SourceOf[c],
                                 !.step = IF SourceOf[c] = Unset THEN "request" ELSE "credential"]
  /\ UNCHANGED <<credentials, tested, sent>>

\* No credential, or one of a scheme that is not supported, makes an anonymous request.
FindCredential ==
  /\ fetch.step = "credential"
  /\ \/ /\ \A row \in ActiveCredential(fetch.source) : row.scheme # "basic"
        /\ fetch' = [fetch EXCEPT !.step = "request"]
     \/ \E row \in ActiveCredential(fetch.source) :
          /\ row.scheme = "basic"
          /\ CASE row.principal = "" -> Finished("auth_failed")
               [] row.principal # "" /\ row.secret = "" -> Finished("secret")
               [] OTHER -> fetch' = [fetch EXCEPT !.step = "request", !.header = row]
  /\ UNCHANGED <<credentials, tested, sent>>

Send ==
  /\ fetch.step = "request"
  /\ sent' = Append(sent, [url |-> fetch.at, header |-> HeaderFor(fetch)])
  /\ fetch' = [fetch EXCEPT !.step = "answer"]
  /\ UNCHANGED <<credentials, tested>>

\* A redirect without a target, or one too many, is an error like any other status.
Redirected(to) ==
  /\ fetch.step = "answer"
  /\ CASE fetch.hops = MaxHops -> Finished("failed")
       [] fetch.hops < MaxHops /\ ~ValidDestination(to) -> Finished("denied")
       [] OTHER -> fetch' = [fetch EXCEPT !.step = "request", !.at = to, !.hops = @ + 1]
  /\ UNCHANGED <<credentials, tested, sent>>

Responded(outcome) ==
  /\ fetch.step = "answer" /\ Finished(outcome)
  /\ UNCHANGED <<credentials, tested, sent>>

-----------------------------------------------------------------------------
(* The connection test, and the administrator.                             *)

\* What is recorded: a secret that cannot be resolved is an error of authentication
\* too, and an error of no kind listed escapes and leaves the row as it was.
TestStatus(outcome) ==
  CASE outcome = "ok" -> "ok"
    [] outcome \in {"auth_failed", "secret"} -> "auth_failed"
    [] outcome \in {"denied", "transport"} -> "unreachable"
    [] OTHER -> tested

RecordTest ==
  /\ fetch.step = "done"
  /\ tested' = TestStatus(fetch.outcome)
  /\ fetch' = [fetch EXCEPT !.step = "recorded"]
  /\ UNCHANGED <<credentials, sent>>

AddCredential(row) ==
  /\ Len(credentials) < MaxRows
  /\ credentials' = Append(credentials, row)
  /\ UNCHANGED <<fetch, tested, sent>>

DeleteSourceCredential(i) ==
  /\ i \in DOMAIN credentials
  /\ credentials' = SubSeq(credentials, 1, i - 1) \o SubSeq(credentials, i + 1, Len(credentials))
  /\ UNCHANGED <<fetch, tested, sent>>

EgressNext ==
  \/ \E url \in Urls : FetchBytes(url) \/ Redirected(url)
  \/ FindConnection \/ FindCredential \/ Send \/ RecordTest
  \/ \E o \in {"ok", "auth_failed", "transport", "failed"} : Responded(o)
  \/ \E row \in CredentialRows : AddCredential(row)
  \/ \E i \in 1 .. MaxRows : DeleteSourceCredential(i)

EgressSpec == EgressInit /\ [][EgressNext]_egressVars

-----------------------------------------------------------------------------
(* Properties.                                                             *)

\* Through any redirects: every request goes to a permitted host, there is one more of
\* them than hops at most, and a credential only ever goes to the origin that was asked
\* for first, which an endpoint of the credential's own source covers.
HeaderStaysHome ==
  /\ Len(sent) <= MaxHops + 1
  /\ \A i \in DOMAIN sent :
       /\ ValidDestination(sent[i].url)
       /\ sent[i].header # Unset =>
            /\ EffectiveOrigin(sent[i].url) = EffectiveOrigin(fetch.url)
            /\ \E c \in Connections : /\ SourceOf[c] = sent[i].header.source
                                      /\ EndpointMatches(Endpoint[c], fetch.url)

=============================================================================
