------------------------------ MODULE HttpFetch ------------------------------
(***************************************************************************)
(* fetchSource of the research pack (capability-packs/research/fetcher.ts) *)
(* over the SDK primitives it is built from: http.fetch with its redirects *)
(* and network policy, retry.withBackoff, the rate-limit reader, secrets   *)
(* and artifacts (capability-sdk/src/primitives).                          *)
(*                                                                         *)
(* The servers and the resolver are external: each answer is arbitrary.    *)
(* A host stands for its origin.  Response texts are left out.             *)
(***************************************************************************)
EXTENDS Naturals, Integers, FiniteSets, Sequences

CONSTANTS
    Host,          \* hosts a request or a redirect may name
    HostList,      \* allow and deny lists, none is the empty set
    PrivateHost,   \* isLocalOrPrivateHost of the name itself
    PrivateAddr,   \* hosts whose address is private although the name is not
    RedirectLimit, \* redirect_limit
    MaxFetches,    \* max_attempts of withBackoff
    BaseDelay, MaxDelay,
    RetryAfter     \* seconds a server may ask for

ASSUME HttpAssumption ==
    /\ PrivateHost \subseteq Host /\ PrivateAddr \subseteq Host /\ HostList \subseteq SUBSET Host
    /\ {RedirectLimit, MaxFetches, BaseDelay, MaxDelay} \subseteq Nat
    /\ MaxFetches > 0 /\ RetryAfter \subseteq Nat

VARIABLES
    httpPc,
    httpReq,     \* the live request: host, policy and credential
    httpHop,     \* host, redirects followed, credential header still present
    httpLeft,    \* history: the chain of this attempt has left its first host
    httpAttempt, \* attempt of withBackoff
    httpDelays,  \* delays slept
    httpWire,    \* the last request put on the wire, and how many there were
    httpStore,   \* artifacts of this source: "raw", "text"
    httpOut      \* what fetchSource returned or threw

httpVars == <<httpPc, httpReq, httpHop, httpLeft, httpAttempt, httpDelays,
              httpWire, httpStore, httpOut>>

Request ==
    [host : Host, web : BOOLEAN, method : {"GET", "POST"},
     methods : {{}, {"POST"}},  \* policy_context.allowed_http_methods
     allowed : HostList, denied : HostList,
     private : BOOLEAN,         \* allow_private_network
     cred : BOOLEAN,            \* auth in one of the header names the primitive knows
     manager : BOOLEAN]         \* a secret manager is in the context

NoHop == [host |-> "none", redirects |-> 0, cred |-> FALSE]
NoWire == [host |-> "none", cred |-> FALSE, count |-> 0]

HttpInit ==
    /\ httpPc = "idle" /\ httpReq = "none" /\ httpHop = NoHop /\ httpLeft = FALSE
    /\ httpAttempt = 0 /\ httpDelays = <<>> /\ httpWire = NoWire
    /\ httpStore = {} /\ httpOut = "none"

-----------------------------------------------------------------------------
(* Policy, delays and rate limits                                          *)

\* evaluateNetwork: a denied host, a host outside a non-empty allow-list, a
\* private host without permission.
evaluateNetwork(r, host) ==
    IF \/ host \in r.denied
       \/ r.allowed # {} /\ host \notin r.allowed
       \/ host \in PrivateHost /\ ~r.private
    THEN "deny" ELSE "allow"

\* enforceMethod: the context's methods and the default, which is GET.
enforceMethod(r) == r.method \in r.methods \cup {"GET"}

\* assertDnsPolicy: the name, then every address it resolves to.
assertDnsPolicy(r, host) == r.private \/ host \notin PrivateHost \cup PrivateAddr

\* computeDelay without jitter; with jitter it is between half and all of it.
computeDelay(attempt) ==
    LET base == BaseDelay * 2^(attempt - 1) IN IF base <= MaxDelay THEN base ELSE MaxDelay

\* The loop of fetchWithRedirects: the first request and redirect_limit more.
redirectsLeft(n) == n <= RedirectLimit

\* Mutant: the credential comes back when a redirect returns to the first host.
reattachCredential(h) == httpReq.cred /\ h = httpReq.host

\* stripSensitiveHeaders works on the headers of the loop, so what one change of
\* origin removed is gone for the hops after it too.
keepsCredential(h) == httpHop.cred /\ h = httpHop.host

\* artifacts.write rethrows what the store threw.
artifactThrows(stored) == ~stored

\* retryDelay: the server's Retry-After, capped, before the backoff.  An empty
\* answer stands for a response without the header, 0 for one that is no number.
retryDelay(after, attempt) ==
    IF after = {} THEN computeDelay(attempt)
    ELSE LET s == CHOOSE s \in after : TRUE IN IF s <= MaxDelay THEN s ELSE MaxDelay

-----------------------------------------------------------------------------
(* fetchSource                                                             *)

End(out) == httpPc' = "done" /\ httpOut' = out

\* dry_run returns without touching anything; a fixture writes its snapshot and
\* then its text, or finds no fixture; live goes to the network.
FetchSource ==
    /\ httpPc = "idle"
    /\ \/ /\ End("preview") \/ End("not_found")
          /\ UNCHANGED <<httpReq, httpStore>>
       \/ /\ End("source") /\ httpStore' = {"raw", "text"}
          /\ UNCHANGED httpReq
       \/ /\ httpReq' \in Request /\ httpPc' = "attempt"
          /\ UNCHANGED <<httpStore, httpOut>>
    /\ httpAttempt' = 1
    /\ UNCHANGED <<httpHop, httpLeft, httpDelays, httpWire>>

\* withBackoff: any error of the operation is retried while attempts are left,
\* those that can only repeat (policy, method, missing secret) included.
Failed(after) ==
    IF httpAttempt < MaxFetches
    THEN /\ httpPc' = "attempt" /\ httpAttempt' = httpAttempt + 1
         /\ httpDelays' = Append(httpDelays, retryDelay(after, httpAttempt))
         /\ UNCHANGED httpOut
    ELSE End("threw") /\ UNCHANGED <<httpAttempt, httpDelays>>

\* httpFetch up to the first request: protocol, method, policy, credentials.
HttpBegin ==
    /\ httpPc = "attempt"
    /\ IF httpReq.web /\ enforceMethod(httpReq) /\ evaluateNetwork(httpReq, httpReq.host) = "allow"
          /\ (httpReq.cred => httpReq.manager)
       THEN /\ httpPc' = "send"
            /\ httpHop' = [host |-> httpReq.host, redirects |-> 0, cred |-> httpReq.cred]
            /\ httpLeft' = FALSE
            /\ UNCHANGED <<httpAttempt, httpDelays, httpOut>>
       ELSE Failed({}) /\ UNCHANGED <<httpHop, httpLeft>>
    /\ UNCHANGED <<httpReq, httpWire, httpStore>>

\* One turn of fetchWithRedirects, up to the request: limit and DNS policy.
HttpSend ==
    /\ httpPc = "send"
    /\ IF redirectsLeft(httpHop.redirects) /\ assertDnsPolicy(httpReq, httpHop.host)
       THEN /\ httpPc' = "wait"
            /\ httpWire' = [host |-> httpHop.host, cred |-> httpHop.cred,
                            count |-> httpWire.count + 1]
            /\ UNCHANGED <<httpAttempt, httpDelays, httpOut>>
       ELSE Failed({}) /\ UNCHANGED httpWire
    /\ UNCHANGED <<httpReq, httpHop, httpLeft, httpStore>>

\* A redirect: the new URL passes the same policy, and the known credential
\* headers are dropped for good when the origin changes.
HttpRedirect ==
    /\ httpPc = "wait"
    /\ \E h \in Host :
          IF evaluateNetwork(httpReq, h) = "allow"
          THEN /\ httpPc' = "send"
               /\ httpHop' = [host |-> h, redirects |-> httpHop.redirects + 1,
                              cred |-> keepsCredential(h)]
               /\ httpLeft' = (httpLeft \/ h # httpReq.host)
               /\ UNCHANGED <<httpAttempt, httpDelays, httpOut>>
          ELSE Failed({}) /\ UNCHANGED <<httpHop, httpLeft>>
    /\ UNCHANGED <<httpReq, httpWire, httpStore>>

\* A network error, a timeout, a redirect to another protocol, a content type
\* or a size that is refused: the attempt throws.
HttpError ==
    /\ httpPc = "wait"
    /\ Failed({})
    /\ UNCHANGED <<httpReq, httpHop, httpLeft, httpWire, httpStore>>

\* A final response: its body is captured under the same id on every attempt
\* (or the store refuses it, which throws), then a retryable status is retried
\* while attempts are left, and anything else is the value.
HttpResponse ==
    /\ httpPc = "wait"
    /\ \E retryable, stored \in BOOLEAN, after \in {{}} \cup {{s} : s \in RetryAfter} :
          /\ httpStore' = IF stored THEN httpStore \cup {"raw"} ELSE httpStore
          /\ IF artifactThrows(stored) \/ (retryable /\ httpAttempt < MaxFetches)
             THEN Failed(IF stored THEN after ELSE {})
             ELSE httpPc' = "extract" /\ UNCHANGED <<httpAttempt, httpDelays, httpOut>>
    /\ UNCHANGED <<httpReq, httpHop, httpLeft, httpWire>>

\* Extraction and the text artifact; its error is outside withBackoff.
FetchExtract ==
    /\ httpPc = "extract"
    /\ \/ httpStore' = httpStore \cup {"text"} /\ End("source")
       \/ UNCHANGED httpStore /\ End("threw")
    /\ UNCHANGED <<httpReq, httpHop, httpLeft, httpAttempt, httpDelays, httpWire>>

HttpNext ==
    \/ FetchSource \/ HttpBegin \/ HttpSend \/ HttpRedirect
    \/ HttpError \/ HttpResponse \/ FetchExtract

HttpSpec == HttpInit /\ [][HttpNext]_httpVars

-----------------------------------------------------------------------------
(* Properties                                                              *)

\* Every request that leaves, the tenth hop like the first and the retry like
\* the attempt, goes to a host the request's policy permits and whose name and
\* addresses are public unless private networks are allowed.
WireInPolicy ==
    httpWire.count > 0 =>
        /\ httpWire.host \notin httpReq.denied
        /\ httpReq.allowed # {} => httpWire.host \in httpReq.allowed
        /\ httpWire.host \in PrivateHost \cup PrivateAddr => httpReq.private

\* A credential in a known header goes to the host it was meant for, and not to
\* that host again once the chain has left it.
CredentialStaysHome ==
    httpWire.cred => httpWire.host = httpReq.host /\ (httpPc = "wait" => ~httpLeft)

\* The whole call is bounded: requests by attempts times hops, and every sleep
\* by the configured maximum, also when the server asks for more.
FetchBounded ==
    /\ httpWire.count <= httpAttempt * (RedirectLimit + 1)
    /\ Len(httpDelays) < MaxFetches
    /\ \A k \in DOMAIN httpDelays : httpDelays[k] <= MaxDelay

\* A source that was returned can be traced: its text and the snapshot the text
\* was extracted from are both in the store.  A dry run leaves nothing.
SourceHasBoth ==
    /\ httpOut = "source" => httpStore = {"raw", "text"}
    /\ httpOut = "preview" => httpStore = {} /\ httpWire.count = 0

\* A fetch keeps to its policy on every hop and every retry, and leaves a
\* whole source or none.
FetchInPolicy == WireInPolicy /\ CredentialStaysHome /\ FetchBounded /\ SourceHasBoth
=============================================================================
