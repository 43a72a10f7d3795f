----------------------------- MODULE WebAccess -----------------------------
(***************************************************************************)
(* Who is let through to the web API, and how often: the middleware        *)
(* (apps/web/middleware.ts) that every request passes, the check each      *)
(* route makes again in its own runtime (app/api/http.ts), the signed      *)
(* session cookie (app/api/auth) and the proxy to a separate API           *)
(* (app/api/proxy.ts).                                                     *)
(*                                                                         *)
(* Middleware and routes hold two limiters and two copies of the session   *)
(* check.  Time counts in steps; a signature is the key it was made with.  *)
(* A server that restarts has empty limiters and may have other settings.  *)
(***************************************************************************)
EXTENDS Naturals, Sequences, FiniteSets

CONSTANTS
    WaKey,           \* addresses of clients
    WaServer,        \* settings of a server: token, secret, production, proxied
    WaFirst,         \* the settings it starts with
    WaWindow,        \* OPEN_LAGRANGE_RATE_LIMIT_WINDOW_MS
    WaMax,           \* OPEN_LAGRANGE_RATE_LIMIT_MAX
    WaBuckets,       \* MAX_RATE_LIMIT_BUCKETS
    WaMaxAge,        \* sessionMaxAgeSeconds
    WaTimeBound,     \* the last moment
    WaOpBound        \* requests, sign-ins and restarts in a behaviour

ASSUME WaBoundsOK ==
    /\ WaMax \in Nat \ {0} /\ WaWindow \in Nat \ {0} /\ WaBuckets \in Nat \ {0}
    /\ WaMaxAge \in Nat \ {0} /\ WaTimeBound \in Nat /\ WaFirst \in WaServer

VARIABLES
    waNow,      \* the time
    waServer,   \* the settings in force
    waCookie,   \* the browser's session cookie
    waLimits,   \* where -> buckets, the oldest first: key, resetAt, count
    waOps,      \* operations so far
    waHits,     \* history: requests since the server started, with their answers
    waEvicted,  \* history: a bucket was dropped for lack of room
    waWrong     \* history: judgements of one request that should not have been made

waVars == <<waNow, waServer, waCookie, waLimits, waOps, waHits, waEvicted, waWrong>>

WaToken == {s.token : s \in WaServer}
NoCookie == [exp |-> 0, sha |-> "none", key |-> "none", made |-> 0]
WaInit ==
    /\ waNow = 0 /\ waServer = WaFirst /\ waCookie = NoCookie
    /\ waLimits = [w \in {"middleware", "route"} |-> <<>>]
    /\ waOps = 0 /\ waHits = <<>> /\ waEvicted = FALSE /\ waWrong = {}

WaOp == waOps < WaOpBound /\ waOps' = waOps + 1

-----------------------------------------------------------------------------
(* The limiter, the same in both places                                    *)

pruneExpired(buckets) ==
    LET kept[n \in 0 .. Len(buckets)] ==
            IF n = 0 THEN <<>>
            ELSE IF buckets[n].resetAt > waNow THEN Append(kept[n - 1], buckets[n]) ELSE kept[n - 1]
    IN  kept[Len(buckets)]
BucketOf(buckets, key) == {i \in DOMAIN buckets : buckets[i].key = key}
\* A bucket that is new goes to the end; the oldest makes room for it.
rateLimit(buckets, key) ==
    LET kept == pruneExpired(buckets)
        all == Append(kept, [key |-> key, resetAt |-> waNow + WaWindow, count |-> 1])
    IN  IF BucketOf(kept, key) # {}
        THEN [i \in DOMAIN kept |-> IF kept[i].key = key THEN [kept[i] EXCEPT !.count = @ + 1] ELSE kept[i]]
        ELSE IF Len(all) > WaBuckets THEN Tail(all) ELSE all
overLimit(buckets, key) == \E i \in BucketOf(buckets, key) : buckets[i].count > WaMax

\* enforceRateLimit: a route that asks twice for one request counts it once.
enforceRateLimit(buckets, key, calls) == rateLimit(buckets, key)

-----------------------------------------------------------------------------
(* Sessions                                                                *)

signingKey(server) == IF server.secret # "none" THEN server.secret ELSE server.token
\* made is history: the moment of the sign-in.
createWebSessionCookie(server) ==
    [exp |-> waNow + WaMaxAge, sha |-> server.token, key |-> signingKey(server), made |-> waNow]

\* Mutant: a cookie signed for an earlier token is accepted.
signedOnly(cookie) == cookie # NoCookie /\ cookie.key = signingKey(waServer) /\ cookie.exp > waNow

middlewareSession(cookie) ==
    cookie # NoCookie /\ cookie.key = signingKey(waServer) /\ cookie.exp > waNow /\ cookie.sha = waServer.token
routeSession(cookie) ==
    cookie # NoCookie /\ cookie.key = signingKey(waServer) /\ cookie.exp > waNow /\ cookie.sha = waServer.token

\* A cookie that should count: made for the token and the key in force, and not yet
\* twelve hours ago.
goodCookie ==
    waCookie.sha = waServer.token /\ waNow < waCookie.made + WaMaxAge /\ waCookie.key = signingKey(waServer)

-----------------------------------------------------------------------------
(* What every request does to the limiters: the middleware counts it        *)
(* first, and a route that is reached may count it again.                   *)

counted(key) == rateLimit(waLimits["middleware"], key)
Count(key, code, route) ==
    /\ WaOp
    /\ waLimits' = [middleware |-> counted(key), route |-> route]
    /\ waHits' = Append(waHits, [key |-> key, at |-> waNow, code |-> code])
    /\ waEvicted' = (waEvicted \/ \E w \in {"middleware", "route"} :
                        \E i \in DOMAIN waLimits[w] :
                            waLimits[w][i].resetAt > waNow /\ BucketOf(waLimits'[w], waLimits[w][i].key) = {})
    /\ UNCHANGED <<waNow, waServer>>

\* History: the request was refused although its client had made too few.
refusedEarly(key, code) ==
    IF code = "429" /\ Cardinality({i \in DOMAIN waHits :
            waHits[i].key = key /\ waHits[i].at + WaWindow > waNow}) < WaMax
    THEN {"refused too early"} ELSE {}

-----------------------------------------------------------------------------
(* Signing in and out: the one path the middleware asks no token for.  The  *)
(* route does not count it; with a separate API it is the API that answers, *)
(* with settings of its own.                                                *)

signedInAt(api) == IF waServer.proxied THEN api ELSE waServer
signInCode(key, token) ==
    IF overLimit(counted(key), key) THEN "429"
    ELSE IF waServer.proxied THEN "forwarded"
    ELSE IF waServer.token = "none" THEN "503"
    ELSE IF token = waServer.token THEN "served" ELSE "401"
SignIn(key, token, api) ==
    LET code == signInCode(key, token)
        at == signedInAt(api)
    IN  /\ Count(key, code, waLimits["route"])
        /\ waCookie' = IF code # "429" /\ at.token # "none" /\ token = at.token
                       THEN createWebSessionCookie(at) ELSE waCookie
        /\ waWrong' = waWrong \cup refusedEarly(key, code)

signOutCode(key) ==
    IF overLimit(counted(key), key) THEN "429" ELSE IF waServer.proxied THEN "forwarded" ELSE "served"
\* A separate API may fail to answer, and then the cookie stays.
SignOut(key) ==
    LET code == signOutCode(key)
    IN  /\ Count(key, code, waLimits["route"])
        /\ \/ code # "429" /\ waCookie' = NoCookie
           \/ code # "served" /\ waCookie' = waCookie
        /\ waWrong' = waWrong \cup refusedEarly(key, code)

-----------------------------------------------------------------------------
(* Every other request                                                     *)

\* authorize and requireApiAuth: "" lets the request through.
judged(bearer, session) ==
    IF waServer.token = "none" THEN (IF waServer.production THEN "503" ELSE "")
    ELSE IF bearer = waServer.token \/ session THEN "" ELSE "401"

\* proxyToApi: the token goes along when the request brings no authorization.
forwarded(bearer, session) ==
    IF bearer = "none" /\ session THEN waServer.token ELSE bearer

answer(key, bearer, calls) ==
    LET first == judged(bearer, middlewareSession(waCookie))
        rt == enforceRateLimit(waLimits["route"], key, calls)
        second == judged(bearer, routeSession(waCookie))
        stopped(code) == [code |-> code, rt |-> waLimits["route"], up |-> "none"]
    IN  IF overLimit(counted(key), key) THEN stopped("429")
        ELSE IF first # "" THEN stopped(first)
        ELSE IF waServer.proxied
        THEN [code |-> "forwarded", rt |-> waLimits["route"], up |-> forwarded(bearer, middlewareSession(waCookie))]
        ELSE [code |-> IF overLimit(rt, key) THEN "429" ELSE IF second # "" THEN second ELSE "served",
              rt |-> rt, up |-> "none"]

Request(key, bearer, calls) ==
    LET a == answer(key, bearer, calls)
        by == waServer.token # "none" /\ bearer = "none" /\ waCookie # NoCookie
    IN  /\ Count(key, a.code, a.rt)
        /\ waWrong' = waWrong
                      \cup (IF by /\ ~goodCookie /\ (a.code \in {"served", "forwarded"} \/ a.up = waServer.token)
                            THEN {"old session accepted"} ELSE {})
                      \cup (IF by /\ goodCookie /\ a.code \in {"401", "503"} THEN {"session refused"} ELSE {})
                      \cup refusedEarly(key, a.code)
        /\ UNCHANGED waCookie

Pass == waNow < WaTimeBound /\ waNow' = waNow + 1
        /\ UNCHANGED <<waServer, waCookie, waLimits, waOps, waHits, waEvicted, waWrong>>
Restart(server) ==
    /\ WaOp /\ server # waServer
    /\ waServer' = server /\ waLimits' = [w \in {"middleware", "route"} |-> <<>>]
    /\ waHits' = <<>> /\ waEvicted' = FALSE
    /\ UNCHANGED <<waNow, waCookie, waWrong>>

WaNext ==
    \/ \E k \in WaKey, t \in WaToken \ {"none"}, api \in WaServer : ~api.proxied /\ SignIn(k, t, api)
    \/ (\E k \in WaKey : SignOut(k)) \/ Pass
    \/ \E k \in WaKey, b \in WaToken \cup {"none"}, calls \in 1..2 : Request(k, b, calls)
    \/ \E s \in WaServer : Restart(s)

WaSpec == WaInit /\ [][WaNext]_waVars

-----------------------------------------------------------------------------
(* Properties                                                              *)

\* Both copies of the session check, in two runtimes, accept exactly the cookies that
\* should count, whatever sign-ins, restarts under other settings and hours passed:
\* neither a page that the middleware lets through is refused by its route, nor does
\* either accept a cookie of an earlier token, of another key or of more than twelve hours.
ChecksAcceptTheGood ==
    waServer.token # "none" =>
        /\ middlewareSession(waCookie) <=> goodCookie
        /\ routeSession(waCookie) <=> goodCookie

\* A session ends with its twelve hours, and with the token it was made from: after a
\* restart under another token an old cookie neither opens a route nor gets the new
\* token attached on the way to the API, even if the signing secret stayed.
SessionsEnd == "old session accepted" \notin waWrong

\* Until then a signed-in browser that sends nothing else is let through.
SessionsLast == "session refused" \notin waWrong

\* Nobody is refused for the rate before having made the allowed number of requests
\* within the window: no request is counted twice, no window outlives its length.
RefusedWasBusy == "refused too early" \notin waWrong

\* In any stretch of one window a client gets at most two windows' worth of requests
\* through, as long as no bucket had to make room for another.
RateBounded ==
    ~waEvicted => \A k \in WaKey : \A t \in 0..WaTimeBound :
        Cardinality({i \in DOMAIN waHits : waHits[i].key = k /\ waHits[i].code # "429"
                        /\ waHits[i].at \in t..(t + WaWindow - 1)}) <= 2 * WaMax

\* Both gates of the web application accept exactly the sessions they should, for as
\* long as they should, and the limiter bounds what it should and nothing else.
AccessHolds ==
  /\ ChecksAcceptTheGood
  /\ SessionsEnd
  /\ SessionsLast
  /\ RefusedWasBusy
  /\ RateBounded
=============================================================================
