----------------------------- MODULE ApiGateway -----------------------------
(***************************************************************************)
(* The way of a request through the API server, up to its handler and back *)
(* (apps/web/server): the rate-limit middleware, the dispatcher that reads *)
(* the body, the schema validation and the mapping of errors to replies.   *)
(* The limiter is RateLimiter; what the handlers themselves answer is in   *)
(* the other API modules: here a handler returns, sends a reply of its     *)
(* own, or throws.                                                         *)
(***************************************************************************)
EXTENDS Integers, Sequences, SequencesExt

CONSTANTS
    Clients,        \* addresses that no CIDR of the configuration covers
    Proxies,        \* addresses of the trusted proxies
    Junk,           \* an entry of x-forwarded-for that is no address
    BodyLimit,      \* bodyLimitBytes, in chunks
    MaxShared, MaxRoute, Window, Forget, MaxWindows, Second, MaxTime, MaxHits

Unresolved == "unresolved-peer"
Addresses == Clients \cup Proxies \cup {Unresolved}

VARIABLES
    clock, windows, lastPrune, log,   \* those of RateLimiter
    req                               \* the request under way

vars == <<clock, windows, lastPrune, log, req>>

Limiter == INSTANCE RateLimiter WITH Scopes <- {"default", "/v1/verify"}

Unlimited == UNCHANGED <<clock, windows, lastPrune, log>>

-----------------------------------------------------------------------------
(* Routes: one for each combination of options that the route table has.   *)

Routes == {"/v1/networks", "/v1/networks/:network/readiness", "/v1/verify", "/health/ready",
           "unregistered"}

Method(route) == IF route = "/v1/verify" THEN "POST" ELSE "GET"

CacheControl(route) == route \in {"/v1/networks/:network/readiness", "/health/ready"}

\* defaultRateLimit, and the options of the routes that have a limit of their own.
RateLimit(route) ==
    CASE route = "/v1/verify" -> "route"
      [] route \in {"/v1/networks", "/v1/networks/:network/readiness"} -> "shared"
      [] OTHER -> "none"

-----------------------------------------------------------------------------
(* Client addresses.                                                       *)

\* Mutant: the list is read from its first entry.
ResolveFirst(peer, forwarded) ==
    IF peer \in Proxies /\ forwarded # <<>> /\ Junk \notin ToSet(forwarded)
    THEN forwarded[1] ELSE peer

\* resolveClientAddress: back along the list while the address is a trusted
\* proxy; a list with an entry that is no address is ignored as a whole.
ResolveClientAddress(peer, forwarded) ==
    IF peer = Unresolved THEN Unresolved
    ELSE IF peer \notin Proxies \/ forwarded = <<>> \/ Junk \in ToSet(forwarded) THEN peer
    ELSE LET untrusted == {i \in DOMAIN forwarded : forwarded[i] \notin Proxies}
         IN IF untrusted = {} THEN forwarded[1]
            ELSE forwarded[CHOOSE i \in untrusted : \A j \in untrusted : j <= i]

\* rateLimitBucketKey
RateLimitBucketKey(route, address) ==
    <<IF RateLimit(route) = "shared" THEN "default" ELSE route, address>>

-----------------------------------------------------------------------------
(* A request.                                                              *)

Errors == {"PinningError", "SchemaProjectionInvalidError", "IndexerUnavailableError",
           "VerificationNetworkNotFoundError", "HttpError5xx", "BodyTooLargeError", "other"}

\* mapError: the status; only an error that names itself below 500 keeps it.
MapError(error) ==
    CASE error \in {"SchemaProjectionInvalidError", "IndexerUnavailableError"} -> 503
      [] error = "VerificationNetworkNotFoundError" -> 404
      [] error = "PinningError" -> 400
      [] error = "BodyTooLargeError" -> 413
      [] OTHER -> 500

NoRequest ==
    [pc |-> "none", route |-> "unregistered", origin |-> Unresolved, hops |-> {},
     address |-> Unresolved, inProcess |-> FALSE, read |-> 0, status |-> 0, cache |-> FALSE,
     cut |-> FALSE]

Requests ==
    [pc : {"none", "dispatch", "reading", "handling", "replied"}, route : Routes,
     origin : Addresses, hops : SUBSET Proxies, address : Addresses,
     inProcess : BOOLEAN, read : 0 .. BodyLimit,
     status : {0, 200, 400, 404, 413, 429, 500, 503}, cache : BOOLEAN, cut : BOOLEAN]

\* A body never exceeds the limit of its route while it is read.
TypeOK == Limiter!TypeOK /\ req \in Requests

Init == Limiter!Init /\ req = NoRequest

Replied(status, cache) == req' = [req EXCEPT !.pc = "replied", !.status = status, !.cache = cache]

\* The middleware 01-rate-limit on a request over the network. The client's own
\* header is one entry or none; each proxy on the way appends its peer.
Arrive(route, client, claim, path) ==
    LET sent == claim \o (IF path = <<>> THEN <<>> ELSE <<client>> \o Front(path))
        peer == IF path = <<>> THEN client ELSE Last(path)
        address == ResolveClientAddress(peer, sent)
        key == RateLimitBucketKey(route, address)
        now == [NoRequest EXCEPT !.pc = "dispatch", !.route = route, !.origin = client,
                                 !.hops = ToSet(path), !.address = address]
    IN /\ req.pc = "none"
       /\ IF RateLimit(route) = "none" THEN Unlimited /\ req' = now
          ELSE /\ Limiter!Hit(key) /\ UNCHANGED clock
               /\ req' = IF Last(log').allowed THEN now
                         ELSE [now EXCEPT !.pc = "replied", !.status = 429,
                                          !.cache = CacheControl(route)]

\* Server rendering calls the API in process: no address, no budget.
ArriveInProcess(route) ==
    /\ req.pc = "none"
    /\ req' = [NoRequest EXCEPT !.pc = "dispatch", !.route = route, !.inProcess = TRUE]
    /\ Unlimited

\* dispatch finds the route in the handler table and looks at content-length.
Dispatch(declared) ==
    /\ req.pc = "dispatch"
    /\ CASE req.route = "unregistered" -> Replied(404, FALSE)
         [] req.route # "unregistered" /\ Method(req.route) = "GET" ->
              req' = [req EXCEPT !.pc = "handling"]
         [] OTHER -> IF declared > BodyLimit
                     THEN req' = [req EXCEPT !.pc = "replied", !.status = 413,
                                             !.cache = CacheControl(req.route), !.cut = TRUE]
                     ELSE req' = [req EXCEPT !.pc = "reading"]
    /\ Unlimited

\* readBoundedBody, bufferedBody: one more chunk, refused when it crosses the limit.
ReadChunk ==
    /\ req.pc = "reading"
    /\ IF req.read + 1 > BodyLimit
       THEN req' = [req EXCEPT !.pc = "replied", !.status = MapError("BodyTooLargeError"),
                               !.cache = CacheControl(req.route), !.cut = TRUE]
       ELSE req' = [req EXCEPT !.read = @ + 1]
    /\ Unlimited

\* The body ends: nothing, JSON, or neither (BodyParseError).
BodyEnds(parses) ==
    /\ req.pc = "reading"
    /\ IF req.read > 0 /\ ~parses THEN Replied(400, CacheControl(req.route))
       ELSE req' = [req EXCEPT !.pc = "handling"]
    /\ Unlimited

\* createSchemaValidator refuses the request.
Invalid ==
    /\ req.pc = "handling"
    /\ Replied(400, CacheControl(req.route))
    /\ Unlimited

HandlerThrows(error) ==
    /\ req.pc = "handling"
    /\ Replied(MapError(error), CacheControl(req.route))
    /\ Unlimited

\* The handler returns a body (200) or sends a status of its own.
HandlerReturns(status) ==
    /\ req.pc = "handling"
    /\ Replied(status, CacheControl(req.route))
    /\ Unlimited

\* The reply is flushed; an upload that was refused is cut only then.
Flush ==
    /\ req.pc = "replied"
    /\ req' = NoRequest
    /\ Unlimited

Tick == Limiter!Tick /\ UNCHANGED req

Paths == {<<>>} \cup {<<p>> : p \in Proxies} \cup {<<p, q>> : p, q \in Proxies}
Claims == {<<>>} \cup {<<a>> : a \in Clients \cup Proxies \cup {Junk}}

Next ==
    \/ \E route \in Routes, c \in Clients, claim \in Claims, path \in Paths :
         Arrive(route, c, claim, path)
    \/ \E route \in Routes : ArriveInProcess(route)
    \/ \E declared \in {0, BodyLimit + 1} : Dispatch(declared)
    \/ ReadChunk \/ Invalid \/ Flush \/ Tick
    \/ \E parses \in BOOLEAN : BodyEnds(parses)
    \/ \E error \in Errors : HandlerThrows(error)
    \/ \E status \in {200, 400, 404, 503} : HandlerReturns(status)

Spec == Init /\ [][Next]_vars

-----------------------------------------------------------------------------
(* Properties.                                                             *)

\* A client cannot choose its bucket with a header of its own: the address is
\* its own or that of a trusted proxy its request really passed.
AddressNotChosen ==
    req.pc # "none" /\ ~req.inProcess => req.address \in {req.origin} \cup req.hops

\* The cache-control of a route is on every reply of it, refusals and mapped
\* errors included.
CacheControlAlways == req.pc = "replied" => req.cache = CacheControl(req.route)

=============================================================================
