------------------------------ MODULE ApiSystem ------------------------------
(***************************************************************************)
(* The API server: its authoritative reads (which this module extends),    *)
(* its rate limiter, the way of a request, and the judgement of a payload, *)
(* one that `xcs verify` sends or one that the API fetches.  Reads,        *)
(* requests and payloads share no state, so they are not interleaved: part *)
(* says which of them a behaviour is about, and the others rest in their   *)
(* initial state.                                                          *)
(***************************************************************************)
EXTENDS AuthoritativeReads, Sequences

CONSTANTS
    Modes, Kinds, Tuples, Contents, Names, Public, Private,
    MaxRedirects, Limit,                            \* PayloadVerification
    MaxShared, MaxRoute, Window, Forget, MaxWindows, Second,
    MaxTicks, MaxHits,                              \* RateLimiter
    Clients, Proxies, Junk, BodyLimit               \* ApiGateway

\* Limits are numbers, and a content is what a parser tells apart.
PayloadAssumption ==
    /\ MaxRedirects \in Nat /\ Limit \in Nat
    /\ Modes \subseteq {"none", "local", "resolve"}
    /\ \A c \in Contents : c \in [tuple : {c.tuple}, fits : BOOLEAN, canonical : BOOLEAN, large : BOOLEAN]

\* A window of a minute does not outlast the hour after which it is forgotten.
LimiterAssumption ==
    /\ MaxShared \in Nat /\ MaxRoute \in Nat /\ Window \in Nat \ {0}
    /\ Forget \in Nat /\ Window <= Forget
    /\ MaxWindows \in Nat \ {0} /\ Second \in Nat \ {0} /\ MaxTicks \in Nat

\* No client has the address of a trusted proxy.
GatewayAssumption == BodyLimit \in Nat /\ Clients \cap Proxies = {}

ASSUME ApiConstants == PayloadAssumption /\ LimiterAssumption /\ GatewayAssumption

VARIABLES
    part,
    tick, windows, lastPrune, log, request,                  \* RateLimiter and ApiGateway
    disk, printed, passed, cred, known, command, fetch       \* PayloadVerification

limiterVars == <<tick, windows, lastPrune, log>>
payloadVars == <<disk, printed, passed, cred, known, command, fetch>>
allVars == <<part, vars, limiterVars, request, payloadVars>>

\* V: PayloadVerification, with names longer than v and f.
V == INSTANCE PayloadVerification WITH v <- command, f <- fetch

\* Gate: ApiGateway, with names for its clock and request that differ from those of the
\* reads.
Gate == INSTANCE ApiGateway WITH clock <- tick, req <- request, MaxTime <- MaxTicks

\* L: the limiter of Gate.
Scopes == {"default", "/v1/verify"}
Addresses == Gate!Addresses

L == INSTANCE RateLimiter WITH clock <- tick, MaxTime <- MaxTicks

ApiInit ==
    /\ part \in {"reads", "limiter", "gateway", "payloads"}
    /\ Init /\ Gate!Init /\ V!Init

ApiNext ==
    \/ part = "reads" /\ Next /\ UNCHANGED <<limiterVars, request, payloadVars>>
    \/ part = "limiter" /\ L!Next /\ UNCHANGED <<vars, request, payloadVars>>
    \/ part = "gateway" /\ Gate!Next /\ UNCHANGED <<vars, payloadVars>>
    \/ part = "payloads" /\ V!Next /\ UNCHANGED <<vars, limiterVars, request>>

ApiSpec == ApiInit /\ [][ApiNext /\ UNCHANGED part]_allVars

-----------------------------------------------------------------------------
(* The properties of the parts, as conjunctions of the properties that     *)
(* their modules state and explain; that of the reads is inherited.        *)

\* RateLimiter: nobody within its budget is refused, retry-after is kept, a budget holds
\* while nobody has to make room, and the Map keeps its bound.
LimiterFair ==
    part \in {"limiter", "gateway"} =>
        /\ L!TypeOK
        /\ L!DeniedOnlyOverBudget
        /\ L!RetryAfterKept
        /\ L!BudgetHolds

\* ApiGateway: a client does not choose the bucket it is counted in, whatever headers it
\* sends; a body stays within its limit, and every reply, of whichever layer, carries the
\* caching rule of its route.
GatewaySafe ==
    part = "gateway" =>
        /\ Gate!TypeOK
        /\ Gate!AddressNotChosen
        /\ Gate!CacheControlAlways

\* PayloadVerification: exit 0 of xcs verify means an active credential that binds the
\* payload, sent or fetched, and what payload check accepts is not rejected by the API.
VerifiedMeansBound ==
    part = "payloads" => V!VerifiedMeansBound /\ V!CheckPredictsVerify

\* PayloadVerification: however hosts redirect, break off or change their address, only
\* public addresses are contacted, only whole bodies are judged, and redirects and chunks
\* stay within their limits.
FetchContained ==
    part = "payloads" =>
        /\ V!TypeOK
        /\ V!JudgedWhole
        /\ V!ContactsOnlyPublic
=============================================================================
