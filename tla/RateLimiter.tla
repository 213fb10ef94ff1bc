---------------------------- MODULE RateLimiter ----------------------------
(***************************************************************************)
(* The fixed-window limiter of the API (server/xcs/rate-limit.ts).         *)
(*                                                                         *)
(* windows is its JavaScript Map: a sequence of entries in insertion       *)
(* order, in which a key occurs once. One tick of the clock is a fraction  *)
(* of a second, so that retry-after is rounded as in the code. A bucket is *)
(* a pair of a scope, "default" or a route, and a client address.          *)
(***************************************************************************)
EXTENDS Integers, Sequences, FiniteSets

CONSTANTS
    Scopes,         \* "default" and the routes with a budget of their own
    Addresses,      \* client addresses
    MaxShared,      \* DEFAULT_PUBLIC_RATE_LIMIT.max
    MaxRoute,       \* VERIFY_RATE_LIMIT.max
    Window,         \* timeWindowMs of every budget
    Forget,         \* the hour after which an entry is forgotten
    MaxWindows,     \* maxWindows
    Second,         \* ticks in a second
    MaxTime,        \* bound on the clock
    MaxHits         \* bound on the requests that are counted

VARIABLES
    clock,
    windows,   \* the limiter's Map
    lastPrune,
    log        \* history: the limiter's decisions, oldest first

limiterVars == <<windows, lastPrune, log>>
vars == <<clock, limiterVars>>

Buckets == Scopes \X Addresses

MaxOf(key) == IF key[1] = "default" THEN MaxShared ELSE MaxRoute

Entries == [key : Buckets, count : Nat \ {0}, start : 0 .. MaxTime]

\* The Map holds a key once and never more than maxWindows entries.
TypeOK ==
    /\ clock \in 0 .. MaxTime /\ lastPrune \in 0 .. MaxTime
    /\ windows \in Seq(Entries) /\ Len(windows) <= MaxWindows
    /\ \A i, j \in DOMAIN windows : windows[i].key = windows[j].key => i = j

Init == clock = 0 /\ windows = <<>> /\ lastPrune = 0 /\ log = <<>>

Keys(ws) == {ws[i].key : i \in DOMAIN ws}

EntryOf(ws, key) == ws[CHOOSE i \in DOMAIN ws : ws[i].key = key]

Forgotten(w) == clock - w.start > Forget

\* The k-th smallest of a set of positions.
Nth(S, k) == CHOOSE i \in S : Cardinality({j \in S : j <= i}) = k

\* The entries of the last hour, in their order.
Recent(ws) ==
    LET kept == {i \in DOMAIN ws : ~Forgotten(ws[i])}
    IN [k \in 1 .. Cardinality(kept) |-> ws[Nth(kept, k)]]

\* makeRoom: the entries of the last hour, without the oldest insertions that
\* do not leave room for one more.
MakeRoom(ws) ==
    IF Len(ws) < MaxWindows THEN ws
    ELSE LET kept == Recent(ws)
             surplus == Len(kept) - (MaxWindows - 1)
         IN IF surplus <= 0 THEN kept ELSE SubSeq(kept, surplus + 1, Len(kept))

\* Mutant: the count of an open window is lost.
CountedLost(ws, key) ==
    LET old == EntryOf(ws, key)
    IN IF key \notin Keys(ws) \/ clock - old.start >= Window
       THEN [key |-> key, count |-> 1, start |-> clock]
       ELSE old

\* The entry of the key after the hit: a window restarts timeWindowMs after its
\* first request.
Counted(ws, key) ==
    LET old == EntryOf(ws, key)
    IN IF key \notin Keys(ws) \/ clock - old.start >= Window
       THEN [key |-> key, count |-> 1, start |-> clock]
       ELSE [old EXCEPT !.count = @ + 1]

\* Map.set: an existing key keeps its place.
SetEntry(ws, entry) ==
    IF entry.key \in Keys(ws)
    THEN [i \in DOMAIN ws |-> IF ws[i].key = entry.key THEN entry ELSE ws[i]]
    ELSE Append(ws, entry)

\* retryAfterSeconds, in seconds, rounded up.
RetryAfter(entry) ==
    LET left == Window - (clock - entry.start)
    IN IF left < Second THEN 1 ELSE (left + Second - 1) \div Second

Pruned == IF clock - lastPrune > Forget THEN Recent(windows) ELSE windows

AfterRoom(key) == IF key \in Keys(Pruned) THEN Pruned ELSE MakeRoom(Pruned)

\* RateLimiter.hit
Hit(key) ==
    LET entry == Counted(Pruned, key)
        allowed == entry.count <= MaxOf(key)
    IN /\ Len(log) < MaxHits
       /\ windows' = SetEntry(AfterRoom(key), entry)
       /\ lastPrune' = IF clock - lastPrune > Forget THEN clock ELSE lastPrune
       /\ log' = Append(log, [key |-> key, at |-> clock, allowed |-> allowed,
                              retry |-> IF allowed THEN 0 ELSE RetryAfter(entry)])

Tick == clock < MaxTime /\ clock' = clock + 1 /\ UNCHANGED limiterVars

Next == Tick \/ \E key \in Buckets : Hit(key) /\ UNCHANGED clock

Spec == Init /\ [][Next]_vars

-----------------------------------------------------------------------------
(* Properties.                                                             *)

Granted(key, from, to) ==
    {i \in DOMAIN log : log[i].key = key /\ log[i].allowed /\ log[i].at > from /\ log[i].at <= to}

\* A client that keeps to its budget is never refused: whoever is told 429 has
\* been granted max requests within the last timeWindowMs, whatever other
\* clients did and whichever entries made room for others.
DeniedOnlyOverBudget ==
    \A i \in DOMAIN log :
        ~log[i].allowed =>
            Cardinality(Granted(log[i].key, log[i].at - Window, log[i].at)) >= MaxOf(log[i].key)

\* retry-after is kept: a client that is refused once the time it was told has
\* passed has been granted its whole budget in the meantime.
RetryAfterKept ==
    \A i, j \in DOMAIN log :
        (/\ i < j /\ log[i].key = log[j].key /\ ~log[i].allowed /\ ~log[j].allowed
         /\ log[j].at >= log[i].at + log[i].retry * Second) =>
            Cardinality({k \in i .. j : log[k].key = log[i].key /\ log[k].allowed})
              >= MaxOf(log[i].key)

\* While there is room for every client, a budget is a budget: no interval of
\* timeWindowMs sees more than twice max granted requests of one bucket.
BudgetHolds ==
    Cardinality({log[i].key : i \in DOMAIN log}) <= MaxWindows =>
        \A i \in DOMAIN log :
            Cardinality(Granted(log[i].key, log[i].at - Window, log[i].at)) <= 2 * MaxOf(log[i].key)

\* What the comment of makeRoom says: entries that can no longer deny anything
\* go first, so a client loses a live window only when every other is live.
DeadEntriesGoFirst ==
    [][\A i \in DOMAIN windows :
          (windows[i].key \notin Keys(windows') /\ clock - windows[i].start < Window) =>
              \A j \in DOMAIN windows : clock - windows[j].start < Window]_vars

=============================================================================
