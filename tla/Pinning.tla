------------------------------- MODULE Pinning -------------------------------
(***************************************************************************)
(* The demo pinning service of the web application: one-shot wallet        *)
(* challenges, quota-limited reservations in demo_pins, the Kubo node that *)
(* holds the content, and the hourly janitor that removes what expired.    *)
(*                                                                         *)
(* A call of pin() is a sequence of awaits, and so is a run of the         *)
(* janitor; any number of them interleave. A database transaction is one   *)
(* step (reservePin is SERIALIZABLE and locks the challenge). Everything   *)
(* the handler checks without changing state (signature, payload, schema)  *)
(* precedes BeginPin: a call that fails there leaves no trace.             *)
(***************************************************************************)
EXTENDS Integers, FiniteSets

CONSTANTS
    Challenges,     \* challenge ids
    Calls,          \* calls of pin(); each draws its own pinId
    Janitors,       \* runs of unpinExpired that may overlap
    Wallets, Ips,   \* requesters
    Cids,           \* contents
    ChallengeTtl,   \* CHALLENGE_TTL_MS
    PinTtl,         \* PIN_TTL_MS
    Day,            \* the window of the quota
    DailyLimit,     \* DAILY_LIMIT
    BatchSize,      \* limit of findExpiredPins
    RequestTime,    \* bound on the duration of a call: 10 s per Kubo request
    MaxTime,        \* bound on the clock
    MaxFaults       \* bound on failed or lost calls, crashes included

ASSUME PinningConstants ==
    /\ ChallengeTtl \in Nat \ {0} /\ PinTtl \in Nat \ {0} /\ Day \in Nat
    /\ DailyLimit \in Nat \ {0} /\ BatchSize \in Nat \ {0}
    /\ RequestTime \in Nat /\ RequestTime < PinTtl
    /\ MaxTime \in Nat /\ MaxFaults \in Nat

VARIABLES
    now,          \* the clock
    challenge,    \* pin_challenges
    pin,          \* demo_pins, by pinId
    call,         \* the calls of pin()
    janitor,      \* the runs of unpinExpired
    store,        \* the contents pinned in Kubo
    faults        \* faults so far

vars == <<now, challenge, pin, call, janitor, store, faults>>

NoChallenge == [exists |-> FALSE]
ChallengeRows == [exists : {TRUE}, wallet : Wallets, ip : Ips, expires : Nat, used : BOOLEAN]

Statuses == {"pending", "pinned", "failed", "unpinned"}
NoPin == [status |-> "none"]
PinRows ==
    [status : Statuses, challenge : Challenges, wallet : Wallets, ip : Ips, cid : Cids,
     created : Nat, expires : Nat]

\* A call before, during and after its awaits. "at" is the time it captured.
NoCall == [pc |-> "new"]
CallStates == {"reserve", "put", "mark", "fail", "ended"}
CallRows ==
    [pc : CallStates, challenge : Challenges, wallet : Wallets, ip : Ips, cid : Cids, at : Nat]

IdleJanitor == [pc |-> "idle", at |-> 0, todo |-> {}]
JanitorRows == [pc : {"idle", "find", "check", "unpin", "mark"}, at : Nat, todo : SUBSET Calls]

TypeOK ==
    /\ now \in 0 .. MaxTime /\ faults \in 0 .. MaxFaults
    /\ challenge \in [Challenges -> ChallengeRows \cup {NoChallenge}]
    /\ pin \in [Calls -> PinRows \cup {NoPin}]
    /\ call \in [Calls -> CallRows \cup {NoCall}]
    /\ janitor \in [Janitors -> JanitorRows]
    /\ store \subseteq Cids

Init ==
    /\ now = 0 /\ faults = 0 /\ store = {}
    /\ challenge = [h \in Challenges |-> NoChallenge]
    /\ pin = [c \in Calls |-> NoPin]
    /\ call = [c \in Calls |-> NoCall]
    /\ janitor = [j \in Janitors |-> IdleJanitor]

-----------------------------------------------------------------------------
(* Challenges and reservations.                                            *)

CreateChallenge(h, w, ip) ==
    /\ challenge[h] = NoChallenge
    /\ \A c \in Calls : call[c] # NoCall => call[c].challenge # h   \* ids are random
    /\ challenge' = [challenge EXCEPT ![h] =
           [exists |-> TRUE, wallet |-> w, ip |-> ip, expires |-> now + ChallengeTtl,
            used |-> FALSE]]
    /\ UNCHANGED <<now, pin, call, janitor, store, faults>>

\* pin() up to the moment it takes the time for reservePin.
BeginPin(c, h, ip, cid) ==
    /\ call[c] = NoCall /\ challenge[h] # NoChallenge
    /\ now + PinTtl <= MaxTime
    /\ call' = [call EXCEPT ![c] = [pc |-> "reserve", challenge |-> h, ip |-> ip, cid |-> cid,
                                    wallet |-> challenge[h].wallet, at |-> now]]
    /\ UNCHANGED <<now, challenge, pin, janitor, store, faults>>

Reserved == {c \in Calls : pin[c] # NoPin}

\* Mutant: the window ends at the time of the request.
QuotaUsedUntilNow(rows, at) ==
    Cardinality({p \in rows : pin[p].created >= at - Day /\ pin[p].created <= at})

\* Rows of the last day; failed ones count.
QuotaUsed(rows, at) == Cardinality({p \in rows : pin[p].created >= at - Day})

Accepted(r) ==
    LET h == challenge[r.challenge] IN
    /\ h # NoChallenge
    /\ ~h.used /\ r.at < h.expires
    /\ h.wallet = r.wallet /\ h.ip = r.ip
    /\ QuotaUsed({p \in Reserved : pin[p].wallet = r.wallet}, r.at) < DailyLimit
    /\ QuotaUsed({p \in Reserved : pin[p].ip = r.ip}, r.at) < DailyLimit

\* reservePin.
Reserve(c) ==
    LET r == call[c] IN
    /\ r.pc = "reserve" /\ Accepted(r)
    /\ challenge' = [challenge EXCEPT ![r.challenge].used = TRUE]
    /\ pin' = [pin EXCEPT ![c] =
           [status |-> "pending", challenge |-> r.challenge, wallet |-> r.wallet, ip |-> r.ip,
            cid |-> r.cid, created |-> r.at, expires |-> r.at + PinTtl]]
    /\ call' = [call EXCEPT ![c].pc = "put"]
    /\ UNCHANGED <<now, janitor, store, faults>>

Refuse(c) ==
    /\ call[c].pc = "reserve" /\ ~Accepted(call[c])
    /\ call' = [call EXCEPT ![c].pc = "ended"]
    /\ UNCHANGED <<now, challenge, pin, janitor, store, faults>>

-----------------------------------------------------------------------------
(* Storing the content.                                                    *)

\* UPDATE ... WHERE pin_id = c AND status IN from.
SetStatus(c, from, to) ==
    pin' = IF pin[c].status \in from THEN [pin EXCEPT ![c].status = to] ELSE pin

PutRaw(c) ==
    /\ call[c].pc = "put"
    /\ store' = store \cup {call[c].cid}
    /\ call' = [call EXCEPT ![c].pc = "mark"]
    /\ UNCHANGED <<now, challenge, pin, janitor, faults>>

MarkPinned(c) ==
    /\ call[c].pc = "mark"
    /\ SetStatus(c, {"pending"}, "pinned")
    /\ call' = [call EXCEPT ![c].pc = "ended"]
    /\ UNCHANGED <<now, challenge, janitor, store, faults>>

\* The catch of pin().
MarkFailed(c) ==
    /\ call[c].pc = "fail"
    /\ SetStatus(c, {"pending"}, "failed")
    /\ call' = [call EXCEPT ![c].pc = "ended"]
    /\ UNCHANGED <<now, challenge, janitor, store, faults>>

Fault == faults < MaxFaults /\ faults' = faults + 1

\* Kubo or the database does not answer in time, with or without having done
\* what it was asked for.
CallFails(c) ==
    /\ Fault
    /\ \/ call[c].pc = "put" /\ store' \in {store, store \cup {call[c].cid}} /\ UNCHANGED pin
       \/ /\ call[c].pc = "mark" /\ UNCHANGED store
          /\ UNCHANGED pin \/ SetStatus(c, {"pending"}, "pinned")
    /\ call' = [call EXCEPT ![c].pc = "fail"]
    /\ UNCHANGED <<now, challenge, janitor>>

\* The process stops, or markFailed fails too.
CallDies(c) ==
    /\ Fault
    /\ call[c].pc \in {"reserve", "put", "mark", "fail"}
    /\ call' = [call EXCEPT ![c].pc = "ended"]
    /\ UNCHANGED <<now, challenge, pin, janitor, store>>

-----------------------------------------------------------------------------
(* unpinExpired.                                                           *)

ActiveStatus(c) == pin[c].status \in {"pending", "pinned"}

Purged(h) ==
    /\ challenge[h] # NoChallenge /\ challenge[h].expires <= now
    /\ \A c \in Reserved : pin[c].challenge # h

\* Takes the time and runs deleteExpiredUnreferencedChallenges.
StartCleanup(j) ==
    /\ janitor[j].pc = "idle"
    /\ janitor' = [janitor EXCEPT ![j] = [pc |-> "find", at |-> now, todo |-> {}]]
    /\ challenge' = [h \in Challenges |-> IF Purged(h) THEN NoChallenge ELSE challenge[h]]
    /\ UNCHANGED <<now, pin, call, store, faults>>

Expired(at) == {c \in Calls : ActiveStatus(c) /\ pin[c].expires <= at}

\* The first rows in the order of their expiration; equal ones in any order.
FirstOf(rows, some) ==
    /\ some \subseteq rows
    /\ Cardinality(some) <= BatchSize /\ (some = rows \/ Cardinality(some) = BatchSize)
    /\ \A c \in some, d \in rows \ some : pin[c].expires <= pin[d].expires

FindExpiredPins(j) ==
    /\ janitor[j].pc = "find"
    /\ \E todo \in SUBSET Expired(janitor[j].at) :
         /\ FirstOf(Expired(janitor[j].at), todo)
         /\ janitor' = [janitor EXCEPT ![j].todo = todo,
                                       ![j].pc = IF todo = {} THEN "idle" ELSE "check"]
    /\ UNCHANGED <<now, challenge, pin, call, store, faults>>

Earliest(todo, expires) == CHOOSE c \in todo : \A d \in todo : expires[c] <= expires[d]

\* The row the loop is at.
Current(j) == Earliest(janitor[j].todo, [c \in janitor[j].todo |-> pin[c].expires])

\* Mutant: rows that expired count as other active pins.
HasOtherActivePinExpiredToo(c, at) ==
    \E d \in Calls \ {c} : ActiveStatus(d) /\ pin[d].cid = pin[c].cid

HasOtherActivePin(c, at) ==
    \E d \in Calls \ {c} : ActiveStatus(d) /\ pin[d].cid = pin[c].cid /\ pin[d].expires > at

CheckShared(j) ==
    /\ janitor[j].pc = "check"
    /\ janitor' = [janitor EXCEPT ![j].pc =
           IF HasOtherActivePin(Current(j), janitor[j].at) THEN "mark" ELSE "unpin"]
    /\ UNCHANGED <<now, challenge, pin, call, store, faults>>

Unpin(j) ==
    /\ janitor[j].pc = "unpin"
    /\ store' = store \ {pin[Current(j)].cid}
    /\ janitor' = [janitor EXCEPT ![j].pc = "mark"]
    /\ UNCHANGED <<now, challenge, pin, call, faults>>

\* Mutant: pending rows are left to the call that made them.
MarkUnpinnedPinnedOnly(j) ==
    LET c == Current(j)
        rest == janitor[j].todo \ {c} IN
    /\ janitor[j].pc = "mark"
    /\ SetStatus(c, {"pinned"}, "unpinned")
    /\ janitor' = [janitor EXCEPT ![j].todo = rest,
                                  ![j].pc = IF rest = {} THEN "idle" ELSE "check"]
    /\ UNCHANGED <<now, challenge, call, store, faults>>

MarkUnpinned(j) ==
    LET c == Current(j)
        rest == janitor[j].todo \ {c} IN
    /\ janitor[j].pc = "mark"
    /\ SetStatus(c, {"pending", "pinned"}, "unpinned")
    /\ janitor' = [janitor EXCEPT ![j].todo = rest,
                                  ![j].pc = IF rest = {} THEN "idle" ELSE "check"]
    /\ UNCHANGED <<now, challenge, call, store, faults>>

\* Any await of the loop rejects, or the process stops: the run ends, and the
\* rest waits for the next one.
CleanupFails(j) ==
    /\ Fault
    /\ janitor[j].pc # "idle"
    /\ \/ UNCHANGED store
       \/ janitor[j].pc = "unpin" /\ store' = store \ {pin[Current(j)].cid}
    /\ janitor' = [janitor EXCEPT ![j] = IdleJanitor]
    /\ UNCHANGED <<now, challenge, pin, call>>

-----------------------------------------------------------------------------
InFlight(c) == call[c].pc \in {"reserve", "put", "mark", "fail"}

\* No call lasts longer than RequestTime.
Tick ==
    /\ now < MaxTime
    /\ \A c \in Calls : InFlight(c) => now < call[c].at + RequestTime
    /\ now' = now + 1
    /\ UNCHANGED <<challenge, pin, call, janitor, store, faults>>

CallStep(c) ==
    \/ Reserve(c) \/ Refuse(c) \/ PutRaw(c) \/ MarkPinned(c) \/ MarkFailed(c)

CleanupStep(j) ==
    \/ StartCleanup(j) \/ FindExpiredPins(j) \/ CheckShared(j) \/ Unpin(j) \/ MarkUnpinned(j)

Next ==
    \/ \E h \in Challenges, w \in Wallets, ip \in Ips : CreateChallenge(h, w, ip)
    \/ \E c \in Calls :
         \/ \E h \in Challenges, ip \in Ips, cid \in Cids : BeginPin(c, h, ip, cid)
         \/ CallStep(c) \/ CallFails(c) \/ CallDies(c)
    \/ \E j \in Janitors : CleanupStep(j) \/ CleanupFails(j)
    \/ Tick

Spec == Init /\ [][Next]_vars

\* The clock advances, calls take their next step, and the janitor runs again.
FairSpec ==
    /\ Spec /\ WF_vars(Tick)
    /\ \A c \in Calls : WF_vars(CallStep(c))
    /\ \A j \in Janitors : WF_vars(CleanupStep(j))

-----------------------------------------------------------------------------
(* Properties.                                                             *)

\* A challenge authorises at most one pin, of the wallet and address it was made
\* for, and stays on record with it, however calls and cleanups interleave: the
\* UNIQUE index on demo_pins.challenge_id is never what refuses a second pin.
ChallengeSpentOnce ==
    \A c \in Reserved :
        LET h == challenge[pin[c].challenge] IN
        /\ h # NoChallenge
        /\ h.used /\ h.wallet = pin[c].wallet /\ h.ip = pin[c].ip
        /\ \A d \in Reserved : pin[d].challenge = pin[c].challenge => d = c

\* No wallet and no address reserves more than DailyLimit pins within any day,
\* although calls take their time before they commit, in any order.
QuotaHolds ==
    \A c \in Reserved :
        LET window == {d \in Reserved : pin[d].created \in pin[c].created .. pin[c].created + Day}
        IN /\ \A w \in Wallets : Cardinality({d \in window : pin[d].wallet = w}) <= DailyLimit
           /\ \A ip \in Ips : Cardinality({d \in window : pin[d].ip = ip}) <= DailyLimit

\* Every reservation was paid for: two calls that both passed the check of one challenge
\* do not both spend it, and no order in which calls take their time and commit puts
\* more pins of a wallet or an address into a day than the limit.
PinsAuthorised == TypeOK /\ ChallengeSpentOnce /\ QuotaHolds

\* Content in the store is always accounted for by a row: one the janitor will
\* still process, or a failed one, whose content nothing removes any more.
NoOrphan ==
    \A cid \in store : \E c \in Reserved :
        pin[c].cid = cid /\ pin[c].status \in {"pending", "pinned", "failed"}

\* Every reservation is settled: no row stays pending or pinned for ever.
Settled == \A c \in Calls : ActiveStatus(c) ~> pin[c].status \in {"failed", "unpinned"}

\* What a successful pin() promises: until it expires, the content of a pinned
\* row is in the store.
RetainedUntilExpiry ==
    \A c \in Reserved : pin[c].status = "pinned" /\ now < pin[c].expires => pin[c].cid \in store

=============================================================================
