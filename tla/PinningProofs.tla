---------------------------- MODULE PinningProofs ----------------------------
(***************************************************************************)
(* Proofs about Pinning, for any number of calls, janitors, requesters and *)
(* contents, and any times.                                                *)
(***************************************************************************)
EXTENDS Pinning, TLAPS, FiniteSetTheorems, WellFoundedInduction

-----------------------------------------------------------------------------
(* The inductive invariant.                                                *)

\* A call has no row before reservePin. From then on the row is the one it made,
\* and outlives the call: nothing but the call itself has changed its status.
CallInv ==
    \A c \in Calls :
        /\ call[c].pc \in {"new", "reserve"} => pin[c] = NoPin
        /\ call[c].pc \in {"put", "mark", "fail"} =>
             /\ pin[c] # NoPin /\ pin[c].cid = call[c].cid
             /\ pin[c].expires = call[c].at + PinTtl
        /\ call[c].pc \in {"put", "mark"} => pin[c].status = "pending"
        /\ call[c].pc = "fail" => ActiveStatus(c)
        /\ InFlight(c) => now <= call[c].at + RequestTime

\* The rows a janitor works on had expired when it began, and none has failed.
JanitorInv ==
    \A j \in Janitors :
        /\ janitor[j].at <= now
        /\ janitor[j].pc \in {"check", "unpin", "mark"} => janitor[j].todo # {}
        /\ \A c \in janitor[j].todo :
             pin[c] # NoPin /\ pin[c].expires <= janitor[j].at /\ pin[c].status # "failed"

\* Row d answers for the content of row c after c is gone: it failed, or it
\* expires later.
Covers(d, c) ==
    /\ pin[d].cid = pin[c].cid
    /\ pin[d].status = "failed" \/ (ActiveStatus(d) /\ pin[d].expires > pin[c].expires)

\* Content that is in the store although a janitor is about to mark its row
\* unpinned has another row.
MarkSafe ==
    \A j \in Janitors : janitor[j].pc = "mark" /\ pin[Current(j)].cid \in store =>
        \E d \in Calls : Covers(d, Current(j))

\* The pins of a wallet, or an address, in the window that starts at t.
OfWallet(w, t) == {d \in Reserved : pin[d].created \in t .. t + Day /\ pin[d].wallet = w}
OfIp(ip, t) == {d \in Reserved : pin[d].created \in t .. t + Day /\ pin[d].ip = ip}

\* The quota holds in every window, and not only in those that start with a pin.
QuotaInv ==
    /\ IsFiniteSet(Reserved)
    /\ \A w \in Wallets, t \in Nat : Cardinality(OfWallet(w, t)) <= DailyLimit
    /\ \A ip \in Ips, t \in Nat : Cardinality(OfIp(ip, t)) <= DailyLimit

IndInv ==
    /\ TypeOK /\ CallInv /\ JanitorInv /\ MarkSafe /\ NoOrphan
    /\ ChallengeSpentOnce /\ QuotaInv

-----------------------------------------------------------------------------

USE PinningConstants

\* A row has the fields of demo_pins, and an absent one no status of theirs.
LEMMA RowFields ==
    ASSUME TypeOK, NEW c \in Calls
    PROVE  /\ pin[c] # NoPin => /\ pin[c] \in PinRows /\ pin[c].created \in Nat
                                /\ pin[c].expires \in Nat /\ pin[c].status \in Statuses
           /\ pin[c] = NoPin => pin[c].status = "none"
           /\ ActiveStatus(c) => pin[c] # NoPin
BY DEF TypeOK, PinRows, NoPin, Statuses, ActiveStatus

\* A call that has begun has its fields.
LEMMA CallFields ==
    ASSUME TypeOK, NEW c \in Calls
    PROVE  /\ call[c].pc \in CallStates => call[c] \in CallRows
           /\ call[c].pc = "new" => call[c] = NoCall
           /\ call[c] = NoCall => call[c].pc = "new"
BY DEF TypeOK, CallRows, CallStates, NoCall

\* Among rows that have an expiration there is a first one.
LEMMA EarliestIn ==
    ASSUME NEW S, S # {}, NEW exp \in [S -> Nat]
    PROVE  Earliest(S, exp) \in S
<1> DEFINE R == OpToRel(<, Nat)
           T == {exp[c] : c \in S}
<1>1. T \subseteq Nat /\ T # {}
  OBVIOUS
<1>2. PICK x \in T : \A y \in T : ~(<<y, x>> \in R)
  <2> HIDE DEF R, T
  <2>1. IsWellFoundedOn(R, Nat)
    BY NatLessThanWellFounded DEF R
  <2> QED BY <1>1, <2>1, WFMin
<1>3. \A y \in T : ~(y < x)
  BY <1>1, <1>2 DEF OpToRel
<1>4. PICK c \in S : x = exp[c]
  OBVIOUS
<1>5. \A d \in S : exp[c] <= exp[d]
  BY <1>3, <1>4
<1> QED
  BY <1>5 DEF Earliest

\* A janitor inside its loop is at one of the rows it found.
LEMMA CurrentIn ==
    ASSUME TypeOK, JanitorInv, NEW j \in Janitors, janitor[j].pc \in {"check", "unpin", "mark"}
    PROVE  /\ Current(j) \in janitor[j].todo /\ Current(j) \in Calls
           /\ pin[Current(j)] # NoPin /\ pin[Current(j)].expires <= janitor[j].at
           /\ pin[Current(j)].status # "failed"
<1>1. janitor[j].todo # {} /\ janitor[j].todo \subseteq Calls
  BY DEF JanitorInv, TypeOK, JanitorRows
<1>2. [c \in janitor[j].todo |-> pin[c].expires] \in [janitor[j].todo -> Nat]
  BY <1>1, RowFields DEF JanitorInv
<1>3. Current(j) \in janitor[j].todo
  BY <1>1, <1>2, EarliestIn DEF Current
<1> QED
  BY <1>1, <1>3 DEF JanitorInv

\* It stays at that row while it has the same rows and their expirations stand.
LEMMA CurrentKept ==
    ASSUME NEW j \in Janitors, janitor'[j].todo = janitor[j].todo,
           \A c \in janitor[j].todo : pin'[c].expires = pin[c].expires
    PROVE  Current(j)' = Current(j)
<1>1. [c \in janitor'[j].todo |-> pin'[c].expires] = [c \in janitor[j].todo |-> pin[c].expires]
  OBVIOUS
<1> QED
  BY <1>1 DEF Current

\* A call in flight has a row that no janitor is working on.
LEMMA InFlightNotExpired ==
    ASSUME TypeOK, CallInv, JanitorInv, NEW c \in Calls, call[c].pc \in {"put", "mark", "fail"},
           NEW j \in Janitors
    PROVE  pin[c].expires > janitor[j].at /\ c \notin janitor[j].todo
<1>1. InFlight(c)
  BY DEF InFlight
<1>2. call[c].at \in Nat
  BY CallFields DEF CallRows, CallStates
<1>3. now <= call[c].at + RequestTime /\ pin[c].expires = call[c].at + PinTtl
  BY <1>1 DEF CallInv
<1>4. janitor[j].at <= now /\ janitor[j].at \in Nat /\ now \in Nat
  BY DEF JanitorInv, TypeOK, JanitorRows
<1>5. pin[c].expires > janitor[j].at
  BY <1>2, <1>3, <1>4
<1> QED
  BY <1>2, <1>3, <1>4, <1>5 DEF JanitorInv

-----------------------------------------------------------------------------
(* Type correctness.                                                       *)

LEMMA TypeInit == Init => TypeOK
BY DEF Init, TypeOK, JanitorRows, IdleJanitor

\* UPDATE demo_pins SET status changes the status of one row and nothing else.
LEMMA SetStatusEffect ==
    ASSUME TypeOK, NEW c \in Calls, NEW from, "none" \notin from, NEW to \in Statuses,
           SetStatus(c, from, to)
    PROVE  /\ pin' \in [Calls -> PinRows \cup {NoPin}]
           /\ \A d \in Calls : d # c => pin'[d] = pin[d]
           /\ \A d \in Calls : (pin'[d] = NoPin) <=> (pin[d] = NoPin)
           /\ pin[c] # NoPin =>
                /\ pin'[c].challenge = pin[c].challenge /\ pin'[c].wallet = pin[c].wallet
                /\ pin'[c].ip = pin[c].ip /\ pin'[c].cid = pin[c].cid
                /\ pin'[c].created = pin[c].created /\ pin'[c].expires = pin[c].expires
           /\ pin'[c].status = IF pin[c].status \in from THEN to ELSE pin[c].status
<1>1. pin \in [Calls -> PinRows \cup {NoPin}]
  BY DEF TypeOK
<1>2. CASE pin[c].status \notin from
  BY <1>1, <1>2 DEF SetStatus
<1>3. CASE pin[c].status \in from
  <2>1. pin' = [pin EXCEPT ![c].status = to]
    BY <1>3 DEF SetStatus
  <2>2. pin[c] \in PinRows
    BY <1>1, <1>3 DEF NoPin
  <2>3. pin'[c] = [pin[c] EXCEPT !.status = to]
    BY <1>1, <2>1
  <2>4. pin'[c] \in PinRows
    BY <2>2, <2>3 DEF PinRows
  <2>5. pin[c] # NoPin /\ pin'[c] # NoPin
    BY <2>2, <2>4 DEF PinRows, NoPin, Statuses
  <2>6. pin'[c].status = to
    BY <2>2, <2>3 DEF PinRows
  <2>7. /\ pin'[c].challenge = pin[c].challenge /\ pin'[c].wallet = pin[c].wallet
        /\ pin'[c].ip = pin[c].ip /\ pin'[c].cid = pin[c].cid
        /\ pin'[c].created = pin[c].created /\ pin'[c].expires = pin[c].expires
    BY <2>2, <2>3 DEF PinRows
  <2> QED
    BY <1>1, <1>3, <2>1, <2>4, <2>5, <2>6, <2>7
<1> QED
  BY <1>2, <1>3

LEMMA TypeStep == TypeOK /\ JanitorInv /\ [Next]_vars => TypeOK'
<1> SUFFICES ASSUME TypeOK, JanitorInv, [Next]_vars PROVE TypeOK'
  OBVIOUS
<1>1. ASSUME NEW h \in Challenges, NEW w \in Wallets, NEW ip \in Ips, CreateChallenge(h, w, ip)
      PROVE  TypeOK'
  <2>1. now + ChallengeTtl \in Nat
    BY DEF TypeOK
  <2>2. [exists |-> TRUE, wallet |-> w, ip |-> ip, expires |-> now + ChallengeTtl,
         used |-> FALSE] \in ChallengeRows
    BY <2>1 DEF ChallengeRows
  <2> QED
    BY <1>1, <2>2 DEF CreateChallenge, TypeOK
<1>2. ASSUME NEW c \in Calls, NEW h \in Challenges, NEW ip \in Ips, NEW cid \in Cids,
             BeginPin(c, h, ip, cid)
      PROVE  TypeOK'
  <2>1. challenge[h] \in ChallengeRows
    BY <1>2 DEF BeginPin, TypeOK
  <2>2. challenge[h].wallet \in Wallets /\ now \in Nat
    BY <2>1 DEF ChallengeRows, TypeOK
  <2>3. [pc |-> "reserve", challenge |-> h, ip |-> ip, cid |-> cid,
         wallet |-> challenge[h].wallet, at |-> now] \in CallRows
    BY <2>2 DEF CallRows, CallStates
  <2> QED
    BY <1>2, <2>3 DEF BeginPin, TypeOK
<1>3. ASSUME NEW c \in Calls, NEW pc \in CallStates, call[c].pc \in CallStates
      PROVE  [call EXCEPT ![c].pc = pc] \in [Calls -> CallRows \cup {NoCall}]
  <2>1. call[c] \in CallRows
    BY <1>3, CallFields
  <2>2. [call[c] EXCEPT !.pc = pc] \in CallRows
    BY <2>1 DEF CallRows
  <2>3. [call EXCEPT ![c].pc = pc] = [call EXCEPT ![c] = [call[c] EXCEPT !.pc = pc]]
    OBVIOUS
  <2> QED
    BY <2>2, <2>3 DEF TypeOK
<1>4. ASSUME NEW c \in Calls, Reserve(c)
      PROVE  TypeOK'
  <2>1. call[c] \in CallRows
    BY <1>4, CallFields DEF Reserve, CallStates
  <2>2. challenge[call[c].challenge] \in ChallengeRows /\ call[c].challenge \in Challenges
    BY <1>4, <2>1 DEF Reserve, Accepted, TypeOK, CallRows
  <2>3. [challenge[call[c].challenge] EXCEPT !.used = TRUE] \in ChallengeRows
    BY <2>2 DEF ChallengeRows
  <2>4. challenge' \in [Challenges -> ChallengeRows \cup {NoChallenge}]
    BY <1>4, <2>2, <2>3 DEF Reserve, TypeOK
  <2>5. [status |-> "pending", challenge |-> call[c].challenge, wallet |-> call[c].wallet,
         ip |-> call[c].ip, cid |-> call[c].cid, created |-> call[c].at,
         expires |-> call[c].at + PinTtl] \in PinRows
    BY <2>1 DEF CallRows, PinRows, Statuses
  <2>6. pin' \in [Calls -> PinRows \cup {NoPin}]
    BY <1>4, <2>5 DEF Reserve, TypeOK
  <2>7. call' \in [Calls -> CallRows \cup {NoCall}]
    BY <1>3, <1>4 DEF Reserve, CallStates
  <2> QED
    BY <1>4, <2>4, <2>6, <2>7 DEF Reserve, TypeOK
<1>5. ASSUME NEW c \in Calls, Refuse(c)
      PROVE  TypeOK'
  BY <1>3, <1>5 DEF Refuse, CallStates, TypeOK
<1>6. ASSUME NEW c \in Calls, PutRaw(c)
      PROVE  TypeOK'
  <2>1. call[c].cid \in Cids
    BY <1>6, CallFields DEF PutRaw, CallStates, CallRows
  <2> QED
    BY <1>3, <1>6, <2>1 DEF PutRaw, CallStates, TypeOK
<1>7. ASSUME NEW c \in Calls, MarkPinned(c)
      PROVE  TypeOK'
  <2>1. pin' \in [Calls -> PinRows \cup {NoPin}]
    BY <1>7, SetStatusEffect DEF MarkPinned, Statuses
  <2> QED
    BY <1>3, <1>7, <2>1 DEF MarkPinned, CallStates, TypeOK
<1>8. ASSUME NEW c \in Calls, MarkFailed(c)
      PROVE  TypeOK'
  <2>1. pin' \in [Calls -> PinRows \cup {NoPin}]
    BY <1>8, SetStatusEffect DEF MarkFailed, Statuses
  <2> QED
    BY <1>3, <1>8, <2>1 DEF MarkFailed, CallStates, TypeOK
<1>9. ASSUME NEW c \in Calls, CallFails(c)
      PROVE  TypeOK'
  <2>1. faults' \in 0 .. MaxFaults
    BY <1>9 DEF CallFails, Fault, TypeOK
  <2>2. call[c].pc \in CallStates /\ call' = [call EXCEPT ![c].pc = "fail"]
    BY <1>9 DEF CallFails, CallStates
  <2>3. call' \in [Calls -> CallRows \cup {NoCall}]
    BY <1>3, <2>2 DEF CallStates
  <2>4. call[c].cid \in Cids
    BY <2>2, CallFields DEF CallRows
  <2>5. store' \subseteq Cids
    BY <1>9, <2>4 DEF CallFails, TypeOK
  <2>6. pin' \in [Calls -> PinRows \cup {NoPin}]
    <3>1. CASE UNCHANGED pin
      BY <3>1 DEF TypeOK
    <3>2. CASE SetStatus(c, {"pending"}, "pinned")
      BY <3>2, SetStatusEffect DEF Statuses
    <3> QED
      BY <1>9, <3>1, <3>2 DEF CallFails
  <2> QED
    BY <1>9, <2>1, <2>3, <2>5, <2>6 DEF CallFails, TypeOK
<1>10. ASSUME NEW c \in Calls, CallDies(c)
       PROVE  TypeOK'
  <2>1. faults' \in 0 .. MaxFaults
    BY <1>10 DEF CallDies, Fault, TypeOK
  <2>2. call' \in [Calls -> CallRows \cup {NoCall}]
    BY <1>3, <1>10 DEF CallDies, CallStates
  <2> QED
    BY <1>10, <2>1, <2>2 DEF CallDies, TypeOK
<1>11. ASSUME NEW j \in Janitors, StartCleanup(j)
       PROVE  TypeOK'
  <2>1. challenge' \in [Challenges -> ChallengeRows \cup {NoChallenge}]
    BY <1>11 DEF StartCleanup, TypeOK
  <2>2. [pc |-> "find", at |-> now, todo |-> {}] \in JanitorRows
    BY DEF TypeOK, JanitorRows
  <2> QED
    BY <1>11, <2>1, <2>2 DEF StartCleanup, TypeOK
<1>12. ASSUME NEW j \in Janitors, NEW pc \in {"idle", "find", "check", "unpin", "mark"},
              NEW todo \in SUBSET Calls
       PROVE  /\ [janitor EXCEPT ![j].pc = pc] \in [Janitors -> JanitorRows]
              /\ [janitor EXCEPT ![j].todo = todo, ![j].pc = pc] \in [Janitors -> JanitorRows]
  <2>1. janitor \in [Janitors -> JanitorRows] /\ janitor[j] \in JanitorRows
    BY DEF TypeOK
  <2>2. [janitor[j] EXCEPT !.pc = pc] \in JanitorRows
    BY <2>1 DEF JanitorRows
  <2>3. [[janitor[j] EXCEPT !.todo = todo] EXCEPT !.pc = pc] \in JanitorRows
    BY <2>1 DEF JanitorRows
  <2>4. [janitor EXCEPT ![j].pc = pc] \in [Janitors -> JanitorRows]
    BY <2>1, <2>2
  <2>5. [janitor EXCEPT ![j].todo = todo, ![j].pc = pc] \in [Janitors -> JanitorRows]
    BY <2>1, <2>3
  <2> QED
    BY <2>4, <2>5
<1>13. ASSUME NEW j \in Janitors, FindExpiredPins(j)
       PROVE  TypeOK'
  <2>1. PICK todo \in SUBSET Expired(janitor[j].at) :
            janitor' = [janitor EXCEPT ![j].todo = todo,
                                       ![j].pc = IF todo = {} THEN "idle" ELSE "check"]
    BY <1>13 DEF FindExpiredPins
  <2>2. todo \in SUBSET Calls
    BY DEF Expired
  <2>3. janitor' \in [Janitors -> JanitorRows]
    BY <1>12, <2>1, <2>2
  <2> QED
    BY <1>13, <2>3 DEF FindExpiredPins, TypeOK
<1>14. ASSUME NEW j \in Janitors, CheckShared(j)
       PROVE  TypeOK'
  <2>1. {} \in SUBSET Calls
    OBVIOUS
  <2>2. janitor' \in [Janitors -> JanitorRows]
    BY <1>12, <1>14, <2>1 DEF CheckShared
  <2> QED
    BY <1>14, <2>2 DEF CheckShared, TypeOK
<1>15. ASSUME NEW j \in Janitors, Unpin(j)
       PROVE  TypeOK'
  <2>1. {} \in SUBSET Calls
    OBVIOUS
  <2>2. janitor' \in [Janitors -> JanitorRows]
    BY <1>12, <1>15, <2>1 DEF Unpin
  <2> QED
    BY <1>15, <2>2 DEF Unpin, TypeOK
<1>16. ASSUME NEW j \in Janitors, MarkUnpinned(j)
       PROVE  TypeOK'
  <2> DEFINE rest == janitor[j].todo \ {Current(j)}
  <2>1. Current(j) \in Calls
    BY <1>16, CurrentIn DEF MarkUnpinned
  <2>2. rest \in SUBSET Calls
    BY DEF TypeOK, JanitorRows
  <2>3. janitor' = [janitor EXCEPT ![j].todo = rest,
                                   ![j].pc = IF rest = {} THEN "idle" ELSE "check"]
    BY <1>16 DEF MarkUnpinned
  <2>4. janitor' \in [Janitors -> JanitorRows]
    <3> HIDE DEF rest
    <3> QED BY <1>12, <2>2, <2>3
  <2>5. pin' \in [Calls -> PinRows \cup {NoPin}]
    BY <1>16, <2>1, SetStatusEffect DEF MarkUnpinned, Statuses
  <2> QED
    BY <1>16, <2>4, <2>5 DEF MarkUnpinned, TypeOK
<1>17. ASSUME NEW j \in Janitors, CleanupFails(j)
       PROVE  TypeOK'
  <2>1. faults' \in 0 .. MaxFaults
    BY <1>17 DEF CleanupFails, Fault, TypeOK
  <2>2. IdleJanitor \in JanitorRows
    BY DEF IdleJanitor, JanitorRows
  <2> QED
    BY <1>17, <2>1, <2>2 DEF CleanupFails, TypeOK
<1>18. CASE Tick
  BY <1>18 DEF Tick, TypeOK
<1>19. CASE UNCHANGED vars
  BY <1>19 DEF vars, TypeOK
<1> QED
  BY <1>1, <1>2, <1>4, <1>5, <1>6, <1>7, <1>8, <1>9, <1>10, <1>11, <1>13, <1>14, <1>15,
     <1>16, <1>17, <1>18, <1>19 DEF Next, CallStep, CleanupStep

-----------------------------------------------------------------------------
(* Rows, calls and janitors.                                               *)

\* A row is never removed, and only its status changes.
RowStands(c) ==
    pin[c] # NoPin =>
        /\ pin'[c] # NoPin
        /\ pin'[c].challenge = pin[c].challenge /\ pin'[c].wallet = pin[c].wallet
        /\ pin'[c].ip = pin[c].ip /\ pin'[c].cid = pin[c].cid
        /\ pin'[c].created = pin[c].created /\ pin'[c].expires = pin[c].expires

\* Only reservePin inserts a row.
LEMMA RowsStand ==
    ASSUME TypeOK, CallInv, JanitorInv, [Next]_vars
    PROVE  /\ \A c \in Calls : RowStands(c)
           /\ (\A c \in Calls : ~Reserve(c)) =>
                \A c \in Calls : pin[c] = NoPin => pin'[c] = NoPin
<1>1. ASSUME NEW c \in Calls, NEW from, "none" \notin from, NEW to \in Statuses,
             SetStatus(c, from, to)
      PROVE  \A d \in Calls : RowStands(d) /\ (pin[d] = NoPin => pin'[d] = NoPin)
  <2> SUFFICES ASSUME NEW d \in Calls
               PROVE  RowStands(d) /\ (pin[d] = NoPin => pin'[d] = NoPin)
    OBVIOUS
  <2>1. CASE d = c
    BY <1>1, <2>1, SetStatusEffect DEF RowStands
  <2>2. CASE d # c
    BY <1>1, <2>2, SetStatusEffect DEF RowStands
  <2> QED
    BY <2>1, <2>2
<1>2. CASE pin' = pin
  BY <1>2 DEF RowStands
<1>3. CASE \E c \in Calls : Reserve(c)
  <2>1. PICK c \in Calls : Reserve(c)
    BY <1>3
  <2>2. pin[c] = NoPin
    BY <2>1 DEF Reserve, CallInv
  <2>3. \A d \in Calls \ {c} : pin'[d] = pin[d]
    BY <2>1 DEF Reserve, TypeOK
  <2>4. \A d \in Calls : RowStands(d)
    BY <2>2, <2>3 DEF RowStands
  <2> QED
    BY <2>1, <2>4
<1>4. CASE \E c \in Calls : MarkPinned(c) \/ MarkFailed(c) \/ CallFails(c)
  BY <1>1, <1>2, <1>4 DEF MarkPinned, MarkFailed, CallFails, Statuses
<1>5. CASE \E j \in Janitors : MarkUnpinned(j)
  <2>1. PICK j \in Janitors : MarkUnpinned(j)
    BY <1>5
  <2>2. Current(j) \in Calls
    BY <2>1, CurrentIn DEF MarkUnpinned
  <2> QED
    BY <1>1, <2>1, <2>2 DEF MarkUnpinned, Statuses
<1>6. \/ pin' = pin
      \/ \E c \in Calls : Reserve(c)
      \/ \E c \in Calls : MarkPinned(c) \/ MarkFailed(c) \/ CallFails(c)
      \/ \E j \in Janitors : MarkUnpinned(j)
  BY DEF Next, CallStep, CleanupStep, CreateChallenge, BeginPin, Refuse, PutRaw, CallDies,
         StartCleanup, FindExpiredPins, CheckShared, Unpin, CleanupFails, Tick, vars
<1> QED
  BY <1>2, <1>3, <1>4, <1>5, <1>6

\* The status of a row changes by its own call or by a janitor that found it.
LEMMA StatusChange ==
    ASSUME TypeOK, CallInv, JanitorInv, [Next]_vars, NEW c \in Calls,
           pin'[c].status # pin[c].status
    PROVE  \/ Reserve(c)
           \/ MarkPinned(c) /\ pin[c].status = "pending" /\ pin'[c].status = "pinned"
           \/ MarkFailed(c) /\ pin[c].status = "pending" /\ pin'[c].status = "failed"
           \/ /\ CallFails(c) /\ call[c].pc = "mark"
              /\ pin[c].status = "pending" /\ pin'[c].status = "pinned"
           \/ \E j \in Janitors : /\ MarkUnpinned(j) /\ c = Current(j)
                                  /\ ActiveStatus(c) /\ pin'[c].status = "unpinned"
<1>1. CASE \E d \in Calls : Reserve(d)
  BY <1>1 DEF Reserve, TypeOK
<1>0. ASSUME NEW d \in Calls, NEW to \in Statuses, SetStatus(d, {"pending"}, to)
      PROVE  c = d /\ pin[c].status = "pending" /\ pin'[c].status = to
  <2>1. \A e \in Calls : e # d => pin'[e] = pin[e]
    BY <1>0, SetStatusEffect
  <2>2. pin'[d].status = IF pin[d].status \in {"pending"} THEN to ELSE pin[d].status
    BY <1>0, SetStatusEffect
  <2> QED
    BY <2>1, <2>2
<1>2. CASE \E d \in Calls : MarkPinned(d)
  <2>1. PICK d \in Calls : MarkPinned(d)
    BY <1>2
  <2>2. SetStatus(d, {"pending"}, "pinned")
    BY <2>1 DEF MarkPinned
  <2> QED
    BY <1>0, <2>1, <2>2 DEF Statuses
<1>3. CASE \E d \in Calls : MarkFailed(d)
  <2>1. PICK d \in Calls : MarkFailed(d)
    BY <1>3
  <2>2. SetStatus(d, {"pending"}, "failed")
    BY <2>1 DEF MarkFailed
  <2> QED
    BY <1>0, <2>1, <2>2 DEF Statuses
<1>4. CASE \E d \in Calls : CallFails(d)
  BY <1>0, <1>4 DEF CallFails, Statuses
<1>5. CASE \E j \in Janitors : MarkUnpinned(j)
  <2>1. PICK j \in Janitors : MarkUnpinned(j)
    BY <1>5
  <2>2. Current(j) \in Calls
    BY <2>1, CurrentIn DEF MarkUnpinned
  <2> QED
    BY ZenonT(40), <2>1, <2>2, SetStatusEffect DEF MarkUnpinned, Statuses, ActiveStatus
<1>6. pin' # pin
  OBVIOUS
<1> QED
  BY <1>1, <1>2, <1>3, <1>4, <1>5, <1>6
     DEF Next, CallStep, CleanupStep, CreateChallenge, BeginPin, Refuse, PutRaw, CallDies,
         StartCleanup, FindExpiredPins, CheckShared, Unpin, CleanupFails, Tick, vars

LEMMA JanitorStep ==
    ASSUME TypeOK, CallInv, JanitorInv, [Next]_vars
    PROVE  JanitorInv'
<1>1. now \in Nat /\ now' \in Nat /\ now <= now'
  <2>1. Tick \/ now' = now
    BY DEF Next, CallStep, CleanupStep, CreateChallenge, BeginPin, Reserve, Refuse, PutRaw,
           MarkPinned, MarkFailed, CallFails, CallDies, StartCleanup, FindExpiredPins,
           CheckShared, Unpin, MarkUnpinned, CleanupFails, vars
  <2> QED
    BY SMTT(30), <2>1 DEF Tick, TypeOK
<1>2. ASSUME NEW j \in Janitors, NEW c \in janitor[j].todo
      PROVE  pin'[c] # NoPin /\ pin'[c].expires <= janitor[j].at /\ pin'[c].status # "failed"
  <2>1. /\ c \in Calls
        /\ pin[c] # NoPin /\ pin[c].expires <= janitor[j].at /\ pin[c].status # "failed"
    BY DEF TypeOK, JanitorRows, JanitorInv
  <2>2. RowStands(c)
    BY <2>1, RowsStand
  <2>3. pin'[c].status # "failed"
    <3> SUFFICES ASSUME pin'[c].status = "failed"
                 PROVE  FALSE
      OBVIOUS
    <3>1. MarkFailed(c) \/ Reserve(c)
      BY <2>1, StatusChange
    <3>2. CASE Reserve(c)
      BY <2>1, <3>2 DEF Reserve, CallInv
    <3>3. CASE MarkFailed(c)
      BY <2>1, <3>3, InFlightNotExpired DEF MarkFailed
    <3> QED
      BY <3>1, <3>2, <3>3
  <2> QED
    BY <2>1, <2>2, <2>3 DEF RowStands
<1>3. ASSUME NEW j \in Janitors, janitor'[j] = janitor[j]
      PROVE  JanitorInv!(j)'
  <2>1. janitor[j].at <= now /\ janitor[j].at \in Nat
    BY DEF JanitorInv, TypeOK, JanitorRows
  <2> QED
    BY <1>1, <1>2, <1>3, <2>1 DEF JanitorInv
<1>4. ASSUME NEW j \in Janitors, CleanupStep(j) \/ CleanupFails(j)
      PROVE  JanitorInv'
  <2>1. \A k \in Janitors \ {j} : janitor'[k] = janitor[k]
    BY <1>4 DEF CleanupStep, StartCleanup, FindExpiredPins, CheckShared, Unpin, MarkUnpinned,
                CleanupFails, TypeOK
  <2>2. janitor[j] \in JanitorRows /\ janitor[j].at <= now /\ janitor[j].at \in Nat
    BY DEF TypeOK, JanitorRows, JanitorInv
  <2>3. JanitorInv!(j)'
    <3>1. CASE StartCleanup(j)
      BY <1>1, <3>1 DEF StartCleanup, TypeOK
    <3>2. CASE FindExpiredPins(j)
      <4>1. PICK todo \in SUBSET Expired(janitor[j].at) :
                janitor' = [janitor EXCEPT ![j].todo = todo,
                                           ![j].pc = IF todo = {} THEN "idle" ELSE "check"]
        BY <3>2 DEF FindExpiredPins
      <4>2. /\ janitor'[j].todo = todo /\ janitor'[j].at = janitor[j].at
            /\ janitor'[j].pc = IF todo = {} THEN "idle" ELSE "check"
        BY <2>2, <4>1 DEF TypeOK, JanitorRows
      <4>3. pin' = pin
        BY <3>2 DEF FindExpiredPins
      <4>4. \A c \in todo : /\ pin[c] # NoPin /\ pin[c].expires <= janitor[j].at
                            /\ pin[c].status # "failed"
        BY RowFields DEF Expired, ActiveStatus
      <4> QED
        BY <1>1, <2>2, <4>2, <4>3, <4>4
    <3>3. CASE CheckShared(j) \/ Unpin(j)
      <4>1. /\ janitor'[j].todo = janitor[j].todo /\ janitor'[j].at = janitor[j].at
            /\ janitor[j].todo # {}
        BY <2>2, <3>3 DEF CheckShared, Unpin, TypeOK, JanitorRows, JanitorInv
      <4> QED
        BY <1>1, <1>2, <2>2, <4>1
    <3>4. CASE MarkUnpinned(j)
      <4>1. /\ janitor'[j].todo = janitor[j].todo \ {Current(j)}
            /\ janitor'[j].at = janitor[j].at
            /\ janitor'[j].pc = IF janitor'[j].todo = {} THEN "idle" ELSE "check"
        BY <2>2, <3>4 DEF MarkUnpinned, TypeOK, JanitorRows
      <4> QED
        BY <1>1, <1>2, <2>2, <4>1
    <3>5. CASE CleanupFails(j)
      BY <1>1, <3>5 DEF CleanupFails, IdleJanitor, TypeOK
    <3> QED
      BY <1>4, <3>1, <3>2, <3>3, <3>4, <3>5 DEF CleanupStep
  <2> QED
    BY <1>3, <2>1, <2>3 DEF JanitorInv
<1>5. CASE janitor' = janitor
  BY <1>3, <1>5 DEF JanitorInv
<1> QED
  BY <1>4, <1>5 DEF Next, CallStep, CreateChallenge, BeginPin, Reserve, Refuse,
         PutRaw, MarkPinned, MarkFailed, CallFails, CallDies, Tick, vars

LEMMA CallStepInv ==
    ASSUME TypeOK, CallInv, JanitorInv, [Next]_vars
    PROVE  CallInv'
<1>1. Tick \/ now' = now
  BY DEF Next, CallStep, CleanupStep, CreateChallenge, BeginPin, Reserve, Refuse, PutRaw,
         MarkPinned, MarkFailed, CallFails, CallDies, StartCleanup, FindExpiredPins,
         CheckShared, Unpin, MarkUnpinned, CleanupFails, vars
<1> SUFFICES ASSUME NEW c \in Calls
             PROVE  CallInv!(c)'
  BY DEF CallInv
<1>2. CallInv!(c)
  BY DEF CallInv
<1>3. RowStands(c) /\ (pin[c] = NoPin /\ pin'[c] # NoPin => Reserve(c))
  <2>1. ASSUME NEW d \in Calls, Reserve(d), d # c
        PROVE  pin'[c] = pin[c]
    BY <2>1 DEF Reserve, TypeOK
  <2> QED
    BY <2>1, RowsStand
<1>7. ASSUME NEW pc \in CallStates, call[c].pc \in CallStates,
             call' = [call EXCEPT ![c].pc = pc]
      PROVE  call'[c] = [call[c] EXCEPT !.pc = pc] /\ call[c] \in CallRows
             /\ call'[c].pc = pc /\ call'[c].cid = call[c].cid /\ call'[c].at = call[c].at
  BY <1>7, CallFields DEF TypeOK, CallRows
<1>4. CASE call'[c] = call[c]
  <2>1. ~Reserve(c) /\ ~MarkPinned(c) /\ ~MarkFailed(c)
    BY <1>4, <1>7 DEF Reserve, MarkPinned, MarkFailed, CallStates
  <2>2. CallFails(c) => call[c].pc # "mark"
    BY <1>4, <1>7 DEF CallFails, CallStates
  <2>3. ASSUME call[c].pc \in {"put", "mark", "fail"}
        PROVE  pin'[c].status = pin[c].status
    <3> SUFFICES ASSUME pin'[c].status # pin[c].status
                 PROVE  FALSE
      OBVIOUS
    <3>1. PICK j \in Janitors : MarkUnpinned(j) /\ c = Current(j)
      BY <2>1, <2>2, StatusChange
    <3>2. c \in janitor[j].todo
      BY <3>1, CurrentIn DEF MarkUnpinned
    <3> QED
      BY <2>3, <3>2, InFlightNotExpired
  <2>4. InFlight(c)' => now' <= call'[c].at + RequestTime
    <3>1. CASE now' = now
      BY <1>2, <1>4, <3>1 DEF InFlight
    <3>2. CASE Tick /\ InFlight(c)
      <4>1. call[c].at \in Nat /\ now \in Nat
        BY <3>2, CallFields DEF InFlight, CallRows, CallStates, TypeOK
      <4> QED
        BY <1>4, <3>2, <4>1 DEF Tick
    <3> QED
      BY <1>1, <1>4, <3>1, <3>2 DEF InFlight
  <2> QED
    BY <1>2, <1>3, <1>4, <2>1, <2>3, <2>4 DEF RowStands, ActiveStatus
<1>5. ASSUME call'[c] # call[c]
      PROVE  \/ \E h \in Challenges, ip \in Ips, cid \in Cids : BeginPin(c, h, ip, cid)
             \/ CallStep(c) \/ CallFails(c) \/ CallDies(c)
  <2>1. \/ call' = call
        \/ \E d \in Calls : \/ \E h \in Challenges, ip \in Ips, cid \in Cids :
                                   BeginPin(d, h, ip, cid)
                            \/ CallStep(d) \/ CallFails(d) \/ CallDies(d)
    BY DEF Next, CleanupStep, CreateChallenge, StartCleanup, FindExpiredPins, CheckShared,
           Unpin, MarkUnpinned, CleanupFails, Tick, vars
  <2>2. PICK d \in Calls : \/ \E h \in Challenges, ip \in Ips, cid \in Cids :
                                   BeginPin(d, h, ip, cid)
                           \/ CallStep(d) \/ CallFails(d) \/ CallDies(d)
    BY <1>5, <2>1
  <2>3. \A e \in Calls \ {d} : call'[e] = call[e]
    BY <2>2 DEF TypeOK, CallStep, BeginPin, Reserve, Refuse, PutRaw, MarkPinned, MarkFailed,
                CallFails, CallDies
  <2> QED
    BY <1>5, <2>2, <2>3
<1>6. ASSUME NEW h \in Challenges, NEW ip \in Ips, NEW cid \in Cids, BeginPin(c, h, ip, cid)
      PROVE  CallInv!(c)'
  <2>1. call'[c].pc = "reserve" /\ call'[c].at = now /\ now' = now /\ now \in Nat
    BY <1>6 DEF BeginPin, TypeOK
  <2>2. pin'[c] = NoPin
    BY <1>2, <1>6, CallFields DEF BeginPin
  <2> QED
    BY <2>1, <2>2 DEF InFlight
<1>8. CASE Reserve(c)
  <2>1. call'[c].pc = "put" /\ call'[c].cid = call[c].cid /\ call'[c].at = call[c].at
    BY <1>7, <1>8 DEF Reserve, CallStates
  <2>2. /\ pin'[c].status = "pending" /\ pin'[c].cid = call[c].cid
        /\ pin'[c].expires = call[c].at + PinTtl
    BY <1>8 DEF Reserve, TypeOK
  <2>3. pin'[c] # NoPin
    BY <2>2 DEF NoPin
  <2>4. now' = now /\ InFlight(c)
    BY <1>8 DEF Reserve, InFlight
  <2> QED
    BY <1>2, <2>1, <2>2, <2>3, <2>4
<1>9. CASE Refuse(c) \/ MarkPinned(c) \/ MarkFailed(c) \/ CallDies(c)
  <2>1. call'[c].pc = "ended"
    BY <1>7, <1>9 DEF Refuse, MarkPinned, MarkFailed, CallDies, CallStates
  <2> QED
    BY <2>1 DEF InFlight
<1>10. CASE PutRaw(c)
  <2>1. /\ call'[c].pc = "mark" /\ call'[c].cid = call[c].cid /\ call'[c].at = call[c].at
        /\ call[c].pc = "put"
    BY <1>7, <1>10 DEF PutRaw, CallStates
  <2>2. now' = now /\ pin' = pin /\ InFlight(c)
    BY <1>10 DEF PutRaw, InFlight
  <2> QED
    BY <1>2, <2>1, <2>2
<1>11. CASE CallFails(c)
  <2>1. /\ call'[c].pc = "fail" /\ call'[c].cid = call[c].cid /\ call'[c].at = call[c].at
        /\ call[c].pc \in {"put", "mark"}
    BY <1>7, <1>11 DEF CallFails, CallStates
  <2>2. now' = now /\ InFlight(c)
    BY <1>11 DEF CallFails, InFlight
  <2>3. pin'[c].status = pin[c].status \/ pin'[c].status = "pinned"
    BY <1>11, SetStatusEffect DEF CallFails, Statuses
  <2> QED
    BY <1>2, <1>3, <2>1, <2>2, <2>3 DEF RowStands, ActiveStatus
<1> QED
  BY <1>4, <1>5, <1>6, <1>8, <1>9, <1>10, <1>11 DEF CallStep

-----------------------------------------------------------------------------
(* Content.                                                                *)

\* The content of the store changes by a call that stores its own, or by a
\* janitor that removes that of its row.
LEMMA StoreChange ==
    ASSUME TypeOK, CallInv, JanitorInv, [Next]_vars, NEW cid \in store', cid \notin store
    PROVE  \E c \in Calls : /\ PutRaw(c) \/ CallFails(c)
                            /\ call[c].pc = "put" /\ cid = call[c].cid /\ pin' = pin
<1>1. \E c \in Calls : PutRaw(c) \/ CallFails(c)
  BY DEF Next, CallStep, CleanupStep, CreateChallenge, BeginPin, Reserve, Refuse, MarkPinned,
         MarkFailed, CallDies, StartCleanup, FindExpiredPins, CheckShared, Unpin,
         MarkUnpinned, CleanupFails, Tick, vars
<1> QED
  BY SMTT(30), <1>1 DEF PutRaw, CallFails

\* What answers for a row goes on answering for it, or a janitor marks it and
\* something else answers for both.
LEMMA CoverStands ==
    ASSUME TypeOK, CallInv, JanitorInv, MarkSafe, [Next]_vars,
           NEW c \in Calls, pin[c] # NoPin, pin[c].status # "failed",
           NEW d \in Calls, Covers(d, c), pin[c].cid \in store
    PROVE  \E e \in Calls : Covers(e, c)'
<1>1. pin[d] # NoPin
  BY RowFields DEF Covers
<1>2. /\ pin'[c].cid = pin[c].cid /\ pin'[c].expires = pin[c].expires
      /\ pin'[d].cid = pin[d].cid /\ pin'[d].expires = pin[d].expires
  BY <1>1, RowsStand DEF RowStands
<1>3. CASE pin'[d].status \in {"pending", "pinned", "failed"} /\ pin[d].status # "failed"
  BY <1>2, <1>3 DEF Covers, ActiveStatus
<1>4. CASE pin'[d].status = pin[d].status
  BY <1>2, <1>4 DEF Covers, ActiveStatus
<1>5. CASE \E j \in Janitors : /\ MarkUnpinned(j) /\ d = Current(j)
                               /\ ActiveStatus(d) /\ pin'[d].status = "unpinned"
  <2>1. PICK j \in Janitors : MarkUnpinned(j) /\ d = Current(j)
    BY <1>5
  <2>2. pin[d].cid \in store /\ pin[d].expires > pin[c].expires
    BY <1>5 DEF Covers, ActiveStatus
  <2>3. PICK e \in Calls : Covers(e, d)
    BY <2>1, <2>2 DEF MarkSafe, MarkUnpinned
  <2>4. pin[e] # NoPin
    BY <2>3, RowFields DEF Covers
  <2>5. pin[e].expires \in Nat /\ pin[d].expires \in Nat /\ pin[c].expires \in Nat
    BY <1>1, <2>4, RowFields
  <2>6. e # d
    BY <1>5, <2>3, <2>5 DEF Covers, ActiveStatus
  <2>7. pin'[e] = pin[e]
    BY <1>1, <2>1, <2>6, SetStatusEffect DEF MarkUnpinned, Statuses
  <2>8. Covers(e, c)
    BY <2>2, <2>3, <2>5, Covers(d, c) DEF Covers
  <2> QED
    BY <1>2, <2>7, <2>8 DEF Covers, ActiveStatus
<1> QED
  BY <1>1, <1>3, <1>4, <1>5, StatusChange DEF Reserve, CallInv, ActiveStatus

LEMMA MarkSafeStep ==
    ASSUME TypeOK, CallInv, JanitorInv, MarkSafe, [Next]_vars
    PROVE  MarkSafe'
<1> SUFFICES ASSUME NEW j \in Janitors, janitor'[j].pc = "mark",
                    (pin[Current(j)].cid \in store)'
             PROVE  (\E d \in Calls : Covers(d, Current(j)))'
  BY DEF MarkSafe
<1>1. /\ janitor'[j].todo = janitor[j].todo /\ janitor'[j].at = janitor[j].at
      /\ janitor[j].pc \in {"check", "unpin", "mark"}
      /\ janitor[j].pc = "check" => CheckShared(j)
      /\ janitor[j].pc = "unpin" => Unpin(j)
  <2>1. CASE janitor'[j] = janitor[j]
    BY <2>1
  <2>2. ASSUME janitor'[j] # janitor[j]
        PROVE  CleanupStep(j) \/ CleanupFails(j)
    <3>1. PICK k \in Janitors : CleanupStep(k) \/ CleanupFails(k)
      BY <2>2 DEF Next, CallStep, CreateChallenge, BeginPin, Reserve, Refuse, PutRaw,
                  MarkPinned, MarkFailed, CallFails, CallDies, Tick, vars
    <3>2. \A l \in Janitors \ {k} : janitor'[l] = janitor[l]
      BY <3>1 DEF CleanupStep, StartCleanup, FindExpiredPins, CheckShared, Unpin,
                  MarkUnpinned, CleanupFails, TypeOK
    <3> QED
      BY <2>2, <3>1, <3>2
  <2>3. janitor[j] \in JanitorRows
    BY DEF TypeOK
  <2>4. ASSUME CheckShared(j) \/ Unpin(j)
        PROVE  <1>1
    BY <2>3, <2>4 DEF CheckShared, Unpin, TypeOK, JanitorRows
  <2>5. ~StartCleanup(j) /\ ~FindExpiredPins(j) /\ ~MarkUnpinned(j) /\ ~CleanupFails(j)
    <3>1. ASSUME NEW pc \in {"idle", "find", "check"}, NEW todo,
                 janitor' = [janitor EXCEPT ![j].todo = todo, ![j].pc = pc]
          PROVE  FALSE
      BY <2>3, <3>1 DEF TypeOK, JanitorRows
    <3>2. ~FindExpiredPins(j)
      BY <3>1 DEF FindExpiredPins
    <3>3. ~MarkUnpinned(j)
      BY <3>1 DEF MarkUnpinned
    <3>4. ~StartCleanup(j) /\ ~CleanupFails(j)
      BY DEF StartCleanup, CleanupFails, IdleJanitor, TypeOK
    <3> QED
      BY <3>2, <3>3, <3>4
  <2> QED
    BY <2>1, <2>2, <2>4, <2>5 DEF CleanupStep
<1>2. PICK c \in Calls :
            /\ c = Current(j) /\ c \in janitor[j].todo /\ pin[c] # NoPin
            /\ pin[c].expires <= janitor[j].at /\ pin[c].status # "failed"
  BY <1>1, CurrentIn
<1>3. Current(j)' = c
  <2>1. \A d \in janitor[j].todo : d \in Calls /\ pin[d] # NoPin
    BY DEF TypeOK, JanitorRows, JanitorInv
  <2>2. \A d \in janitor[j].todo : pin'[d].expires = pin[d].expires
    BY <2>1, RowsStand DEF RowStands
  <2> QED
    BY <1>1, <1>2, <2>2, CurrentKept
<1>4. pin'[c].cid = pin[c].cid /\ pin'[c].expires = pin[c].expires
  BY <1>2, RowsStand DEF RowStands
<1>7. ASSUME NEW d \in Calls, Covers(d, c)'
      PROVE  Covers(d, Current(j))'
  BY <1>3, <1>7 DEF Covers
<1>5. CASE pin[c].cid \notin store
  <2>1. PICK d \in Calls : /\ PutRaw(d) \/ CallFails(d)
                           /\ call[d].pc = "put" /\ pin[c].cid = call[d].cid /\ pin' = pin
    BY <1>3, <1>4, <1>5, StoreChange
  <2>2. pin[d].cid = call[d].cid /\ pin[d].status = "pending"
    BY <2>1 DEF CallInv
  <2>3. pin[d].expires > janitor[j].at
    BY <2>1, InFlightNotExpired
  <2>4. pin[d].expires \in Nat /\ pin[c].expires \in Nat /\ janitor[j].at \in Nat
    BY <1>2, <2>1, RowFields DEF CallInv, TypeOK, JanitorRows
  <2>5. Covers(d, c)'
    BY <1>2, <2>1, <2>2, <2>3, <2>4 DEF Covers, ActiveStatus
  <2> QED
    BY <1>7, <2>1, <2>5
<1>6. CASE pin[c].cid \in store
  <2>1. \E d \in Calls : Covers(d, c)
    <3>1. CASE janitor[j].pc = "mark"
      BY <1>2, <1>6, <3>1 DEF MarkSafe
    <3>2. CASE janitor[j].pc = "check"
      <4>1. CheckShared(j)
        BY <1>1, <3>2
      <4>2. HasOtherActivePin(c, janitor[j].at)
        BY <1>2, <4>1 DEF CheckShared, TypeOK, JanitorRows
      <4>3. PICK d \in Calls : /\ ActiveStatus(d) /\ pin[d].cid = pin[c].cid
                               /\ pin[d].expires > janitor[j].at
        BY <4>2 DEF HasOtherActivePin
      <4>4. pin[d].expires \in Nat /\ pin[c].expires \in Nat /\ janitor[j].at \in Nat
        BY <1>2, <4>3, RowFields DEF TypeOK, JanitorRows
      <4> QED
        BY <1>2, <4>3, <4>4 DEF Covers
    <3>3. CASE janitor[j].pc = "unpin"
      <4>1. store' = store \ {pin[c].cid}
        BY <1>1, <1>2, <3>3 DEF Unpin
      <4> QED
        BY <1>3, <1>4, <4>1
    <3> QED
      BY <1>1, <3>1, <3>2, <3>3
  <2>2. \E d \in Calls : Covers(d, c)'
    BY <1>2, <1>6, <2>1, CoverStands
  <2> QED
    BY <1>7, <2>2
<1> QED
  BY <1>5, <1>6

LEMMA NoOrphanStep ==
    ASSUME TypeOK, CallInv, JanitorInv, MarkSafe, NoOrphan, [Next]_vars
    PROVE  NoOrphan'
<1> SUFFICES ASSUME NEW cid \in store'
             PROVE  \E c \in Calls : /\ pin'[c] # NoPin /\ pin'[c].cid = cid
                                     /\ pin'[c].status \in {"pending", "pinned", "failed"}
  BY DEF NoOrphan, Reserved
<1>1. CASE cid \notin store
  <2>1. PICK c \in Calls : call[c].pc = "put" /\ cid = call[c].cid /\ pin' = pin
    BY <1>1, StoreChange
  <2> QED
    BY <2>1 DEF CallInv
<1>2. CASE cid \in store
  <2>1. PICK c \in Calls : /\ pin[c] # NoPin /\ pin[c].cid = cid
                           /\ pin[c].status \in {"pending", "pinned", "failed"}
    BY <1>2 DEF NoOrphan, Reserved
  <2>2. pin'[c] # NoPin /\ pin'[c].cid = cid
    BY <2>1, RowsStand DEF RowStands
  <2>3. CASE pin'[c].status \in {"pending", "pinned", "failed"}
    BY <2>2, <2>3
  <2>4. CASE \E j \in Janitors : MarkUnpinned(j) /\ c = Current(j) /\ ActiveStatus(c)
    <3>1. PICK j \in Janitors : MarkUnpinned(j) /\ c = Current(j)
      BY <2>4
    <3>2. PICK d \in Calls : Covers(d, c)
      BY <1>2, <2>1, <3>1 DEF MarkSafe, MarkUnpinned
    <3>3. pin[d] # NoPin /\ pin[d].expires \in Nat /\ pin[c].expires \in Nat
      BY <2>1, <3>2, RowFields DEF Covers
    <3>4. d # c
      BY <2>4, <3>2, <3>3 DEF Covers, ActiveStatus
    <3>5. pin'[d] = pin[d]
      BY SMTT(30), <3>1, <3>4, SetStatusEffect DEF MarkUnpinned, Statuses
    <3> QED
      BY <2>1, <3>2, <3>3, <3>5 DEF Covers, ActiveStatus
  <2> QED
    BY <2>1, <2>3, <2>4, StatusChange DEF Reserve, CallInv
<1> QED
  BY <1>1, <1>2

-----------------------------------------------------------------------------
(* Challenges and quotas.                                                  *)

LEMMA ChallengeStep ==
    ASSUME TypeOK, CallInv, JanitorInv, ChallengeSpentOnce, [Next]_vars
    PROVE  ChallengeSpentOnce'
<1> DEFINE Spent(c, h) == h # NoChallenge /\ h.used /\ h.wallet = pin[c].wallet
                          /\ h.ip = pin[c].ip
<1>1. ASSUME NEW c \in Calls, pin[c] # NoPin
      PROVE  /\ pin[c].challenge \in Challenges
             /\ Spent(c, challenge[pin[c].challenge])
             /\ \A d \in Calls : pin[d] # NoPin /\ pin[d].challenge = pin[c].challenge => d = c
  BY <1>1, RowFields DEF PinRows, ChallengeSpentOnce, Reserved
<1>2. ASSUME \A c \in Calls : pin[c] = NoPin => pin'[c] = NoPin,
             \A c \in Calls : pin[c] # NoPin =>
                challenge'[pin[c].challenge] = challenge[pin[c].challenge]
      PROVE  ChallengeSpentOnce'
  <2>1. \A c \in Calls : RowStands(c)
    BY RowsStand
  <2> QED
    BY <1>1, <1>2, <2>1 DEF ChallengeSpentOnce, Reserved, RowStands
<1>3. CASE challenge' = challenge /\ \A c \in Calls : ~Reserve(c)
  BY <1>2, <1>3, RowsStand
<1>4. CASE \E h \in Challenges, w \in Wallets, ip \in Ips : CreateChallenge(h, w, ip)
  <2>1. PICK h \in Challenges, w \in Wallets, ip \in Ips : CreateChallenge(h, w, ip)
    BY <1>4
  <2>2. pin' = pin /\ \A g \in Challenges \ {h} : challenge'[g] = challenge[g]
    BY <2>1 DEF CreateChallenge, TypeOK
  <2>3. challenge[h] = NoChallenge
    BY <2>1 DEF CreateChallenge
  <2> QED
    BY <1>1, <1>2, <2>2, <2>3
<1>5. CASE \E j \in Janitors : StartCleanup(j)
  <2>1. PICK j \in Janitors : StartCleanup(j)
    BY <1>5
  <2>2. pin' = pin
    BY <2>1 DEF StartCleanup
  <2>3. \A c \in Calls : pin[c] # NoPin => ~Purged(pin[c].challenge)
    BY DEF Purged, Reserved
  <2>4. \A h \in Challenges : ~Purged(h) => challenge'[h] = challenge[h]
    BY <2>1 DEF StartCleanup
  <2> QED
    BY <1>1, <1>2, <2>2, <2>3, <2>4
<1>6. CASE \E c \in Calls : Reserve(c)
  <2>1. PICK c \in Calls : Reserve(c)
    BY <1>6
  <2>2. call[c] \in CallRows /\ call[c].challenge \in Challenges
    BY <2>1, CallFields DEF Reserve, CallStates, CallRows
  <2> DEFINE g == challenge[call[c].challenge]
  <2>3. /\ g \in ChallengeRows /\ ~g.used /\ g.wallet = call[c].wallet /\ g.ip = call[c].ip
        /\ challenge' = [challenge EXCEPT ![call[c].challenge].used = TRUE]
    BY <2>1, <2>2 DEF Reserve, Accepted, TypeOK
  <2>4. challenge'[call[c].challenge] = [g EXCEPT !.used = TRUE]
    BY <2>2, <2>3 DEF TypeOK
  <2>5. /\ challenge'[call[c].challenge] \in ChallengeRows
        /\ challenge'[call[c].challenge].used
        /\ challenge'[call[c].challenge].wallet = call[c].wallet
        /\ challenge'[call[c].challenge].ip = call[c].ip
    <3> HIDE DEF g
    <3>1. [g EXCEPT !.used = TRUE] \in ChallengeRows
      BY ONLY <2>3 DEF ChallengeRows
    <3>2. /\ [g EXCEPT !.used = TRUE].used /\ [g EXCEPT !.used = TRUE].wallet = g.wallet
          /\ [g EXCEPT !.used = TRUE].ip = g.ip
      BY ONLY <2>3 DEF ChallengeRows
    <3> QED BY ONLY <2>3, <2>4, <3>1, <3>2
  <2>6. /\ pin'[c].challenge = call[c].challenge /\ pin'[c].wallet = call[c].wallet
        /\ pin'[c].ip = call[c].ip
        /\ \A d \in Calls \ {c} : pin'[d] = pin[d]
    BY <2>1 DEF Reserve, TypeOK
  <2>7. \A d \in Calls \ {c} : pin[d] # NoPin => pin[d].challenge # call[c].challenge
    BY <1>1, <2>3
  <2>8. \A h \in Challenges \ {call[c].challenge} : challenge'[h] = challenge[h]
    BY <2>3 DEF TypeOK
  <2>9. NoChallenge \notin ChallengeRows
    BY DEF NoChallenge, ChallengeRows
  <2> SUFFICES ASSUME NEW d \in Calls, pin'[d] # NoPin
               PROVE  ChallengeSpentOnce!(d)'
    BY DEF ChallengeSpentOnce, Reserved
  <2>10. CASE d = c
    BY <2>5, <2>6, <2>7, <2>9, <2>10 DEF Reserved
  <2>11. CASE d # c
    BY <1>1, <2>6, <2>7, <2>8, <2>11 DEF Reserved
  <2> QED
    BY <2>10, <2>11
<1> QED
  BY <1>3, <1>4, <1>5, <1>6
     DEF Next, CallStep, CleanupStep, CreateChallenge, BeginPin, Reserve, Refuse, PutRaw,
         MarkPinned, MarkFailed, CallFails, CallDies, StartCleanup, FindExpiredPins,
         CheckShared, Unpin, MarkUnpinned, CleanupFails, Tick, vars

\* A set of which fewer than the limit are counted stays in the limit with one more.
LEMMA OneMore ==
    ASSUME NEW S, IsFiniteSet(S), NEW T, T \subseteq S, Cardinality(S) < DailyLimit,
           NEW U, NEW x, U \subseteq T \cup {x}
    PROVE  Cardinality(U) <= DailyLimit
<1>1. IsFiniteSet(T) /\ Cardinality(T) <= Cardinality(S)
  BY FS_Subset
<1>2. IsFiniteSet(T \cup {x}) /\ Cardinality(T \cup {x}) <= Cardinality(T) + 1
  <2>1. Cardinality(T) \in Nat
    BY <1>1, FS_CardinalityType
  <2> QED
    BY SMTT(30), <1>1, <2>1, FS_AddElement
<1>3. Cardinality(U) <= Cardinality(T \cup {x})
  BY <1>2, FS_Subset
<1>4. /\ Cardinality(S) \in Nat /\ Cardinality(T) \in Nat /\ Cardinality(T \cup {x}) \in Nat
      /\ Cardinality(U) \in Nat
  BY <1>1, <1>2, FS_Subset, FS_CardinalityType
<1> QED
  BY <1>1, <1>2, <1>3, <1>4

LEMMA QuotaStep ==
    ASSUME TypeOK, CallInv, JanitorInv, QuotaInv, [Next]_vars
    PROVE  QuotaInv'
<1>1. \A c \in Calls : RowStands(c)
  BY RowsStand
<1>2. ASSUME NEW c \in Calls, pin[c] # NoPin
      PROVE  pin'[c] # NoPin /\ pin'[c].wallet = pin[c].wallet /\ pin'[c].ip = pin[c].ip
             /\ pin'[c].created = pin[c].created
  BY <1>1, <1>2 DEF RowStands
<1>3. CASE \A c \in Calls : pin[c] = NoPin => pin'[c] = NoPin
  <2>1. Reserved' = Reserved
    BY <1>2, <1>3 DEF Reserved
  <2>2. \A w \in Wallets, t \in Nat : OfWallet(w, t)' = OfWallet(w, t)
    BY <1>2, <2>1 DEF OfWallet, Reserved
  <2>3. \A ip \in Ips, t \in Nat : OfIp(ip, t)' = OfIp(ip, t)
    BY <1>2, <2>1 DEF OfIp, Reserved
  <2> QED
    BY <2>1, <2>2, <2>3 DEF QuotaInv
<1>4. ASSUME NEW c \in Calls, Reserve(c)
      PROVE  QuotaInv'
  <2>1. call[c] \in CallRows /\ call[c].at \in Nat
    BY <1>4, CallFields DEF Reserve, CallStates, CallRows
  <2>2. /\ pin'[c].wallet = call[c].wallet /\ pin'[c].ip = call[c].ip
        /\ pin'[c].created = call[c].at
        /\ \A d \in Calls \ {c} : pin'[d] = pin[d]
    BY <1>4 DEF Reserve, TypeOK
  <2>3. Reserved' \subseteq Reserved \cup {c}
    BY <2>2 DEF Reserved
  <2>4. IsFiniteSet(Reserved')
    <3>1. IsFiniteSet(Reserved \cup {c})
      BY FS_AddElement DEF QuotaInv
    <3> QED
      BY <2>3, <3>1, FS_Subset
  <2>5. pin[c] = NoPin
    BY <1>4 DEF Reserve, CallInv
  <2>6. \A d \in Reserved : d # c /\ d \in Calls /\ pin'[d] = pin[d] /\ pin[d].created \in Nat
    BY <2>2, <2>5, RowFields DEF Reserved
  <2>7. ASSUME NEW w \in Wallets, NEW t \in Nat
        PROVE  Cardinality(OfWallet(w, t)') <= DailyLimit
    <3>1. OfWallet(w, t)' \subseteq OfWallet(w, t) \cup {c}
      BY <2>3, <2>6 DEF OfWallet
    <3>2. CASE c \in OfWallet(w, t)'
      <4> DEFINE counted == {p \in {p \in Reserved : pin[p].wallet = call[c].wallet} :
                                pin[p].created >= call[c].at - Day}
      <4>1. call[c].at \in t .. t + Day /\ w = call[c].wallet
        BY <2>2, <3>2 DEF OfWallet
      <4>2. OfWallet(w, t) \subseteq counted
        BY <2>1, <2>6, <4>1 DEF OfWallet
      <4>3. Cardinality(counted) < DailyLimit
        BY <1>4 DEF Reserve, Accepted, QuotaUsed
      <4>4. IsFiniteSet(counted)
        BY FS_Subset DEF QuotaInv
      <4> HIDE DEF counted
      <4> QED
        BY <3>1, <4>2, <4>3, <4>4, OneMore
    <3>3. CASE c \notin OfWallet(w, t)'
      <4>1. OfWallet(w, t)' \subseteq OfWallet(w, t)
        BY <3>1, <3>3
      <4>2. IsFiniteSet(OfWallet(w, t))
        BY FS_Subset DEF QuotaInv, OfWallet
      <4>3. Cardinality(OfWallet(w, t)') <= Cardinality(OfWallet(w, t))
        BY <4>1, <4>2, FS_Subset
      <4>4. Cardinality(OfWallet(w, t)') \in Nat /\ Cardinality(OfWallet(w, t)) \in Nat
        BY <4>1, <4>2, FS_Subset, FS_CardinalityType
      <4> QED
        BY <4>3, <4>4 DEF QuotaInv
    <3> QED
      BY <3>2, <3>3
  <2>8. ASSUME NEW ip \in Ips, NEW t \in Nat
        PROVE  Cardinality(OfIp(ip, t)') <= DailyLimit
    <3>1. OfIp(ip, t)' \subseteq OfIp(ip, t) \cup {c}
      BY <2>3, <2>6 DEF OfIp
    <3>2. CASE c \in OfIp(ip, t)'
      <4> DEFINE counted == {p \in {p \in Reserved : pin[p].ip = call[c].ip} :
                                pin[p].created >= call[c].at - Day}
      <4>1. call[c].at \in t .. t + Day /\ ip = call[c].ip
        BY <2>2, <3>2 DEF OfIp
      <4>2. OfIp(ip, t) \subseteq counted
        BY <2>1, <2>6, <4>1 DEF OfIp
      <4>3. Cardinality(counted) < DailyLimit
        BY <1>4 DEF Reserve, Accepted, QuotaUsed
      <4>4. IsFiniteSet(counted)
        BY FS_Subset DEF QuotaInv
      <4> HIDE DEF counted
      <4> QED
        BY <3>1, <4>2, <4>3, <4>4, OneMore
    <3>3. CASE c \notin OfIp(ip, t)'
      <4>1. OfIp(ip, t)' \subseteq OfIp(ip, t)
        BY <3>1, <3>3
      <4>2. IsFiniteSet(OfIp(ip, t))
        BY FS_Subset DEF QuotaInv, OfIp
      <4>3. Cardinality(OfIp(ip, t)') <= Cardinality(OfIp(ip, t))
        BY <4>1, <4>2, FS_Subset
      <4>4. Cardinality(OfIp(ip, t)') \in Nat /\ Cardinality(OfIp(ip, t)) \in Nat
        BY <4>1, <4>2, FS_Subset, FS_CardinalityType
      <4> QED
        BY <4>3, <4>4 DEF QuotaInv
    <3> QED
      BY <3>2, <3>3
  <2> QED
    BY <2>4, <2>7, <2>8 DEF QuotaInv
<1> QED
  BY <1>3, <1>4, RowsStand

\* The pins of a window that starts with a pin are those of a window.
LEMMA QuotaFollows ==
    ASSUME TypeOK, QuotaInv
    PROVE  QuotaHolds
<1> SUFFICES ASSUME NEW c \in Reserved
             PROVE  QuotaHolds!(c)
  BY DEF QuotaHolds
<1>1. pin[c].created \in Nat
  BY RowFields DEF Reserved
<1>2. \A w \in Wallets :
          {d \in {d \in Reserved : pin[d].created \in pin[c].created .. pin[c].created + Day} :
              pin[d].wallet = w} = OfWallet(w, pin[c].created)
  BY DEF OfWallet
<1>3. \A ip \in Ips :
          {d \in {d \in Reserved : pin[d].created \in pin[c].created .. pin[c].created + Day} :
              pin[d].ip = ip} = OfIp(ip, pin[c].created)
  BY DEF OfIp
<1> QED
  BY <1>1, <1>2, <1>3 DEF QuotaInv

-----------------------------------------------------------------------------
(* The theorems.                                                           *)

LEMMA IndInit == Init => IndInv
<1> SUFFICES ASSUME Init
             PROVE  IndInv
  OBVIOUS
<1>1. \A c \in Calls : pin[c] = NoPin /\ call[c] = NoCall
  BY DEF Init
<1>2. Reserved = {}
  BY <1>1 DEF Reserved
<1>3. CallInv
  BY <1>1 DEF CallInv, NoCall, InFlight
<1>4. JanitorInv /\ MarkSafe
  BY DEF Init, JanitorInv, MarkSafe, IdleJanitor
<1>5. NoOrphan /\ ChallengeSpentOnce
  BY <1>2 DEF Init, NoOrphan, ChallengeSpentOnce
<1>6. \A w, t : OfWallet(w, t) = {} /\ OfIp(w, t) = {}
  BY <1>2 DEF OfWallet, OfIp
<1>7. QuotaInv
  BY <1>2, <1>6, FS_EmptySet DEF QuotaInv
<1> QED
  BY <1>3, <1>4, <1>5, <1>7, TypeInit DEF IndInv

LEMMA IndStep == IndInv /\ [Next]_vars => IndInv'
BY TypeStep, CallStepInv, JanitorStep, MarkSafeStep, NoOrphanStep, ChallengeStep, QuotaStep
   DEF IndInv

LEMMA Inductive == Spec => []IndInv
BY IndInit, IndStep, PTL DEF Spec

\* Every challenge pays for at most one pin, of the wallet and address it was made for,
\* and no wallet or address has more pins in any day than the limit, for any number of
\* calls, in whatever order they take their time and commit.
THEOREM PinsAreAuthorised == Spec => []PinsAuthorised
<1>1. IndInv => PinsAuthorised
  BY QuotaFollows DEF IndInv, PinsAuthorised
<1> QED
  BY <1>1, Inductive, PTL

\* Whatever the overlapping janitors and the calls do, and wherever they are cut off,
\* content in the store has a row that accounts for it. RequestTime < PinTtl is what the
\* proof rests on: no janitor finds the row of a call that is still in flight.
THEOREM StoreIsAccounted == Spec => []NoOrphan
<1>1. IndInv => NoOrphan
  BY DEF IndInv
<1> QED
  BY <1>1, Inductive, PTL

\* demo_pins only grows, and nothing but the status of a row ever changes: what the quota
\* and the janitor read of a row stays what reservePin wrote.
THEOREM RowsOnlySettle == Spec => [][\A c \in Calls : RowStands(c)]_vars
<1>1. IndInv /\ [Next]_vars => [\A c \in Calls : RowStands(c)]_vars
  BY RowsStand DEF IndInv
<1> QED
  BY <1>1, Inductive, PTL DEF Spec

=============================================================================
