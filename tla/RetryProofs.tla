---------------------------- MODULE RetryProofs ----------------------------
(***************************************************************************)
(* A call of runSerializableTransaction is one atomic step, for any number *)
(* of callers, any quota, any bound on the attempts and any depth of the   *)
(* error chain.                                                            *)
(*                                                                         *)
(* The argument: who is in the log has committed and will not run again,   *)
(* because only a lost connection leads from there to the catch block and  *)
(* that is not retried; who is about to commit has read a log without      *)
(* itself that is not full; and the place it will return is the one it     *)
(* takes in the log. Attempts are bounded because only a call that has one *)
(* left goes to sleep (Bounded).                                           *)
(***************************************************************************)
EXTENDS SerializableRetry, TLAPS

InLog(c) == \E i \in 1..Len(log) : log[i] = c

Pcs == {"idle", "begin", "unit", "commit", "committed", "catch", "sleep",
        "returned", "threw"}

Codes == {"40001", "40P01", "ECONNRESET", ""}

Calls == [pc : Pcs, attempt : Nat, snap : Seq(Callers),
          err : [code : Codes, wrapped : Nat]]

Types == log \in Seq(Callers) /\ call \in [Callers -> Calls]

\* Whoever is in the log has committed.
LogSettled ==
    \A c \in Callers : InLog(c) =>
        \/ call[c].pc \in {"committed", "returned", "threw"}
        \/ call[c].pc = "catch" /\ call[c].err.code = ConnectionLost

\* The snapshot of a unit that goes on to commit has room.
SnapshotFits ==
    \A c \in Callers : call[c].pc = "commit" => Len(call[c].snap) < Quota

\* The place of a committed call.
PlaceTaken ==
    \A c \in Callers : call[c].pc \in {"committed", "returned"} =>
        /\ Len(call[c].snap) + 1 \in 1..Len(log)
        /\ log[Len(call[c].snap) + 1] = c

IndInv == Types /\ LogSettled /\ SnapshotFits /\ PlaceTaken

\* The code of a lost connection is not among those that are retried.
LEMMA ConnectionNotRetried ==
    ASSUME NEW err, err.code = ConnectionLost
    PROVE  ~Retryable(err)
BY DEF Retryable, DatabaseErrorCode, Conflict, ConnectionLost

LEMMA EmptyLog == <<>> \in Seq(Callers) /\ Len(<<>>) = 0
OBVIOUS

LEMMA IdleTyped == Idle \in Calls
<1>1. NoError \in [code : Codes, wrapped : Nat]
  BY DEF NoError, Error, Codes
<1> QED
  BY <1>1, EmptyLog DEF Idle, Calls, Pcs

LEMMA InitInv == Init => IndInv
<1> SUFFICES ASSUME Init PROVE IndInv
  OBVIOUS
<1>1. Idle \in Calls
  BY IdleTyped
<1>2. Types
  BY <1>1 DEF Types, Init
<1>3. \A c \in Callers : ~InLog(c)
  <2>1. Len(log) = 0
    BY EmptyLog DEF Init
  <2> QED
    BY <2>1 DEF InLog
<1>4. \A c \in Callers : call[c].pc = "idle"
  BY DEF Init, Idle
<1> QED
  BY <1>2, <1>3, <1>4 DEF IndInv, LogSettled, SnapshotFits, PlaceTaken

\* A step that changes one call and not the log.
LEMMA CallStep ==
    ASSUME IndInv, NEW c \in Callers, NEW k \in Calls,
           log' = log, call' = [call EXCEPT ![c] = k],
           k.pc = "commit" => Len(k.snap) < Quota,
           k.pc \in {"committed", "returned"} =>
              call[c].pc \in {"committed", "returned"} /\ k.snap = call[c].snap,
           \/ call[c].pc \notin {"committed", "returned", "threw", "catch"}
           \/ k.pc \in {"committed", "returned", "threw"}
           \/ k.pc = "catch" /\ k.err.code = ConnectionLost
           \/ call[c].pc = "catch" /\ call[c].err.code # ConnectionLost
    PROVE  IndInv'
<1>1. Types'
  BY DEF IndInv, Types
<1>2. /\ call'[c] = k
      /\ \A d \in Callers : d # c => call'[d] = call[d]
  BY DEF IndInv, Types
<1>3. \A d \in Callers : InLog(d)' <=> InLog(d)
  BY DEF InLog
<1>4. LogSettled'
  BY <1>2, <1>3 DEF IndInv, LogSettled
<1>5. SnapshotFits'
  BY <1>2 DEF IndInv, SnapshotFits
<1>6. PlaceTaken'
  BY <1>2 DEF IndInv, PlaceTaken
<1> QED
  BY <1>1, <1>4, <1>5, <1>6 DEF IndInv

\* The unprimed facts of a call that a step reads.
LEMMA CallTyped ==
    ASSUME IndInv, NEW c \in Callers
    PROVE  call[c] \in Calls
BY DEF IndInv, Types

LEMMA FailsTyped ==
    ASSUME IndInv, NEW c \in Callers, NEW code \in Codes, NEW wrapped \in Nat,
           call[c].pc \in {"begin", "unit", "commit"} \/ (call[c].pc = "committed" /\ code = ConnectionLost),
           Fails(c, Error(code, wrapped))
    PROVE  IndInv'
<1> DEFINE k == [call[c] EXCEPT !.pc = "catch", !.err = Error(code, wrapped)]
<1>1. call[c] \in Calls
  BY CallTyped
<1>2. k \in Calls /\ k.pc = "catch" /\ k.err.code = code
  BY <1>1 DEF Calls, Pcs, Error
<1>3. call' = [call EXCEPT ![c] = k] /\ log' = log
  BY DEF Fails, IndInv, Types, Calls
<1> HIDE DEF k
<1> QED
  BY <1>2, <1>3, CallStep

LEMMA CommitInv ==
    ASSUME IndInv, NEW c \in Callers, Commit(c)
    PROVE  IndInv'
<1> DEFINE k == [call[c] EXCEPT !.pc = "committed"]
<1>0. call[c] \in Calls /\ log \in Seq(Callers)
  BY DEF IndInv, Types
<1>1. k \in Calls /\ k.pc = "committed" /\ k.snap = log
  BY <1>0 DEF Calls, Pcs, Commit
<1>2. call' = [call EXCEPT ![c] = k]
  BY DEF Commit, IndInv, Types, Calls
<1> HIDE DEF k
<1>3. /\ call'[c] = k
      /\ \A d \in Callers : d # c => call'[d] = call[d]
  BY <1>2 DEF IndInv, Types
<1>4. /\ log' \in Seq(Callers)
      /\ Len(log') = Len(log) + 1
      /\ log'[Len(log) + 1] = c
      /\ \A i \in 1..Len(log) : log'[i] = log[i]
  BY <1>0 DEF Commit
<1>5. Types'
  BY <1>1, <1>2, <1>4 DEF IndInv, Types
<1>6. \A d \in Callers : d # c => (InLog(d)' => InLog(d))
  <2> SUFFICES ASSUME NEW d \in Callers, d # c, NEW i \in 1..Len(log'), log'[i] = d
               PROVE  \E j \in 1..Len(log) : log[j] = d
    BY DEF InLog
  <2>1. i \in 1..Len(log)
    BY <1>0, <1>4
  <2> QED
    BY <2>1, <1>4
<1>7. LogSettled'
  BY <1>1, <1>3, <1>6 DEF IndInv, LogSettled
<1>8. SnapshotFits'
  BY <1>1, <1>3 DEF IndInv, SnapshotFits
<1>9. PlaceTaken'
  <2> SUFFICES ASSUME NEW d \in Callers, call'[d].pc \in {"committed", "returned"}
               PROVE  /\ Len(call'[d].snap) + 1 \in 1..Len(log')
                      /\ log'[Len(call'[d].snap) + 1] = d
    BY DEF PlaceTaken
  <2>1. CASE d = c
    BY <2>1, <1>0, <1>1, <1>3, <1>4
  <2>2. CASE d # c
    <3>1. /\ Len(call[d].snap) + 1 \in 1..Len(log)
          /\ log[Len(call[d].snap) + 1] = d
      BY <2>2, <1>3 DEF IndInv, PlaceTaken
    <3> QED
      BY <3>1, <2>2, <1>0, <1>3, <1>4
  <2> QED
    BY <2>1, <2>2
<1> QED
  BY <1>5, <1>7, <1>8, <1>9 DEF IndInv

\* Every step preserves the invariant.
LEMMA StepInv == IndInv /\ [Next]_vars => IndInv'
<1> SUFFICES ASSUME IndInv, [Next]_vars PROVE IndInv'
  OBVIOUS
<1>0. CASE UNCHANGED vars
  BY <1>0 DEF vars, IndInv, Types, LogSettled, SnapshotFits, PlaceTaken, InLog
<1>1. ASSUME NEW c \in Callers, Start(c) PROVE IndInv'
  <2> DEFINE k == [Idle EXCEPT !.pc = "begin", !.attempt = 1]
  <2>1. k \in Calls /\ k.pc = "begin"
    BY IdleTyped DEF Calls, Pcs, Idle
  <2>2. call[c].pc = "idle" /\ call' = [call EXCEPT ![c] = k] /\ log' = log
    BY <1>1 DEF Start
  <2> HIDE DEF k
  <2> QED
    BY <2>1, <2>2, CallStep
<1>2. ASSUME NEW c \in Callers, Begin(c) PROVE IndInv'
  <2> DEFINE k == [call[c] EXCEPT !.pc = "unit", !.snap = log]
  <2>1. k \in Calls /\ k.pc = "unit"
    BY CallTyped DEF Calls, Pcs, IndInv, Types
  <2>2. call[c].pc = "begin" /\ call' = [call EXCEPT ![c] = k] /\ log' = log
    BY <1>2, CallTyped DEF Begin, Calls, IndInv, Types
  <2> HIDE DEF k
  <2> QED
    BY <2>1, <2>2, CallStep
<1>3. ASSUME NEW c \in Callers, Unit(c) PROVE IndInv'
  <2>1. CASE Len(call[c].snap) >= Quota
    <3>1. call[c].pc = "unit" /\ Fails(c, Error("", 0))
      BY <2>1, <1>3 DEF Unit, NoError
    <3>2. "" \in Codes
      BY DEF Codes
    <3> QED
      BY <3>1, <3>2, FailsTyped
  <2>2. CASE ~(Len(call[c].snap) >= Quota)
    <3> DEFINE k == [call[c] EXCEPT !.pc = "commit"]
    <3>0. call[c] \in Calls
      BY CallTyped
    <3>1. k \in Calls /\ k.pc = "commit" /\ k.snap = call[c].snap
      BY <3>0 DEF Calls, Pcs
    <3>2. Len(k.snap) < Quota
      BY <2>2, <3>0, <3>1, RetryAssumption DEF Calls
    <3>3. call[c].pc = "unit" /\ call' = [call EXCEPT ![c] = k] /\ log' = log
      BY <1>3, <2>2 DEF Unit, IndInv, Types, Calls
    <3> HIDE DEF k
    <3> QED
      BY <3>1, <3>2, <3>3, CallStep
  <2> QED
    BY <2>1, <2>2
<1>4. ASSUME NEW c \in Callers, StatementFails(c) PROVE IndInv'
  <2>1. PICK wrapped \in 0..Depth, code \in Conflict \cup {ConnectionLost} :
              Fails(c, Error(code, wrapped))
    BY <1>4 DEF StatementFails
  <2>2. wrapped \in Nat
    BY RetryAssumption
  <2>4. code \in Codes
    BY DEF Conflict, ConnectionLost, Codes
  <2>3. call[c].pc \in {"begin", "unit", "commit"}
    BY <1>4 DEF StatementFails
  <2> QED
    BY <2>1, <2>2, <2>3, <2>4, FailsTyped
<1>5. ASSUME NEW c \in Callers, CommitConflicts(c) PROVE IndInv'
  <2>1. PICK wrapped \in 0..Depth : Fails(c, Error("40001", wrapped))
    BY <1>5 DEF CommitConflicts
  <2>2. wrapped \in Nat /\ "40001" \in Codes
    BY RetryAssumption DEF Codes
  <2>3. call[c].pc = "commit"
    BY <1>5 DEF CommitConflicts
  <2> QED
    BY <2>1, <2>2, <2>3, FailsTyped
<1>6. ASSUME NEW c \in Callers, Acknowledged(c) PROVE IndInv'
  <2> DEFINE k == [call[c] EXCEPT !.pc = "returned"]
  <2>0. call[c] \in Calls
    BY CallTyped
  <2>1. k \in Calls /\ k.pc = "returned" /\ k.snap = call[c].snap
    BY <2>0 DEF Calls, Pcs
  <2>2. call[c].pc = "committed" /\ call' = [call EXCEPT ![c] = k] /\ log' = log
    BY <1>6 DEF Acknowledged, IndInv, Types, Calls
  <2> HIDE DEF k
  <2> QED
    BY <2>1, <2>2, CallStep
<1>7. ASSUME NEW c \in Callers, AcknowledgementLost(c) PROVE IndInv'
  <2>1. PICK wrapped \in 0..Depth : Fails(c, Error(ConnectionLost, wrapped))
    BY <1>7 DEF AcknowledgementLost
  <2>2. wrapped \in Nat /\ ConnectionLost \in Codes
    BY RetryAssumption DEF ConnectionLost, Codes
  <2>3. call[c].pc = "committed"
    BY <1>7 DEF AcknowledgementLost
  <2> QED
    BY <2>1, <2>2, <2>3, FailsTyped
<1>8. ASSUME NEW c \in Callers, Catch(c) PROVE IndInv'
  <2> DEFINE pc == IF ~Retryable(call[c].err) \/ Exhausted(c) THEN "threw" ELSE "sleep"
             k  == [call[c] EXCEPT !.pc = pc]
  <2>0. call[c] \in Calls /\ call[c].pc = "catch"
    BY <1>8, CallTyped DEF Catch
  <2>1. k \in Calls /\ k.pc = pc
    BY <2>0 DEF Calls, Pcs
  <2>2. call' = [call EXCEPT ![c] = k] /\ log' = log
    BY <1>8 DEF Catch, IndInv, Types, Calls
  <2>3. call[c].err.code = ConnectionLost => pc = "threw"
    BY ConnectionNotRetried
  <2>4. pc \in {"threw", "sleep"}
    OBVIOUS
  <2> HIDE DEF k, pc
  <2> QED
    BY <2>0, <2>1, <2>2, <2>3, <2>4, CallStep
<1>9. ASSUME NEW c \in Callers, Sleep(c) PROVE IndInv'
  <2> DEFINE k == [Idle EXCEPT !.pc = "begin", !.attempt = call[c].attempt + 1]
  <2>0. call[c].attempt + 1 \in Nat
    BY CallTyped DEF Calls
  <2>1. k \in Calls /\ k.pc = "begin"
    BY <2>0, IdleTyped DEF Calls, Pcs, Idle
  <2>2. call[c].pc = "sleep" /\ call' = [call EXCEPT ![c] = k] /\ log' = log
    BY <1>9 DEF Sleep
  <2> HIDE DEF k
  <2> QED
    BY <2>1, <2>2, CallStep
<1> QED
  BY <1>0, <1>1, <1>2, <1>3, <1>4, <1>5, <1>6, <1>7, <1>8, <1>9, CommitInv DEF Next, Step

\* The invariant holds of every reachable state of the retry loop.
THEOREM RetryInvariant == Spec => []IndInv
<1> QED
  BY InitInv, StepInv, PTL DEF Spec

-----------------------------------------------------------------------------
(* The refinement.                                                          *)

OutBar == [c \in Callers |-> Standing(call[c])]
ValueBar == [c \in Callers |-> Place(call[c])]

\* A step of one call changes the abstract variables at that call only.
LEMMA BarStep ==
    ASSUME IndInv, NEW c \in Callers, NEW k, call' = [call EXCEPT ![c] = k]
    PROVE  /\ OutBar' = [OutBar EXCEPT ![c] = Standing(k)]
           /\ ValueBar' = [ValueBar EXCEPT ![c] = Place(k)]
           /\ OutBar[c] = Standing(call[c]) /\ ValueBar[c] = Place(call[c])
<1>1. /\ call'[c] = k
      /\ \A d \in Callers : d # c => call'[d] = call[d]
  BY DEF IndInv, Types
<1>2. /\ OutBar' = [d \in Callers |-> Standing(call'[d])]
      /\ ValueBar' = [d \in Callers |-> Place(call'[d])]
  BY DEF OutBar, ValueBar, Standing, Place
<1>3. OutBar' = [OutBar EXCEPT ![c] = Standing(k)]
  <2>1. DOMAIN OutBar = Callers /\ \A d \in Callers : OutBar[d] = Standing(call[d])
    BY DEF OutBar
  <2>2. ASSUME NEW d \in Callers
        PROVE  Standing(call'[d]) = IF d = c THEN Standing(k) ELSE OutBar[d]
    BY <1>1, <2>1
  <2>3. [OutBar EXCEPT ![c] = Standing(k)]
          = [d \in Callers |-> IF d = c THEN Standing(k) ELSE OutBar[d]]
    BY <2>1 DEF OutBar
  <2> QED
    BY <1>2, <2>2, <2>3
<1>4. ValueBar' = [ValueBar EXCEPT ![c] = Place(k)]
  <2>1. DOMAIN ValueBar = Callers /\ \A d \in Callers : ValueBar[d] = Place(call[d])
    BY DEF ValueBar
  <2>2. ASSUME NEW d \in Callers
        PROVE  Place(call'[d]) = IF d = c THEN Place(k) ELSE ValueBar[d]
    BY <1>1, <2>1
  <2>3. [ValueBar EXCEPT ![c] = Place(k)]
          = [d \in Callers |-> IF d = c THEN Place(k) ELSE ValueBar[d]]
    BY <2>1 DEF ValueBar
  <2> QED
    BY <1>2, <2>2, <2>3
<1>5. OutBar[c] = Standing(call[c]) /\ ValueBar[c] = Place(call[c])
  BY DEF OutBar, ValueBar
<1> QED
  BY <1>3, <1>4, <1>5

\* A step between two states in which the call runs is not seen.
LEMMA Unseen ==
    ASSUME IndInv, NEW c \in Callers, NEW k, call' = [call EXCEPT ![c] = k], log' = log,
           call[c].pc \notin {"idle", "returned", "threw"},
           k.pc \notin {"idle", "returned", "threw"}
    PROVE  log' = log /\ OutBar' = OutBar /\ ValueBar' = ValueBar
<1>1. /\ Standing(k) = Standing(call[c])
      /\ Place(k) = Place(call[c])
  BY DEF Standing, Place
<1>2. /\ [OutBar EXCEPT ![c] = OutBar[c]] = OutBar
      /\ [ValueBar EXCEPT ![c] = ValueBar[c]] = ValueBar
  BY DEF OutBar, ValueBar
<1>3. /\ OutBar' = [OutBar EXCEPT ![c] = Standing(k)]
      /\ ValueBar' = [ValueBar EXCEPT ![c] = Place(k)]
      /\ OutBar[c] = Standing(call[c]) /\ ValueBar[c] = Place(call[c])
  BY BarStep
<1> QED
  BY <1>1, <1>2, <1>3

\* Failures are not seen before they are thrown.
LEMMA FailureUnseen ==
    ASSUME IndInv, NEW c \in Callers, NEW err, Fails(c, err),
           call[c].pc \notin {"idle", "returned", "threw"}
    PROVE  log' = log /\ OutBar' = OutBar /\ ValueBar' = ValueBar
<1> DEFINE k == [call[c] EXCEPT !.pc = "catch", !.err = err]
<1>1. call[c] \in Calls
  BY CallTyped
<1>2. k.pc = "catch"
  BY <1>1 DEF Calls
<1>3. call' = [call EXCEPT ![c] = k] /\ log' = log
  BY DEF Fails, IndInv, Types, Calls
<1> HIDE DEF k
<1> QED
  BY <1>2, <1>3, Unseen

\* A commit is the abstract Apply.
LEMMA CommitApplies ==
    ASSUME IndInv, NEW c \in Callers, Commit(c)
    PROVE  Atomic!Apply(c)
<1> DEFINE k == [call[c] EXCEPT !.pc = "committed"]
<1>0. call[c] \in Calls /\ log \in Seq(Callers)
  BY DEF IndInv, Types
<1>1. k.pc = "committed" /\ call[c].pc = "commit"
  BY <1>0 DEF Calls, Commit
<1>2. call' = [call EXCEPT ![c] = k]
  BY DEF Commit, IndInv, Types, Calls
<1> HIDE DEF k
<1>3. /\ Standing(k) = "running" /\ Standing(call[c]) = "running"
      /\ Place(k) = 0 /\ Place(call[c]) = 0
  BY <1>1 DEF Standing, Place
<1>4. /\ [OutBar EXCEPT ![c] = OutBar[c]] = OutBar
      /\ [ValueBar EXCEPT ![c] = ValueBar[c]] = ValueBar
  BY DEF OutBar, ValueBar
<1>9. /\ OutBar' = [OutBar EXCEPT ![c] = Standing(k)]
      /\ ValueBar' = [ValueBar EXCEPT ![c] = Place(k)]
      /\ OutBar[c] = Standing(call[c]) /\ ValueBar[c] = Place(call[c])
  BY <1>2, BarStep
<1>5. OutBar' = OutBar /\ ValueBar' = ValueBar /\ OutBar[c] = "running"
  BY <1>3, <1>4, <1>9
<1>6. ~Atomic!Admitted(c)
  BY <1>1 DEF IndInv, LogSettled, InLog, Atomic!Admitted
<1>7. Len(log) < Quota
  BY <1>1 DEF IndInv, SnapshotFits, Commit
<1>8. log' = Append(log, c)
  BY DEF Commit
<1> QED
  BY <1>5, <1>6, <1>7, <1>8 DEF Atomic!Apply, OutBar, ValueBar

\* An acknowledgement is the abstract Return, with the place in the log.
LEMMA AcknowledgedReturns ==
    ASSUME IndInv, NEW c \in Callers, Acknowledged(c)
    PROVE  Atomic!Return(c)
<1> DEFINE k == [call[c] EXCEPT !.pc = "returned"]
           i == Len(call[c].snap) + 1
<1>0. call[c] \in Calls
  BY CallTyped
<1>1. k.pc = "returned" /\ k.snap = call[c].snap /\ call[c].pc = "committed"
  BY <1>0 DEF Calls, Acknowledged
<1>2. call' = [call EXCEPT ![c] = k] /\ log' = log
  BY DEF Acknowledged, IndInv, Types, Calls
<1>3. i \in 1..Len(log) /\ log[i] = c
  BY <1>1 DEF IndInv, PlaceTaken
<1> HIDE DEF k
<1>4. Standing(k) = "returned" /\ Place(k) = i /\ Standing(call[c]) = "running"
  BY <1>1 DEF Standing, Place
<1> HIDE DEF i
<1>6. /\ OutBar' = [OutBar EXCEPT ![c] = Standing(k)]
      /\ ValueBar' = [ValueBar EXCEPT ![c] = Place(k)]
      /\ OutBar[c] = Standing(call[c]) /\ ValueBar[c] = Place(call[c])
  BY <1>2, BarStep
<1>5. /\ OutBar' = [OutBar EXCEPT ![c] = "returned"]
      /\ ValueBar' = [ValueBar EXCEPT ![c] = i]
      /\ OutBar[c] = "running"
  BY <1>4, <1>6
<1> QED
  BY <1>2, <1>3, <1>5 DEF Atomic!Return, OutBar, ValueBar

\* The catch block throws, or is not seen.
LEMMA CatchThrows ==
    ASSUME IndInv, NEW c \in Callers, Catch(c)
    PROVE  Atomic!Throw(c) \/ (log' = log /\ OutBar' = OutBar /\ ValueBar' = ValueBar)
<1> DEFINE pc == IF ~Retryable(call[c].err) \/ Exhausted(c) THEN "threw" ELSE "sleep"
           k  == [call[c] EXCEPT !.pc = pc]
<1>0. call[c] \in Calls /\ call[c].pc = "catch"
  BY CallTyped DEF Catch
<1>1. k.pc = pc /\ pc \in {"threw", "sleep"}
  BY <1>0 DEF Calls
<1>2. call' = [call EXCEPT ![c] = k] /\ log' = log
  BY DEF Catch, IndInv, Types, Calls
<1> HIDE DEF k, pc
<1>3. CASE pc = "sleep"
  BY <1>0, <1>1, <1>2, <1>3, Unseen
<1>4. CASE pc = "threw"
  <2>1. Standing(k) = "threw" /\ Place(k) = 0
        /\ Standing(call[c]) = "running" /\ Place(call[c]) = 0
    BY <1>0, <1>1, <1>4 DEF Standing, Place
  <2>2. [ValueBar EXCEPT ![c] = ValueBar[c]] = ValueBar
    BY DEF ValueBar
  <2>4. /\ OutBar' = [OutBar EXCEPT ![c] = Standing(k)]
        /\ ValueBar' = [ValueBar EXCEPT ![c] = Place(k)]
        /\ OutBar[c] = Standing(call[c]) /\ ValueBar[c] = Place(call[c])
    BY <1>2, BarStep
  <2>3. /\ OutBar' = [OutBar EXCEPT ![c] = "threw"] /\ OutBar[c] = "running"
        /\ ValueBar' = ValueBar
    BY <2>1, <2>2, <2>4
  <2> QED
    BY <1>2, <2>3 DEF Atomic!Throw, OutBar, ValueBar
<1> QED
  BY <1>1, <1>3, <1>4

\* A call of runSerializableTransaction, retries included, implements one
\* atomic step of AtomicTransactions.
THEOREM Refinement == Spec => ImplementsAtomic
<1>1. Init => Atomic!Init
  <2> SUFFICES ASSUME Init PROVE Atomic!Init
    OBVIOUS
  <2>1. \A c \in Callers : Standing(call[c]) = "idle" /\ Place(call[c]) = 0
    BY DEF Init, Idle, Standing, Place
  <2> QED
    BY <2>1 DEF Init, Atomic!Init
<1>2. IndInv /\ [Next]_vars => [Atomic!Next]_(Atomic!vars)
  <2> SUFFICES ASSUME IndInv, [Next]_vars
               PROVE  Atomic!Next \/ (log' = log /\ OutBar' = OutBar /\ ValueBar' = ValueBar)
    BY DEF Atomic!vars, OutBar, ValueBar
  <2>0. CASE UNCHANGED vars
    BY <2>0 DEF vars, OutBar, ValueBar
  <2>1. ASSUME NEW c \in Callers, Start(c) PROVE Atomic!Call(c)
    <3> DEFINE k == [Idle EXCEPT !.pc = "begin", !.attempt = 1]
    <3>1. k.pc = "begin"
      BY DEF Idle
    <3>2. call[c].pc = "idle" /\ call' = [call EXCEPT ![c] = k] /\ log' = log
      BY <2>1 DEF Start
    <3> HIDE DEF k
    <3>3. /\ Standing(k) = "running" /\ Place(k) = 0
          /\ Standing(call[c]) = "idle" /\ Place(call[c]) = 0
      BY <3>1, <3>2 DEF Standing, Place
    <3>4. [ValueBar EXCEPT ![c] = ValueBar[c]] = ValueBar
      BY DEF ValueBar
    <3>6. /\ OutBar' = [OutBar EXCEPT ![c] = Standing(k)]
          /\ ValueBar' = [ValueBar EXCEPT ![c] = Place(k)]
          /\ OutBar[c] = Standing(call[c]) /\ ValueBar[c] = Place(call[c])
      BY <3>2, BarStep
    <3>5. /\ OutBar' = [OutBar EXCEPT ![c] = "running"] /\ OutBar[c] = "idle"
          /\ ValueBar' = ValueBar
      BY <3>3, <3>4, <3>6
    <3> QED
      BY <3>2, <3>5 DEF Atomic!Call, OutBar, ValueBar
  <2> DEFINE Stutter == log' = log /\ OutBar' = OutBar /\ ValueBar' = ValueBar
  <2>2. ASSUME NEW c \in Callers, Begin(c) PROVE Stutter
    <3> DEFINE k == [call[c] EXCEPT !.pc = "unit", !.snap = log]
    <3>1. k.pc = "unit"
      BY CallTyped DEF Calls
    <3>2. call[c].pc = "begin" /\ call' = [call EXCEPT ![c] = k] /\ log' = log
      BY <2>2, CallTyped DEF Begin, Calls, IndInv, Types
    <3> HIDE DEF k
    <3> QED
      BY <3>1, <3>2, Unseen
  <2>3. ASSUME NEW c \in Callers, Unit(c) PROVE Stutter
    <3>0. call[c].pc = "unit"
      BY <2>3 DEF Unit
    <3>1. CASE Fails(c, NoError)
      BY <3>0, <3>1, FailureUnseen
    <3>2. CASE call' = [call EXCEPT ![c].pc = "commit"] /\ log' = log
      <4> DEFINE k == [call[c] EXCEPT !.pc = "commit"]
      <4>1. k.pc = "commit" /\ call' = [call EXCEPT ![c] = k]
        BY <3>2, CallTyped DEF Calls, IndInv, Types
      <4> HIDE DEF k
      <4> QED
        BY <3>0, <3>2, <4>1, Unseen
    <3> QED
      BY <2>3, <3>1, <3>2 DEF Unit
  <2>4. ASSUME NEW c \in Callers,
               StatementFails(c) \/ CommitConflicts(c) \/ AcknowledgementLost(c)
        PROVE  Stutter
    <3>1. PICK err : Fails(c, err)
      BY <2>4 DEF StatementFails, CommitConflicts, AcknowledgementLost
    <3>2. call[c].pc \in {"begin", "unit", "commit", "committed"}
      BY <2>4 DEF StatementFails, CommitConflicts, AcknowledgementLost
    <3> QED
      BY <3>1, <3>2, FailureUnseen
  <2>5. ASSUME NEW c \in Callers, Sleep(c) PROVE Stutter
    <3> DEFINE k == [Idle EXCEPT !.pc = "begin", !.attempt = call[c].attempt + 1]
    <3>1. k.pc = "begin"
      BY DEF Idle
    <3>2. call[c].pc = "sleep" /\ call' = [call EXCEPT ![c] = k] /\ log' = log
      BY <2>5 DEF Sleep
    <3> HIDE DEF k
    <3> QED
      BY <3>1, <3>2, Unseen
  <2> HIDE DEF Stutter
  <2>6. Next => Atomic!Next \/ Stutter
    BY <2>1, <2>2, <2>3, <2>4, <2>5, CommitApplies, AcknowledgedReturns, CatchThrows
       DEF Next, Step, Atomic!Next, Stutter
  <2> QED
    BY <2>0, <2>6 DEF Stutter
<1> QED
  BY <1>1, <1>2, RetryInvariant, PTL DEF Spec, ImplementsAtomic, Atomic!Spec

-----------------------------------------------------------------------------
(* The bounds.                                                             *)

\* What a call counts and has caught; only a call with an attempt left sleeps.
InBounds(k) ==
    /\ k.attempt <= MaxAttempts
    /\ k.pc = "sleep" => k.attempt < MaxAttempts
    /\ k.err \in Errors

Bounded == Len(log) <= Quota /\ \A c \in Callers : InBounds(call[c])

\* A step that changes one call, and leaves the log within the quota.
LEMMA BoundedCall ==
    ASSUME IndInv, Bounded, NEW c \in Callers, NEW k, InBounds(k),
           call' = [call EXCEPT ![c] = k], Len(log') <= Quota
    PROVE  Bounded'
<1>1. call'[c] = k /\ \A d \in Callers : d # c => call'[d] = call[d]
  BY DEF IndInv, Types
<1>2. \A d \in Callers : InBounds(call'[d])
  BY <1>1 DEF Bounded
<1> QED
  BY <1>2 DEF Bounded, InBounds

LEMMA BoundedFailure ==
    ASSUME IndInv, Bounded, NEW c \in Callers, NEW err \in Errors, Fails(c, err)
    PROVE  Bounded'
<1> DEFINE k == [call[c] EXCEPT !.pc = "catch", !.err = err]
<1>1. call[c] \in Calls /\ InBounds(call[c])
  BY CallTyped DEF Bounded
<1>2. k.attempt = call[c].attempt /\ k.pc = "catch" /\ k.err = err
  BY <1>1 DEF Calls
<1>3. call' = [call EXCEPT ![c] = k] /\ log' = log
  BY DEF Fails, IndInv, Types, Calls
<1> HIDE DEF k
<1>4. InBounds(k)
  BY <1>1, <1>2 DEF InBounds
<1> QED
  BY <1>3, <1>4, BoundedCall DEF Bounded

\* A call goes on with the attempt and the error that it has.
LEMMA BoundedMove ==
    ASSUME IndInv, Bounded, NEW c \in Callers, NEW k, call' = [call EXCEPT ![c] = k],
           Len(log') <= Quota, k.pc # "sleep", k.attempt = call[c].attempt, k.err = call[c].err
    PROVE  Bounded'
<1>1. InBounds(k)
  BY DEF Bounded, InBounds
<1> QED
  BY <1>1, BoundedCall

LEMMA ErrorsMade ==
    ASSUME NEW wrapped \in 0..Depth
    PROVE  /\ \A code \in Conflict \cup {ConnectionLost} : Error(code, wrapped) \in Errors
           /\ Error("40001", wrapped) \in Errors /\ NoError \in Errors
BY RetryAssumption DEF Error, NoError, Errors, Conflict

LEMMA BoundedStep == IndInv /\ Bounded /\ [Next]_vars => Bounded'
<1> SUFFICES ASSUME IndInv, Bounded, [Next]_vars PROVE Bounded'
  OBVIOUS
<1>0. CASE UNCHANGED vars
  BY <1>0 DEF vars, Bounded, InBounds
<1>1. ASSUME NEW c \in Callers, Start(c) PROVE Bounded'
  <2> DEFINE k == [Idle EXCEPT !.pc = "begin", !.attempt = 1]
  <2>1. k.pc = "begin" /\ k.attempt = 1 /\ k.err = NoError
    BY DEF Idle
  <2>2. call' = [call EXCEPT ![c] = k] /\ log' = log
    BY <1>1 DEF Start
  <2> HIDE DEF k
  <2>3. NoError \in Errors
    BY RetryAssumption DEF Error, NoError, Errors
  <2>4. InBounds(k)
    BY <2>1, <2>3, RetryAssumption DEF InBounds
  <2> QED
    BY <2>2, <2>4, BoundedCall DEF Bounded
<1>2. ASSUME NEW c \in Callers, Begin(c) PROVE Bounded'
  <2> DEFINE k == [call[c] EXCEPT !.pc = "unit", !.snap = log]
  <2>1. k.pc = "unit" /\ k.attempt = call[c].attempt /\ k.err = call[c].err
    BY CallTyped DEF Calls
  <2>2. call' = [call EXCEPT ![c] = k] /\ log' = log
    BY <1>2, CallTyped DEF Begin, Calls, IndInv, Types
  <2> HIDE DEF k
  <2> QED
    BY <2>1, <2>2, BoundedMove DEF Bounded
<1>3. ASSUME NEW c \in Callers, Unit(c) PROVE Bounded'
  <2>1. CASE Len(call[c].snap) >= Quota
    <3>1. Fails(c, NoError)
      BY <2>1, <1>3 DEF Unit
    <3>2. NoError \in Errors
      BY RetryAssumption DEF Error, NoError, Errors
    <3> QED
      BY <3>1, <3>2, BoundedFailure
  <2>2. CASE ~(Len(call[c].snap) >= Quota)
    <3> DEFINE k == [call[c] EXCEPT !.pc = "commit"]
    <3>1. k.pc = "commit" /\ k.attempt = call[c].attempt /\ k.err = call[c].err
      BY CallTyped DEF Calls
    <3>2. call' = [call EXCEPT ![c] = k] /\ log' = log
      BY <1>3, <2>2 DEF Unit, IndInv, Types, Calls
    <3> HIDE DEF k
    <3> QED
      BY <3>1, <3>2, BoundedMove DEF Bounded
  <2> QED
    BY <2>1, <2>2
<1>4. ASSUME NEW c \in Callers, StatementFails(c) PROVE Bounded'
  <2>1. PICK wrapped \in 0..Depth, code \in Conflict \cup {ConnectionLost} :
              Fails(c, Error(code, wrapped))
    BY <1>4 DEF StatementFails
  <2> QED
    BY <2>1, ErrorsMade, BoundedFailure
<1>5. ASSUME NEW c \in Callers, CommitConflicts(c) PROVE Bounded'
  <2>1. PICK wrapped \in 0..Depth : Fails(c, Error("40001", wrapped))
    BY <1>5 DEF CommitConflicts
  <2> QED
    BY <2>1, ErrorsMade, BoundedFailure
<1>6. ASSUME NEW c \in Callers, Acknowledged(c) PROVE Bounded'
  <2> DEFINE k == [call[c] EXCEPT !.pc = "returned"]
  <2>1. k.pc = "returned" /\ k.attempt = call[c].attempt /\ k.err = call[c].err
    BY CallTyped DEF Calls
  <2>2. call' = [call EXCEPT ![c] = k] /\ log' = log
    BY <1>6 DEF Acknowledged, IndInv, Types, Calls
  <2> HIDE DEF k
  <2> QED
    BY <2>1, <2>2, BoundedMove DEF Bounded
<1>7. ASSUME NEW c \in Callers, AcknowledgementLost(c) PROVE Bounded'
  <2>1. PICK wrapped \in 0..Depth : Fails(c, Error(ConnectionLost, wrapped))
    BY <1>7 DEF AcknowledgementLost
  <2> QED
    BY <2>1, ErrorsMade, BoundedFailure
<1>8. ASSUME NEW c \in Callers, Catch(c) PROVE Bounded'
  <2> DEFINE pc == IF ~Retryable(call[c].err) \/ Exhausted(c) THEN "threw" ELSE "sleep"
             k  == [call[c] EXCEPT !.pc = pc]
  <2>1. call[c] \in Calls /\ InBounds(call[c])
    BY CallTyped DEF Bounded
  <2>2. pc = "sleep" => call[c].attempt # MaxAttempts
    BY DEF Exhausted
  <2> HIDE DEF pc
  <2>3. k.pc = pc /\ k.attempt = call[c].attempt /\ k.err = call[c].err
    BY <2>1 DEF Calls
  <2>4. call' = [call EXCEPT ![c] = k] /\ log' = log
    BY <1>8 DEF Catch, IndInv, Types, Calls, pc
  <2> HIDE DEF k
  <2>5. call[c].attempt \in Nat
    BY <2>1 DEF Calls
  <2>6. InBounds(k)
    BY <2>1, <2>2, <2>3, <2>5, RetryAssumption DEF InBounds
  <2> QED
    BY <2>4, <2>6, BoundedCall DEF Bounded
<1>9. ASSUME NEW c \in Callers, Sleep(c) PROVE Bounded'
  <2> DEFINE next == call[c].attempt + 1
             k == [Idle EXCEPT !.pc = "begin", !.attempt = next]
  <2>1. call[c] \in Calls /\ InBounds(call[c]) /\ call[c].pc = "sleep"
    BY <1>9, CallTyped DEF Bounded, Sleep
  <2>2. call[c].attempt \in Nat
    BY <2>1 DEF Calls
  <2>3. next <= MaxAttempts
    BY <2>1, <2>2, RetryAssumption DEF InBounds
  <2>4. call' = [call EXCEPT ![c] = k] /\ log' = log
    BY <1>9 DEF Sleep
  <2> HIDE DEF next
  <2>5. k.pc = "begin" /\ k.attempt = next /\ k.err = NoError
    BY DEF Idle
  <2> HIDE DEF k
  <2>6. NoError \in Errors
    BY RetryAssumption DEF Error, NoError, Errors
  <2>7. InBounds(k)
    BY <2>3, <2>5, <2>6 DEF InBounds
  <2> QED
    BY <2>4, <2>7, BoundedCall DEF Bounded
<1>10. ASSUME NEW c \in Callers, Commit(c) PROVE Bounded'
  <2> DEFINE k == [call[c] EXCEPT !.pc = "committed"]
  <2>1. call[c] \in Calls /\ log \in Seq(Callers) /\ Len(call[c].snap) < Quota /\ log = call[c].snap
    BY <1>10, CallTyped DEF IndInv, Types, SnapshotFits, Commit
  <2>2. k.pc = "committed" /\ k.attempt = call[c].attempt /\ k.err = call[c].err
    BY <2>1 DEF Calls
  <2>3. call' = [call EXCEPT ![c] = k] /\ log' = Append(log, c)
    BY <1>10 DEF Commit, IndInv, Types, Calls
  <2> HIDE DEF k
  <2>4. Len(log') = Len(log) + 1 /\ Len(log) \in Nat
    BY <2>1, <2>3
  <2>5. Len(log') <= Quota
    BY <2>1, <2>4, RetryAssumption
  <2> QED
    BY <2>2, <2>3, <2>5, BoundedMove
<1> QED
  BY <1>0, <1>1, <1>2, <1>3, <1>4, <1>5, <1>6, <1>7, <1>8, <1>9, <1>10 DEF Next, Step

\* No unit runs more often than maxAttempts times, no error is looked at deeper than the code
\* does, and however the calls conflict the log stays within the quota.
THEOREM TypeCorrect == Spec => []TypeOK
<1>1. Init => Bounded
  <2>1. NoError \in Errors
    BY RetryAssumption DEF Error, NoError, Errors
  <2>2. Init => \A c \in Callers : call[c].attempt = 0 /\ call[c].pc = "idle" /\ call[c].err = NoError
    <3>1. Idle.attempt = 0 /\ Idle.pc = "idle" /\ Idle.err = NoError
      BY DEF Idle
    <3>2. Init => \A c \in Callers : call[c] = Idle
      BY DEF Init
    <3> QED
      BY <3>1, <3>2
  <2>3. Init => Len(log) = 0
    BY EmptyLog DEF Init
  <2> QED
    BY <2>1, <2>2, <2>3, RetryAssumption DEF Bounded, InBounds
<1>2. IndInv /\ Bounded => TypeOK
  <2> SUFFICES ASSUME IndInv, Bounded PROVE TypeOK
    OBVIOUS
  <2>1. log \in Seq(Callers) /\ Len(log) <= Quota
    BY DEF IndInv, Types, Bounded
  <2>2. ASSUME NEW c \in Callers
        PROVE  call[c].pc \in Pcs /\ call[c].attempt \in 0..MaxAttempts /\ call[c].snap \in Seq(Callers)
               /\ call[c].err \in Errors
    <3>1. call[c] \in Calls /\ InBounds(call[c])
      BY CallTyped DEF Bounded
    <3>2. call[c].pc \in Pcs /\ call[c].attempt \in Nat /\ call[c].snap \in Seq(Callers)
      BY <3>1 DEF Calls
    <3> QED
      BY <3>1, <3>2, RetryAssumption DEF InBounds
  <2> QED
    BY <2>1, <2>2 DEF TypeOK, Pcs
<1> QED
  BY <1>1, <1>2, BoundedStep, RetryInvariant, PTL DEF Spec
=============================================================================
