---------------------------- MODULE IndexerProofs ----------------------------
(***************************************************************************)
(* Proofs about IndexerWorker, for any number of writers, any ledgers and  *)
(* any bounds.                                                             *)
(***************************************************************************)
EXTENDS IndexerWorker, TLAPS, WellFoundedInduction

-----------------------------------------------------------------------------
(* The inductive invariant.                                                *)

Quorum == PrimaryServes \cap SecondaryServes

\* A token is held by one worker and is not newer than the row; a worker has
\* one from its acquisition until its process ends.
TokensInv ==
    /\ \A w \in Writers : (token[w] = 0) <=> (pc[w] \in {"down", "acquire"})
    /\ \A w \in Writers : token[w] <= row.epoch
    /\ \A v, w \in Writers : token[v] = token[w] /\ token[v] # 0 => v = w

\* The row is locked exactly by the worker inside persistLedger, and stays its.
LockInv ==
    /\ rowLock # NoWriter => TokenFilter(rowLock, token[rowLock]) /\ pc[rowLock] = "commit"
    /\ \A w \in Writers : pc[w] = "commit" => rowLock = w

\* The ledger a worker is about to persist came from both sources and passed
\* the continuity check.
FetchedInv ==
    \A w \in Writers : pc[w] \in {"persist", "commit"} =>
        ledger[w] \in Quorum /\ Continuous(previous[w], ledger[w])

\* The rows of ledger_checkpoints.
ChainInv ==
    \A i \in Persisted :
        /\ checkpoints[i].ledger \in Quorum
        /\ checkpoints[i].ledger.index = i
        /\ i = Activation => checkpoints[i].ledger.hash = ActivationHash
        /\ i # Activation => /\ i - 1 \in Persisted
                             /\ checkpoints[i].ledger.parent = checkpoints[i - 1].ledger.hash
        /\ checkpoints[i].epoch <= row.epoch

\* What a worker remembers of the database, while its token is in the row.
AgreedInv ==
    \A w \in Writers : lastAgreed[w] # NoLedger =>
        checkpoints[lastAgreed[w].index].ledger = lastAgreed[w]

Holds(w) == token[w] # 0 /\ TokenFilter(w, token[w])

ViewInv ==
    \A w \in Writers : Holds(w) =>
        /\ pc[w] \in {"catalog", "status", "fetch", "persist", "commit"} =>
             /\ previous[w] = LastCheckpoint
             /\ previous[w] # NoLedger => lastAgreed[w] = previous[w]
        /\ pc[w] \in {"status", "fetch", "persist", "commit"} => catalog[w] = Persisted

\* No incident for the epoch of a row that still has its writer, and none for
\* a later one.
IncidentInv ==
    \A n \in incidents : n.epoch <= row.epoch /\ (n.epoch = row.epoch => row.writer = NoWriter)

IndInv ==
    /\ TypeOK /\ TokensInv /\ LockInv /\ FetchedInv
    /\ ChainInv /\ EpochsOrdered /\ CatalogComplete
    /\ AgreedInv /\ ViewInv
    /\ StatusNeverAhead /\ ReadyMeansCaughtUp /\ IncidentInv

-----------------------------------------------------------------------------

USE FencingConstants, WorkerConstants

\* A non-empty set of ledger indices has a largest one.
LEMMA MaxExists ==
    ASSUME NEW S, S \subseteq Indices, S # {}
    PROVE  \E i \in S : \A j \in S : j <= i
<1> DEFINE R == OpToRel(<, Nat)
           T == {n \in Nat : \E i \in S : n = MaxIndex - i}
<1>0. \A i \in S : MaxIndex - i \in Nat
  BY DEF Indices
<1>1. T \subseteq Nat /\ T # {}
  BY <1>0
<1>2. PICK x \in T : \A y \in T : ~(<<y, x>> \in R)
  <2> HIDE DEF R, T
  <2>1. IsWellFoundedOn(R, Nat)
    BY NatLessThanWellFounded DEF R
  <2> QED BY <1>1, <2>1, WFMin
<1>3. \A y \in T : ~(y < x)
  BY <1>1, <1>2 DEF OpToRel
<1>4. PICK i \in S : x = MaxIndex - i
  OBVIOUS
<1>5. \A j \in S : MaxIndex - j \in T
  BY <1>0
<1> QED
  BY <1>3, <1>4, <1>5 DEF Indices

\* The last checkpoint is a persisted ledger that bounds all others.
LEMMA LastIs ==
    ASSUME TypeOK
    PROVE  /\ LastCheckpoint \in Ledgers \cup {NoLedger}
           /\ Persisted = {} <=> LastCheckpoint = NoLedger
           /\ Persisted # {} => \E i \in Persisted :
                /\ \A j \in Persisted : j <= i
                /\ LastCheckpoint = checkpoints[i].ledger
<1>1. Persisted \subseteq Indices
  BY DEF Persisted
<1>2. CASE Persisted = {}
  BY <1>2 DEF LastCheckpoint
<1>3. CASE Persisted # {}
  <2> DEFINE m == CHOOSE i \in Persisted : \A j \in Persisted : j <= i
  <2>1. m \in Persisted /\ \A j \in Persisted : j <= m
    BY <1>1, <1>3, MaxExists
  <2>2. LastCheckpoint = checkpoints[m].ledger
    BY <1>3 DEF LastCheckpoint
  <2>3. checkpoints[m].ledger # NoLedger /\ m \in Indices
    BY <2>1 DEF Persisted
  <2>4. checkpoints[m].ledger \in Ledgers \cup {NoLedger}
    BY <2>3 DEF TypeOK, CheckpointRow
  <2> HIDE DEF m
  <2> QED BY <2>1, <2>2, <2>3, <2>4, <1>3
<1> QED BY <1>2, <1>3

-----------------------------------------------------------------------------
(* Type correctness.                                                       *)

\* The empty database and the stopped workers are well typed.
LEMMA TypeInit == Init => TypeOK
BY DEF Init, FencingInit, TypeOK, FencingTypeOK, StatusRow, CheckpointRow, NoCheckpoint,
       Steps, States, Epochs

\* The operations of indexer-fencing.ts keep the row well formed.
LEMMA RowUpdateType ==
    ASSUME row \in StatusRow, NEW w, NEW e, NEW state \in States,
           NEW t \in Tips \cup {NoTips}, NEW a \in Ledgers \cup {NoLedger},
           UpdateIndexerStatus(w, e, state, t, a)
    PROVE  row' \in StatusRow
BY DEF UpdateIndexerStatus, StatusRow

\* So does haltIndexer.
LEMMA RowHaltType ==
    ASSUME FencingTypeOK, NEW w, NEW e \in Epochs,
           NEW t \in Tips \cup {NoTips}, NEW a \in Ledgers \cup {NoLedger},
           HaltIndexer(w, e, t, a)
    PROVE  FencingTypeOK'
<1>1. row' \in StatusRow
  BY DEF HaltIndexer, FencingTypeOK, StatusRow, States
<1> QED BY <1>1 DEF HaltIndexer, FencingTypeOK

\* So does releaseIndexerLease.
LEMMA RowReleaseType ==
    ASSUME FencingTypeOK, NEW w, NEW e, ReleaseIndexerLease(w, e)
    PROVE  FencingTypeOK'
<1>1. row' \in StatusRow
  BY DEF ReleaseIndexerLease, FencingTypeOK, StatusRow, States
<1> QED BY <1>1 DEF ReleaseIndexerLease, FencingTypeOK

\* persistLedger writes well-formed rows.
LEMMA WriteLedgerType ==
    ASSUME TypeOK, NEW w \in Writers, WriteLedger(w)
    PROVE  FencingTypeOK' /\ checkpoints' \in [Indices -> CheckpointRow] /\ token' = token
<1>1. row' \in StatusRow
  <2>1. UpdateIndexerStatus(w, token[w], LedgerState(w), lastTips[w], ledger[w])
    BY DEF WriteLedger
  <2>2. LedgerState(w) \in States
    BY DEF LedgerState, States
  <2> QED BY <2>1, <2>2, RowUpdateType DEF TypeOK, FencingTypeOK
<1>2. incidents' = incidents /\ rowLock' \in Writers \cup {NoWriter}
  BY DEF WriteLedger, Unlock, TypeOK, FencingTypeOK
<1>3. checkpoints' \in [Indices -> CheckpointRow]
  <2>1. [ledger |-> ledger[w], catalog |-> catalog[w], writer |-> w, epoch |-> token[w]]
          \in CheckpointRow
    BY DEF TypeOK, CheckpointRow
  <2> QED BY <2>1 DEF WriteLedger, TypeOK
<1> QED BY <1>1, <1>2, <1>3 DEF WriteLedger, TypeOK, FencingTypeOK

\* Every step keeps the state well typed.
LEMMA TypeStep == TypeOK /\ FetchedInv /\ [Next]_vars => TypeOK'
<1> SUFFICES ASSUME TypeOK, FetchedInv, [Next]_vars PROVE TypeOK'
  OBVIOUS
<1> USE DEF TypeOK, FencingTypeOK
<1>1. CASE UNCHANGED vars
  BY <1>1 DEF vars, workerVars, roundVars, fencingVars
<1>2. CASE RunOut
  BY <1>2 DEF RunOut, LeaseExpires, StatusRow, workerVars, roundVars
<1>3. CASE MissRenewal
  BY SMTT(30), <1>3 DEF MissRenewal, LeaseExpires, Fault, StatusRow, workerVars, roundVars
<1>4. ASSUME NEW w \in Writers, Work(w) \/ Interfere(w) PROVE TypeOK'
  <2> USE DEF Goto, Steps, workerVars, roundVars, fencingVars
  <2>1. CASE Start(w)
    BY <2>1 DEF Start
  <2>2. CASE AcquireLease(w)
    BY <2>2 DEF AcquireLease, AcquireIndexerLease, LeaseAvailable, StatusRow, States, Epochs
  <2>3. CASE LeaseUnavailable(w)
    BY <2>3 DEF LeaseUnavailable
  <2>4. CASE Preflight(w)
    BY <2>4 DEF Preflight, RenewIndexerLease, TipPairs, Tips
  <2>5. CASE VerifyTarget(w)
    BY <2>5 DEF VerifyTarget, RenewIndexerLease, LocalUnchanged
  <2>6. CASE RenewAfterTarget(w)
    BY <2>6 DEF RenewAfterTarget, RenewIndexerLease, LocalUnchanged
  <2>7. CASE LoadCheckpoint(w)
    BY LastIs, <2>7 DEF LoadCheckpoint
  <2>8. CASE Announce(w)
    BY <2>8 DEF Announce, UpdateIndexerStatus, LocalUnchanged, StatusRow, States
  <2>9. CASE BeginRound(w)
    BY <2>9 DEF BeginRound, RenewIndexerLease, LocalUnchanged
  <2>10. CASE ReadCheckpoint(w)
    BY LastIs, <2>10 DEF ReadCheckpoint
  <2>11. CASE ReadCatalogAndTips(w)
    BY <2>11 DEF ReadCatalogAndTips, TipPairs, Tips, Persisted
  <2>12. CASE PersistStatus(w)
    <3>1. row' \in StatusRow
      <4>1. RoundState(w) \in States
        BY DEF RoundState, States
      <4>2. CASE previous[w] = NoLedger \/ CaughtUp(w)
        BY <2>12, <4>1, <4>2, RowUpdateType DEF PersistStatus
      <4>3. CASE ~(previous[w] = NoLedger \/ CaughtUp(w))
        BY <2>12, <4>3 DEF PersistStatus
      <4> QED BY <4>2, <4>3
    <3>2. ProcessingLimit(w) \in 0 .. MaxIndex
      BY LedgerConstants DEF ProcessingLimit, Replays, Effective, Tips, NoTips, NoTip, Indices, NoLedger
    <3>3. NextIndex(previous[w]) \in Nat
      BY LedgerConstants DEF NextIndex, Indices
    <3>4. lastLedger' \in [Writers -> 0 .. MaxIndex]
      BY <2>12, <3>2, <3>3 DEF PersistStatus
    <3> QED BY <2>12, <3>1, <3>4 DEF PersistStatus
  <2>13. CASE Fetch(w)
    BY <2>13 DEF Fetch, RenewIndexerLease, QuorumLedgers
  <2>14. CASE BeginPersist(w)
    BY <2>14 DEF BeginPersist, LockActiveIndexerLease, LocalUnchanged
  <2>15. CASE CommitPersist(w)
    <3>1. WriteLedger(w)
      BY <2>15 DEF CommitPersist
    <3>2. catalog' \in [Writers -> SUBSET Indices]
      <4>1. ledger[w].index \in Indices
        BY <2>15, LedgerConstants DEF CommitPersist, FetchedInv, Quorum
      <4> QED BY <2>15, <4>1 DEF CommitPersist
    <3> QED BY <2>15, <3>1, <3>2, WriteLedgerType DEF CommitPersist
  <2>16. CASE EndRound(w)
    BY <2>16 DEF EndRound, LeaveRound
  <2>17. CASE Reject(w)
    BY <2>17 DEF Reject, Throw, Unlock, LeaveRound
  <2>18. CASE RejectTips(w)
    BY <2>18 DEF RejectTips, TipPairs, Tips, LeaveRound
  <2>19. CASE Halt(w)
    <3>1. FencingTypeOK'
      BY <2>19, RowHaltType DEF Halt
    <3> QED BY <2>19, <3>1 DEF Halt, Exit, LeaveRound, Epochs
  <2>20. CASE HaltFails(w)
    BY <2>20 DEF HaltFails, Fault
  <2>21. CASE Release(w)
    <3>1. FencingTypeOK'
      BY <2>21, RowReleaseType DEF Release
    <3> QED BY <2>21, <3>1 DEF Release, Exit, LeaveRound, Epochs
  <2>22. CASE ReleaseFails(w)
    BY <2>22 DEF ReleaseFails, Fault, Exit, LeaveRound, Epochs
  <2>23. CASE CallFails(w)
    BY <2>23 DEF CallFails, Throw, Fault, Unlock, LeaveRound
  <2>24. CASE CommitUnacknowledged(w)
    <3>1. WriteLedger(w)
      BY <2>24 DEF CommitUnacknowledged
    <3> QED BY <2>24, <3>1, WriteLedgerType DEF CommitUnacknowledged, LeaveRound, Fault
  <2>25. CASE HaltUnacknowledged(w)
    <3>1. FencingTypeOK'
      BY <2>25, RowHaltType DEF HaltUnacknowledged
    <3> QED BY <2>25, <3>1 DEF HaltUnacknowledged, Fault
  <2>26. CASE Stop(w)
    BY <2>26 DEF Stop, Fault
  <2>27. CASE Crash(w)
    BY <2>27 DEF Crash, Fault, Exit, LeaveRound, Unlock, Epochs
  <2> QED BY <1>4, <2>1, <2>2, <2>3, <2>4, <2>5, <2>6, <2>7, <2>8, <2>9, <2>10, <2>11, <2>12, <2>13, <2>14, <2>15, <2>16, <2>17, <2>18, <2>19, <2>20, <2>21, <2>22, <2>23, <2>24, <2>25, <2>26, <2>27 DEF Work, Interfere
<1> QED BY <1>1, <1>2, <1>3, <1>4 DEF Next

-----------------------------------------------------------------------------
(* Tokens and the row lock.                                                *)

\* Only an acquisition hands out a token, and it is newer than all before.
LEMMA TokensStep == TypeOK /\ TokensInv /\ [Next]_vars => TokensInv'
<1> SUFFICES ASSUME TypeOK, TokensInv, [Next]_vars PROVE TokensInv'
  OBVIOUS
<1> USE DEF TokensInv
<1>1. CASE UNCHANGED vars
  BY <1>1 DEF vars, fencingVars
<1>2. CASE RunOut
  BY <1>2 DEF RunOut, LeaseExpires, TypeOK, FencingTypeOK, StatusRow
<1>3. CASE MissRenewal
  BY <1>3 DEF MissRenewal, LeaseExpires, TypeOK, FencingTypeOK, StatusRow
<1>4. ASSUME NEW w \in Writers, Work(w) \/ Interfere(w) PROVE TokensInv'
  <2> USE DEF TypeOK, FencingTypeOK, StatusRow, Epochs, Goto, fencingVars, LocalUnchanged
  <2>1. CASE Start(w)
    BY <2>1 DEF Start
  <2>2. CASE AcquireLease(w)
    BY <2>2 DEF AcquireLease, AcquireIndexerLease, LeaseAvailable
  <2>3. CASE LeaseUnavailable(w)
    BY <2>3 DEF LeaseUnavailable
  <2>4. CASE Preflight(w)
    BY <2>4 DEF Preflight, RenewIndexerLease
  <2>5. CASE VerifyTarget(w)
    BY <2>5 DEF VerifyTarget, RenewIndexerLease
  <2>6. CASE RenewAfterTarget(w)
    BY <2>6 DEF RenewAfterTarget, RenewIndexerLease
  <2>7. CASE LoadCheckpoint(w)
    BY <2>7 DEF LoadCheckpoint
  <2>8. CASE Announce(w)
    BY <2>8 DEF Announce, UpdateIndexerStatus
  <2>9. CASE BeginRound(w)
    BY <2>9 DEF BeginRound, RenewIndexerLease
  <2>10. CASE ReadCheckpoint(w)
    BY <2>10 DEF ReadCheckpoint
  <2>11. CASE ReadCatalogAndTips(w)
    BY <2>11 DEF ReadCatalogAndTips
  <2>12. CASE PersistStatus(w)
    BY ZenonT(40), <2>12 DEF PersistStatus, UpdateIndexerStatus
  <2>13. CASE Fetch(w)
    BY <2>13 DEF Fetch, RenewIndexerLease
  <2>14. CASE BeginPersist(w)
    BY <2>14 DEF BeginPersist, LockActiveIndexerLease
  <2>15. CASE CommitPersist(w)
    BY <2>15 DEF CommitPersist, WriteLedger, UpdateIndexerStatus
  <2>16. CASE EndRound(w)
    BY <2>16 DEF EndRound
  <2>17. CASE Reject(w)
    BY <2>17 DEF Reject, Throw, Rejected, Trying, Steps
  <2>18. CASE RejectTips(w)
    BY <2>18 DEF RejectTips
  <2>19. CASE Halt(w)
    BY <2>19 DEF Halt, HaltIndexer, Exit
  <2>20. CASE HaltFails(w)
    BY <2>20 DEF HaltFails
  <2>21. CASE Release(w)
    BY <2>21 DEF Release, ReleaseIndexerLease, Exit
  <2>22. CASE ReleaseFails(w)
    BY <2>22 DEF ReleaseFails, Exit
  <2>23. CASE CallFails(w)
    BY <2>23 DEF CallFails, Throw, Trying, Steps
  <2>24. CASE CommitUnacknowledged(w)
    BY <2>24 DEF CommitUnacknowledged, WriteLedger, UpdateIndexerStatus
  <2>25. CASE HaltUnacknowledged(w)
    BY <2>25 DEF HaltUnacknowledged, HaltIndexer
  <2>26. CASE Stop(w)
    BY <2>26 DEF Stop
  <2>27. CASE Crash(w)
    BY <2>27 DEF Crash, Exit
  <2> QED BY <1>4, <2>1, <2>2, <2>3, <2>4, <2>5, <2>6, <2>7, <2>8, <2>9, <2>10, <2>11, <2>12, <2>13, <2>14, <2>15, <2>16, <2>17, <2>18, <2>19, <2>20, <2>21, <2>22, <2>23, <2>24, <2>25, <2>26, <2>27 DEF Work, Interfere
<1> QED BY <1>1, <1>2, <1>3, <1>4 DEF Next

\* The row is locked by the worker inside persistLedger and by nobody else.
LEMMA LockStep == TypeOK /\ TokensInv /\ LockInv /\ [Next]_vars => LockInv'
<1> SUFFICES ASSUME TypeOK, TokensInv, LockInv, [Next]_vars PROVE LockInv'
  OBVIOUS
<1> USE DEF LockInv, TokenFilter
<1>1. CASE UNCHANGED vars
  BY <1>1 DEF vars, fencingVars
<1>2. CASE RunOut
  BY <1>2 DEF RunOut, LeaseExpires, TypeOK, FencingTypeOK, StatusRow
<1>3. CASE MissRenewal
  BY <1>3 DEF MissRenewal, LeaseExpires, TypeOK, FencingTypeOK, StatusRow
<1>4. ASSUME NEW w \in Writers, Work(w) \/ Interfere(w) PROVE LockInv'
  <2> USE DEF TypeOK, FencingTypeOK, StatusRow, Epochs, Goto, fencingVars, LocalUnchanged
  <2>1. CASE Start(w)
    BY <2>1 DEF Start
  <2>2. CASE AcquireLease(w)
    BY <2>2 DEF AcquireLease, AcquireIndexerLease, LeaseAvailable
  <2>3. CASE LeaseUnavailable(w)
    BY <2>3 DEF LeaseUnavailable
  <2>4. CASE Preflight(w)
    BY <2>4 DEF Preflight, RenewIndexerLease
  <2>5. CASE VerifyTarget(w)
    BY <2>5 DEF VerifyTarget, RenewIndexerLease
  <2>6. CASE RenewAfterTarget(w)
    BY <2>6 DEF RenewAfterTarget, RenewIndexerLease
  <2>7. CASE LoadCheckpoint(w)
    BY <2>7 DEF LoadCheckpoint
  <2>8. CASE Announce(w)
    BY <2>8 DEF Announce, UpdateIndexerStatus
  <2>9. CASE BeginRound(w)
    BY <2>9 DEF BeginRound, RenewIndexerLease
  <2>10. CASE ReadCheckpoint(w)
    BY <2>10 DEF ReadCheckpoint
  <2>11. CASE ReadCatalogAndTips(w)
    BY <2>11 DEF ReadCatalogAndTips
  <2>12. CASE PersistStatus(w)
    BY ZenonT(40), <2>12 DEF PersistStatus, UpdateIndexerStatus
  <2>13. CASE Fetch(w)
    BY <2>13 DEF Fetch, RenewIndexerLease
  <2>14. CASE BeginPersist(w)
    BY <2>14 DEF BeginPersist, LockActiveIndexerLease, ActiveTokenFilter
  <2>15. CASE CommitPersist(w)
    BY <2>15 DEF CommitPersist, WriteLedger, UpdateIndexerStatus, Unlock
  <2>16. CASE EndRound(w)
    BY <2>16 DEF EndRound
  <2>17. CASE Reject(w)
    BY <2>17 DEF Reject, Throw, Unlock, Rejected, Trying, Steps
  <2>18. CASE RejectTips(w)
    BY <2>18 DEF RejectTips
  <2>19. CASE Halt(w)
    BY <2>19 DEF Halt, HaltIndexer, Exit, TokensInv
  <2>20. CASE HaltFails(w)
    BY <2>20 DEF HaltFails
  <2>21. CASE Release(w)
    BY <2>21 DEF Release, ReleaseIndexerLease, Exit, TokensInv
  <2>22. CASE ReleaseFails(w)
    BY <2>22 DEF ReleaseFails, Exit
  <2>23. CASE CallFails(w)
    BY <2>23 DEF CallFails, Throw, Unlock, Trying, Steps
  <2>24. CASE CommitUnacknowledged(w)
    BY <2>24 DEF CommitUnacknowledged, WriteLedger, UpdateIndexerStatus, Unlock
  <2>25. CASE HaltUnacknowledged(w)
    BY <2>25 DEF HaltUnacknowledged, HaltIndexer, TokensInv
  <2>26. CASE Stop(w)
    BY <2>26 DEF Stop
  <2>27. CASE Crash(w)
    BY <2>27 DEF Crash, Exit, Unlock
  <2> QED BY <1>4, <2>1, <2>2, <2>3, <2>4, <2>5, <2>6, <2>7, <2>8, <2>9, <2>10, <2>11, <2>12, <2>13, <2>14, <2>15, <2>16, <2>17, <2>18, <2>19, <2>20, <2>21, <2>22, <2>23, <2>24, <2>25, <2>26, <2>27 DEF Work, Interfere
<1> QED BY <1>1, <1>2, <1>3, <1>4 DEF Next

-----------------------------------------------------------------------------
(* What was fetched, and what a step does to the database.                 *)

\* A ledger stays fetched and continuous until it is persisted or dropped.
LEMMA FetchedStep == TypeOK /\ FetchedInv /\ [Next]_vars => FetchedInv'
<1> SUFFICES ASSUME TypeOK, FetchedInv, [Next]_vars PROVE FetchedInv'
  OBVIOUS
<1> USE DEF FetchedInv
<1>1. CASE UNCHANGED vars
  BY <1>1 DEF vars, workerVars, roundVars
<1>2. CASE RunOut
  BY <1>2 DEF RunOut, workerVars, roundVars
<1>3. CASE MissRenewal
  BY <1>3 DEF MissRenewal, workerVars, roundVars
<1>4. ASSUME NEW w \in Writers, Work(w) \/ Interfere(w) PROVE FetchedInv'
  <2> USE DEF TypeOK, Goto, workerVars, roundVars, LocalUnchanged
  <2>1. CASE Start(w)
    BY <2>1 DEF Start
  <2>2. CASE AcquireLease(w)
    BY <2>2 DEF AcquireLease
  <2>3. CASE LeaseUnavailable(w)
    BY <2>3 DEF LeaseUnavailable
  <2>4. CASE Preflight(w)
    BY <2>4 DEF Preflight
  <2>5. CASE VerifyTarget(w)
    BY <2>5 DEF VerifyTarget
  <2>6. CASE RenewAfterTarget(w)
    BY <2>6 DEF RenewAfterTarget
  <2>7. CASE LoadCheckpoint(w)
    BY <2>7 DEF LoadCheckpoint
  <2>8. CASE Announce(w)
    BY <2>8 DEF Announce
  <2>9. CASE BeginRound(w)
    BY <2>9 DEF BeginRound
  <2>10. CASE ReadCheckpoint(w)
    BY <2>10 DEF ReadCheckpoint
  <2>11. CASE ReadCatalogAndTips(w)
    BY <2>11 DEF ReadCatalogAndTips
  <2>12. CASE PersistStatus(w)
    BY <2>12 DEF PersistStatus
  <2>13. CASE Fetch(w)
    BY <2>13 DEF Fetch, QuorumLedgers, Quorum
  <2>14. CASE BeginPersist(w)
    BY <2>14 DEF BeginPersist
  <2>15. CASE CommitPersist(w)
    BY <2>15 DEF CommitPersist
  <2>16. CASE EndRound(w)
    BY <2>16 DEF EndRound, LeaveRound
  <2>17. CASE Reject(w)
    BY <2>17 DEF Reject, Throw, LeaveRound
  <2>18. CASE RejectTips(w)
    BY <2>18 DEF RejectTips, LeaveRound
  <2>19. CASE Halt(w)
    BY <2>19 DEF Halt, Exit, LeaveRound
  <2>20. CASE HaltFails(w)
    BY <2>20 DEF HaltFails
  <2>21. CASE Release(w)
    BY <2>21 DEF Release, Exit, LeaveRound
  <2>22. CASE ReleaseFails(w)
    BY <2>22 DEF ReleaseFails, Exit, LeaveRound
  <2>23. CASE CallFails(w)
    BY <2>23 DEF CallFails, Throw, LeaveRound
  <2>24. CASE CommitUnacknowledged(w)
    BY <2>24 DEF CommitUnacknowledged, LeaveRound
  <2>25. CASE HaltUnacknowledged(w)
    BY <2>25 DEF HaltUnacknowledged
  <2>26. CASE Stop(w)
    BY <2>26 DEF Stop
  <2>27. CASE Crash(w)
    BY <2>27 DEF Crash, Exit, LeaveRound
  <2> QED BY <1>4, <2>1, <2>2, <2>3, <2>4, <2>5, <2>6, <2>7, <2>8, <2>9, <2>10, <2>11, <2>12, <2>13, <2>14, <2>15, <2>16, <2>17, <2>18, <2>19, <2>20, <2>21, <2>22, <2>23, <2>24, <2>25, <2>26, <2>27 DEF Work, Interfere
<1> QED BY <1>1, <1>2, <1>3, <1>4 DEF Next

\* A step either leaves the checkpoints alone, and the epoch can only grow, or
\* it is the write of persistLedger.
LEMMA DatabaseEffect ==
    ASSUME TypeOK, [Next]_vars
    PROVE  \/ checkpoints' = checkpoints /\ row.epoch <= row'.epoch
           \/ \E w \in Writers : pc[w] = "commit" /\ WriteLedger(w)
<1> DEFINE Goal == \/ checkpoints' = checkpoints /\ row.epoch <= row'.epoch
                   \/ \E w \in Writers : pc[w] = "commit" /\ WriteLedger(w)
<1> USE DEF TypeOK, FencingTypeOK, StatusRow, Epochs
<1>1. CASE UNCHANGED vars
  BY <1>1 DEF vars, fencingVars
<1>2. CASE RunOut
  BY <1>2 DEF RunOut, LeaseExpires
<1>3. CASE MissRenewal
  BY <1>3 DEF MissRenewal, LeaseExpires
<1>4. ASSUME NEW w \in Writers, Work(w) \/ Interfere(w) PROVE Goal
  <2> USE DEF Goto, fencingVars, LocalUnchanged
  <2>1. CASE Start(w)
    BY <2>1 DEF Start
  <2>2. CASE AcquireLease(w)
    BY <2>2 DEF AcquireLease, AcquireIndexerLease, LeaseAvailable
  <2>3. CASE LeaseUnavailable(w)
    BY <2>3 DEF LeaseUnavailable
  <2>4. CASE Preflight(w)
    BY <2>4 DEF Preflight, RenewIndexerLease
  <2>5. CASE VerifyTarget(w)
    BY <2>5 DEF VerifyTarget, RenewIndexerLease
  <2>6. CASE RenewAfterTarget(w)
    BY <2>6 DEF RenewAfterTarget, RenewIndexerLease
  <2>7. CASE LoadCheckpoint(w)
    BY <2>7 DEF LoadCheckpoint
  <2>8. CASE Announce(w)
    BY <2>8 DEF Announce, UpdateIndexerStatus
  <2>9. CASE BeginRound(w)
    BY <2>9 DEF BeginRound, RenewIndexerLease
  <2>10. CASE ReadCheckpoint(w)
    BY <2>10 DEF ReadCheckpoint
  <2>11. CASE ReadCatalogAndTips(w)
    BY <2>11 DEF ReadCatalogAndTips
  <2>12. CASE PersistStatus(w)
    <3>1. row'.epoch = row.epoch
      <4>1. CASE previous[w] = NoLedger \/ CaughtUp(w)
        BY <2>12, <4>1 DEF PersistStatus, UpdateIndexerStatus
      <4>2. CASE ~(previous[w] = NoLedger \/ CaughtUp(w))
        BY <2>12, <4>2 DEF PersistStatus
      <4> QED BY <4>1, <4>2
    <3> QED BY <2>12, <3>1 DEF PersistStatus
  <2>13. CASE Fetch(w)
    BY <2>13 DEF Fetch, RenewIndexerLease
  <2>14. CASE BeginPersist(w)
    BY <2>14 DEF BeginPersist, LockActiveIndexerLease
  <2>15. CASE CommitPersist(w)
    BY <2>15 DEF CommitPersist
  <2>16. CASE EndRound(w)
    BY <2>16 DEF EndRound
  <2>17. CASE Reject(w)
    BY <2>17 DEF Reject, Throw
  <2>18. CASE RejectTips(w)
    BY <2>18 DEF RejectTips
  <2>19. CASE Halt(w)
    BY <2>19 DEF Halt, HaltIndexer, Exit
  <2>20. CASE HaltFails(w)
    BY <2>20 DEF HaltFails
  <2>21. CASE Release(w)
    BY <2>21 DEF Release, ReleaseIndexerLease, Exit
  <2>22. CASE ReleaseFails(w)
    BY <2>22 DEF ReleaseFails, Exit
  <2>23. CASE CallFails(w)
    BY <2>23 DEF CallFails, Throw
  <2>24. CASE CommitUnacknowledged(w)
    BY <2>24 DEF CommitUnacknowledged
  <2>25. CASE HaltUnacknowledged(w)
    BY <2>25 DEF HaltUnacknowledged, HaltIndexer
  <2>26. CASE Stop(w)
    BY <2>26 DEF Stop
  <2>27. CASE Crash(w)
    BY <2>27 DEF Crash, Exit
  <2> QED BY <1>4, <2>1, <2>2, <2>3, <2>4, <2>5, <2>6, <2>7, <2>8, <2>9, <2>10, <2>11, <2>12, <2>13, <2>14, <2>15, <2>16, <2>17, <2>18, <2>19, <2>20, <2>21, <2>22, <2>23, <2>24, <2>25, <2>26, <2>27 DEF Work, Interfere
<1> QED BY <1>1, <1>2, <1>3, <1>4 DEF Next

\* The write of persistLedger appends one ledger to the chain.
LEMMA WriteExtends ==
    ASSUME IndInv, NEW w \in Writers, pc[w] = "commit", WriteLedger(w)
    PROVE  LET l == ledger[w] IN
           /\ l \in Quorum /\ l # NoLedger /\ l.index \in Indices
           /\ l.index \notin Persisted
           /\ Continuous(LastCheckpoint, l)
           /\ Persisted' = Persisted \cup {l.index}
           /\ \A i \in Persisted : i < l.index /\ checkpoints'[i] = checkpoints[i]
           /\ checkpoints'[l.index] = [ledger |-> l, catalog |-> Persisted,
                                       writer |-> w, epoch |-> row.epoch]
           /\ LastCheckpoint' = l
<1> DEFINE l == ledger[w]
<1>1. Active(w) /\ Holds(w)
  BY DEF WriteLedger, UpdateIndexerStatus, Active, ActiveTokenFilter, Holds, IndInv, TokensInv
<1>2. /\ previous[w] = LastCheckpoint /\ catalog[w] = Persisted /\ token[w] = row.epoch
      /\ l \in Quorum /\ Continuous(previous[w], l)
  BY <1>1 DEF IndInv, ViewInv, FetchedInv, Holds, TokenFilter
<1>3. l \in Ledgers /\ l.index \in Indices /\ l # NoLedger
  BY <1>2, LedgerConstants DEF Quorum, NoLedger
<1>4. \A i \in Persisted : i \in Indices /\ i < l.index
  <2>1. CASE Persisted = {}
    BY <2>1
  <2>2. CASE Persisted # {}
    <3>1. PICK i \in Persisted : (\A j \in Persisted : j <= i) /\ LastCheckpoint = checkpoints[i].ledger
      BY <2>2, LastIs DEF IndInv
    <3>2. LastCheckpoint # NoLedger /\ LastCheckpoint.index = i
      BY <3>1, <2>2, LastIs DEF IndInv, ChainInv
    <3>3. l.index = i + 1
      BY <1>2, <3>2 DEF Continuous
    <3> QED BY <3>1, <3>3 DEF Persisted, Indices
  <2> QED BY <2>1, <2>2
<1>5. l.index \notin Persisted
  BY <1>3, <1>4 DEF Indices
<1>6. checkpoints' = [checkpoints EXCEPT ![l.index] =
                        [ledger |-> l, catalog |-> Persisted, writer |-> w, epoch |-> row.epoch]]
  BY <1>2, <1>5 DEF WriteLedger
<1>7. checkpoints \in [Indices -> CheckpointRow]
  BY DEF IndInv, TypeOK
<1>8. checkpoints'[l.index] = [ledger |-> l, catalog |-> Persisted, writer |-> w, epoch |-> row.epoch]
  BY <1>3, <1>6, <1>7
<1>9. \A i \in Indices \ {l.index} : checkpoints'[i] = checkpoints[i]
  BY <1>6, <1>7
<1>10. Persisted' = Persisted \cup {l.index}
  BY <1>3, <1>8, <1>9 DEF Persisted
<1>11. LastCheckpoint' = l
  <2> DEFINE m == CHOOSE i \in Persisted' : \A j \in Persisted' : j <= i
  <2>1. l.index \in Persisted' /\ \A j \in Persisted' : j <= l.index
    BY <1>3, <1>4, <1>10 DEF Indices
  <2>2. Persisted' \subseteq Indices
    BY DEF Persisted
  <2>3. m \in Persisted' /\ \A j \in Persisted' : j <= m
    BY <2>1
  <2>4. m = l.index
    <3> HIDE DEF m
    <3>1. m \in Indices /\ l.index \in Indices
      BY <2>1, <2>2, <2>3
    <3>2. m <= l.index /\ l.index <= m
      BY <2>1, <2>3
    <3> QED BY <3>1, <3>2 DEF Indices
  <2>5. LastCheckpoint' = checkpoints'[m].ledger
    BY <2>1 DEF LastCheckpoint
  <2> HIDE DEF m
  <2>6. checkpoints'[m].ledger = l
    BY <2>4, <1>8
  <2> QED BY <2>5, <2>6
<1> QED
  BY <1>2, <1>3, <1>4, <1>5, <1>8, <1>9, <1>10, <1>11

-----------------------------------------------------------------------------
(* The chain, what the workers remember of it, and what the status says.   *)

\* Equal rows give equal sets of persisted ledgers and equal last checkpoints.
LEMMA CheckpointsStable ==
    ASSUME checkpoints' = checkpoints
    PROVE  Persisted' = Persisted /\ LastCheckpoint' = LastCheckpoint
BY DEF Persisted, LastCheckpoint

\* The last checkpoint is found at its own index.
LEMMA LastPersisted ==
    ASSUME IndInv, LastCheckpoint # NoLedger
    PROVE  /\ LastCheckpoint.index \in Persisted
           /\ checkpoints[LastCheckpoint.index].ledger = LastCheckpoint
<1>1. PICK i \in Persisted : LastCheckpoint = checkpoints[i].ledger
  BY LastIs DEF IndInv
<1> QED BY <1>1 DEF IndInv, ChainInv

\* A ledger that is persisted stays persisted.
LEMMA LedgerStays ==
    ASSUME IndInv, [Next]_vars, NEW a \in Ledgers, checkpoints[a.index].ledger = a
    PROVE  checkpoints'[a.index].ledger = a
<1>1. CASE checkpoints' = checkpoints
  BY <1>1
<1>2. ASSUME NEW w \in Writers, pc[w] = "commit", WriteLedger(w)
      PROVE  checkpoints'[a.index].ledger = a
  <2>1. a.index \in Persisted
    BY LedgerConstants DEF Persisted, NoLedger
  <2> QED BY <2>1, <1>2, WriteExtends
<1> QED BY <1>1, <1>2, DatabaseEffect DEF IndInv

\* Every step keeps the chain, the order of its epochs and its catalogs.
LEMMA ChainStep == IndInv /\ [Next]_vars => ChainInv' /\ EpochsOrdered' /\ CatalogComplete'
<1> SUFFICES ASSUME IndInv, [Next]_vars PROVE ChainInv' /\ EpochsOrdered' /\ CatalogComplete'
  OBVIOUS
<1>0. row.epoch \in Nat /\ row'.epoch \in Nat /\ \A i \in Persisted : checkpoints[i].epoch \in Nat
  BY TypeStep DEF IndInv, TypeOK, FencingTypeOK, StatusRow, Epochs, CheckpointRow, Persisted
<1>1. CASE checkpoints' = checkpoints /\ row.epoch <= row'.epoch
  <2>1. Persisted' = Persisted
    BY <1>1, CheckpointsStable
  <2>2. ChainInv'
    BY <1>0, <1>1, <2>1 DEF IndInv, ChainInv
  <2>3. EpochsOrdered' /\ CatalogComplete'
    BY <1>1, <2>1 DEF IndInv, EpochsOrdered, CatalogComplete
  <2> QED BY <2>2, <2>3
<1>2. ASSUME NEW w \in Writers, pc[w] = "commit", WriteLedger(w)
      PROVE  ChainInv' /\ EpochsOrdered' /\ CatalogComplete'
  <2> DEFINE l == ledger[w]
  <2>1. /\ l \in Quorum /\ l # NoLedger /\ l.index \in Indices
        /\ l.index \notin Persisted
        /\ Continuous(LastCheckpoint, l)
        /\ Persisted' = Persisted \cup {l.index}
        /\ \A i \in Persisted : i < l.index /\ checkpoints'[i] = checkpoints[i]
        /\ checkpoints'[l.index] = [ledger |-> l, catalog |-> Persisted,
                                    writer |-> w, epoch |-> row.epoch]
    BY <1>2, WriteExtends
  <2>2. row'.epoch = row.epoch
    BY <1>2 DEF WriteLedger, UpdateIndexerStatus, IndInv, TypeOK, FencingTypeOK, StatusRow
  <2>3. Persisted \subseteq Indices
    BY DEF Persisted
  <2>4. \/ l.index = Activation /\ l.hash = ActivationHash /\ Persisted = {}
        \/ /\ l.index - 1 \in Persisted
           /\ l.parent = checkpoints[l.index - 1].ledger.hash
           /\ l.index # Activation
    <3>1. CASE LastCheckpoint = NoLedger
      BY <2>1, <3>1, LastIs DEF Continuous, IndInv
    <3>2. CASE LastCheckpoint # NoLedger
      <4>1. l.index = LastCheckpoint.index + 1 /\ l.parent = LastCheckpoint.hash
        BY <2>1, <3>2 DEF Continuous
      <4>2. LastCheckpoint.index \in Persisted /\ checkpoints[LastCheckpoint.index].ledger = LastCheckpoint
        BY <3>2, LastPersisted
      <4> QED BY <4>1, <4>2, <2>3 DEF Indices
    <3> QED BY <3>1, <3>2
  <2>5. ChainInv'
    <3> SUFFICES ASSUME NEW i \in Persisted'
                 PROVE  /\ checkpoints'[i].ledger \in Quorum
                        /\ checkpoints'[i].ledger.index = i
                        /\ i = Activation => checkpoints'[i].ledger.hash = ActivationHash
                        /\ i # Activation =>
                             /\ i - 1 \in Persisted'
                             /\ checkpoints'[i].ledger.parent = checkpoints'[i - 1].ledger.hash
                        /\ checkpoints'[i].epoch <= row'.epoch
      BY DEF ChainInv, Quorum
    <3>1. CASE i \in Persisted
      BY <3>1, <2>1, <2>2 DEF IndInv, ChainInv
    <3>2. CASE i = l.index
      BY <3>2, <2>1, <2>2, <2>4, <1>0
    <3> QED BY <3>1, <3>2, <2>1
  <2>6. EpochsOrdered'
    <3> SUFFICES ASSUME NEW i \in Persisted', NEW j \in Persisted', i < j
                 PROVE  checkpoints'[i].epoch <= checkpoints'[j].epoch
      BY DEF EpochsOrdered
    <3>1. CASE j \in Persisted
      <4>1. i \in Persisted
        BY <2>1, <2>3, <3>1 DEF Indices
      <4> QED BY <2>1, <3>1, <4>1 DEF IndInv, EpochsOrdered
    <3>2. CASE j = l.index
      <4>1. i \in Persisted
        BY <2>1, <2>3, <3>2 DEF Indices
      <4> QED BY <2>1, <3>2, <4>1 DEF IndInv, ChainInv
    <3> QED BY <3>1, <3>2, <2>1
  <2>7. CatalogComplete'
    <3> SUFFICES ASSUME NEW i \in Persisted'
                 PROVE  checkpoints'[i].catalog = {j \in Persisted' : j < i}
      BY DEF CatalogComplete
    <3>1. CASE i \in Persisted
      <4>1. checkpoints[i].catalog = {j \in Persisted : j < i}
        BY <3>1 DEF IndInv, CatalogComplete
      <4>2. {j \in Persisted' : j < i} = {j \in Persisted : j < i}
        BY <2>1, <2>3, <3>1 DEF Indices
      <4> QED BY <2>1, <3>1, <4>1, <4>2
    <3>2. CASE i = l.index
      <4>1. \A j \in Persisted : j < i
        BY <2>1, <3>2
      <4>2. i \in Int /\ ~(i < i)
        BY <2>1, <3>2 DEF Indices
      <4>3. {j \in Persisted' : j < i} = Persisted
        BY <2>1, <3>2, <4>1, <4>2
      <4> QED BY <2>1, <3>2, <4>3
    <3> QED BY <3>1, <3>2, <2>1
  <2> QED BY <2>5, <2>6, <2>7
<1> QED BY <1>1, <1>2, DatabaseEffect DEF IndInv

\* haltIndexer writes the incident of an epoch when it clears the writer.
LEMMA IncidentStep == TypeOK /\ TokensInv /\ IncidentInv /\ [Next]_vars => IncidentInv'
<1> SUFFICES ASSUME TypeOK, TokensInv, IncidentInv, [Next]_vars PROVE IncidentInv'
  OBVIOUS
<1> USE DEF IncidentInv, TypeOK, FencingTypeOK, StatusRow, Epochs
<1>1. CASE UNCHANGED vars
  BY <1>1 DEF vars, fencingVars
<1>2. CASE RunOut
  BY <1>2 DEF RunOut, LeaseExpires
<1>3. CASE MissRenewal
  BY <1>3 DEF MissRenewal, LeaseExpires
<1>4. ASSUME NEW w \in Writers, Work(w) \/ Interfere(w) PROVE IncidentInv'
  <2> USE DEF Goto, fencingVars, LocalUnchanged
  <2>1. CASE Start(w)
    BY <2>1 DEF Start
  <2>2. CASE AcquireLease(w)
    BY <2>2 DEF AcquireLease, AcquireIndexerLease, LeaseAvailable
  <2>3. CASE LeaseUnavailable(w)
    BY <2>3 DEF LeaseUnavailable
  <2>4. CASE Preflight(w)
    BY <2>4 DEF Preflight, RenewIndexerLease
  <2>5. CASE VerifyTarget(w)
    BY <2>5 DEF VerifyTarget, RenewIndexerLease
  <2>6. CASE RenewAfterTarget(w)
    BY <2>6 DEF RenewAfterTarget, RenewIndexerLease
  <2>7. CASE LoadCheckpoint(w)
    BY <2>7 DEF LoadCheckpoint
  <2>8. CASE Announce(w)
    BY <2>8 DEF Announce, UpdateIndexerStatus
  <2>9. CASE BeginRound(w)
    BY <2>9 DEF BeginRound, RenewIndexerLease
  <2>10. CASE ReadCheckpoint(w)
    BY <2>10 DEF ReadCheckpoint
  <2>11. CASE ReadCatalogAndTips(w)
    BY <2>11 DEF ReadCatalogAndTips
  <2>12. CASE PersistStatus(w)
    BY ZenonT(40), <2>12 DEF PersistStatus, UpdateIndexerStatus
  <2>13. CASE Fetch(w)
    BY <2>13 DEF Fetch, RenewIndexerLease
  <2>14. CASE BeginPersist(w)
    BY <2>14 DEF BeginPersist, LockActiveIndexerLease
  <2>15. CASE CommitPersist(w)
    BY <2>15 DEF CommitPersist, WriteLedger, UpdateIndexerStatus
  <2>16. CASE EndRound(w)
    BY <2>16 DEF EndRound
  <2>17. CASE Reject(w)
    BY <2>17 DEF Reject, Throw
  <2>18. CASE RejectTips(w)
    BY <2>18 DEF RejectTips
  <2>19. CASE Halt(w)
    BY <2>19 DEF Halt, HaltIndexer, Exit, TokenFilter
  <2>20. CASE HaltFails(w)
    BY <2>20 DEF HaltFails
  <2>21. CASE Release(w)
    BY <2>21 DEF Release, ReleaseIndexerLease, Exit
  <2>22. CASE ReleaseFails(w)
    BY <2>22 DEF ReleaseFails, Exit
  <2>23. CASE CallFails(w)
    BY <2>23 DEF CallFails, Throw
  <2>24. CASE CommitUnacknowledged(w)
    BY <2>24 DEF CommitUnacknowledged, WriteLedger, UpdateIndexerStatus
  <2>25. CASE HaltUnacknowledged(w)
    BY <2>25 DEF HaltUnacknowledged, HaltIndexer, TokenFilter
  <2>26. CASE Stop(w)
    BY <2>26 DEF Stop
  <2>27. CASE Crash(w)
    BY <2>27 DEF Crash, Exit
  <2> QED BY <1>4, <2>1, <2>2, <2>3, <2>4, <2>5, <2>6, <2>7, <2>8, <2>9, <2>10, <2>11, <2>12, <2>13, <2>14, <2>15, <2>16, <2>17, <2>18, <2>19, <2>20, <2>21, <2>22, <2>23, <2>24, <2>25, <2>26, <2>27 DEF Work, Interfere
<1> QED BY <1>1, <1>2, <1>3, <1>4 DEF Next

\* The ledgers that workers and status report are persisted.
LEMMA AgreedStep == IndInv /\ [Next]_vars => AgreedInv'
<1> SUFFICES ASSUME IndInv, [Next]_vars PROVE AgreedInv'
  OBVIOUS
<1>0. \A a \in Ledgers : checkpoints[a.index].ledger = a => checkpoints'[a.index].ledger = a
  BY LedgerStays
<1>a. \A v \in Writers : lastAgreed[v] \in Ledgers \cup {NoLedger}
  BY DEF IndInv, TypeOK
<1>b. ASSUME NEW v \in Writers, lastAgreed'[v] = lastAgreed[v], lastAgreed'[v] # NoLedger
      PROVE  checkpoints'[lastAgreed'[v].index].ledger = lastAgreed'[v]
  BY <1>0, <1>a, <1>b DEF IndInv, AgreedInv
<1>c. LastCheckpoint # NoLedger => checkpoints'[LastCheckpoint.index].ledger = LastCheckpoint
  BY <1>0, LastIs, LastPersisted DEF IndInv
<1>d. lastAgreed \in [Writers -> Ledgers \cup {NoLedger}]
  BY DEF IndInv, TypeOK
<1> SUFFICES ASSUME NEW v \in Writers, lastAgreed'[v] # lastAgreed[v], lastAgreed'[v] # NoLedger
             PROVE  checkpoints'[lastAgreed'[v].index].ledger = lastAgreed'[v]
  BY <1>b DEF AgreedInv
<1>1. CASE UNCHANGED vars
  BY <1>1 DEF vars, workerVars
<1>2. CASE RunOut
  BY <1>2 DEF RunOut, workerVars
<1>3. CASE MissRenewal
  BY <1>3 DEF MissRenewal, workerVars
<1>4. ASSUME NEW w \in Writers, Work(w) \/ Interfere(w) PROVE checkpoints'[lastAgreed'[v].index].ledger = lastAgreed'[v]
  <2> USE DEF workerVars, LocalUnchanged
  <2>1. CASE Start(w)
    BY <2>1, <1>d DEF Start
  <2>2. CASE AcquireLease(w)
    BY <2>2, <1>d DEF AcquireLease
  <2>3. CASE LeaseUnavailable(w)
    BY <2>3, <1>d DEF LeaseUnavailable
  <2>4. CASE Preflight(w)
    BY <2>4, <1>d DEF Preflight
  <2>5. CASE VerifyTarget(w)
    BY <2>5, <1>d DEF VerifyTarget
  <2>6. CASE RenewAfterTarget(w)
    BY <2>6, <1>d DEF RenewAfterTarget
  <2>7. CASE LoadCheckpoint(w)
    BY <2>7, <1>c, <1>d DEF LoadCheckpoint
  <2>8. CASE Announce(w)
    BY <2>8, <1>d DEF Announce
  <2>9. CASE BeginRound(w)
    BY <2>9, <1>d DEF BeginRound
  <2>10. CASE ReadCheckpoint(w)
    BY <2>10, <1>c, <1>d DEF ReadCheckpoint
  <2>11. CASE ReadCatalogAndTips(w)
    BY <2>11, <1>d DEF ReadCatalogAndTips
  <2>12. CASE PersistStatus(w)
    BY <2>12, <1>d DEF PersistStatus
  <2>13. CASE Fetch(w)
    BY <2>13, <1>d DEF Fetch
  <2>14. CASE BeginPersist(w)
    BY <2>14, <1>d DEF BeginPersist
  <2>15. CASE CommitPersist(w)
    <3>1. v = w /\ lastAgreed'[v] = ledger[w]
      BY <2>15, <1>d DEF CommitPersist
    <3>2. pc[w] = "commit" /\ WriteLedger(w)
      BY <2>15 DEF CommitPersist, Goto
    <3>3. checkpoints'[ledger[w].index] = [ledger |-> ledger[w], catalog |-> Persisted,
                                           writer |-> w, epoch |-> row.epoch]
      BY <3>2, WriteExtends
    <3> QED BY <3>1, <3>3
  <2>16. CASE EndRound(w)
    BY <2>16, <1>d DEF EndRound
  <2>17. CASE Reject(w)
    BY <2>17, <1>d DEF Reject, Throw
  <2>18. CASE RejectTips(w)
    BY <2>18, <1>d DEF RejectTips
  <2>19. CASE Halt(w)
    BY <2>19, <1>d DEF Halt, Exit
  <2>20. CASE HaltFails(w)
    BY <2>20, <1>d DEF HaltFails
  <2>21. CASE Release(w)
    BY <2>21, <1>d DEF Release, Exit
  <2>22. CASE ReleaseFails(w)
    BY <2>22, <1>d DEF ReleaseFails, Exit
  <2>23. CASE CallFails(w)
    BY <2>23, <1>d DEF CallFails, Throw
  <2>24. CASE CommitUnacknowledged(w)
    BY <2>24, <1>d DEF CommitUnacknowledged
  <2>25. CASE HaltUnacknowledged(w)
    BY <2>25, <1>d DEF HaltUnacknowledged
  <2>26. CASE Stop(w)
    BY <2>26, <1>d DEF Stop
  <2>27. CASE Crash(w)
    BY <2>27, <1>d DEF Crash, Exit
  <2> QED BY <1>4, <2>1, <2>2, <2>3, <2>4, <2>5, <2>6, <2>7, <2>8, <2>9, <2>10, <2>11, <2>12, <2>13, <2>14, <2>15, <2>16, <2>17, <2>18, <2>19, <2>20, <2>21, <2>22, <2>23, <2>24, <2>25, <2>26, <2>27 DEF Work, Interfere
<1> QED BY <1>1, <1>2, <1>3, <1>4 DEF Next

\* A worker that still holds the row knows the last checkpoint and the catalog.
LEMMA ViewStep == IndInv /\ [Next]_vars => ViewInv'
<1> SUFFICES ASSUME IndInv, [Next]_vars PROVE ViewInv'
  OBVIOUS
<1> USE DEF ViewInv, Holds, TokenFilter
<1>a. TypeOK /\ TokensInv /\ ViewInv
  BY DEF IndInv
<1>b. checkpoints' = checkpoints => Persisted' = Persisted /\ LastCheckpoint' = LastCheckpoint
  BY CheckpointsStable
<1>1. CASE UNCHANGED vars
  BY <1>1, <1>a, <1>b DEF vars, workerVars, roundVars, fencingVars
<1>2. CASE RunOut
  BY <1>2, <1>a, <1>b DEF RunOut, LeaseExpires, workerVars, roundVars, TypeOK, FencingTypeOK, StatusRow
<1>3. CASE MissRenewal
  BY <1>3, <1>a, <1>b DEF MissRenewal, LeaseExpires, workerVars, roundVars, TypeOK, FencingTypeOK, StatusRow
<1>4. ASSUME NEW w \in Writers, Work(w) \/ Interfere(w) PROVE ViewInv'
  <2> USE DEF TypeOK, FencingTypeOK, StatusRow, Epochs, Goto, workerVars, roundVars, fencingVars, LocalUnchanged
  <2>1. CASE Start(w)
    BY <2>1, <1>a, <1>b DEF Start
  <2>2. CASE AcquireLease(w)
    BY <2>2, <1>a, <1>b DEF AcquireLease, AcquireIndexerLease, LeaseAvailable
  <2>3. CASE LeaseUnavailable(w)
    BY <2>3, <1>a, <1>b DEF LeaseUnavailable
  <2>4. CASE Preflight(w)
    BY <2>4, <1>a, <1>b DEF Preflight, RenewIndexerLease
  <2>5. CASE VerifyTarget(w)
    BY <2>5, <1>a, <1>b DEF VerifyTarget, RenewIndexerLease
  <2>6. CASE RenewAfterTarget(w)
    BY <2>6, <1>a, <1>b DEF RenewAfterTarget, RenewIndexerLease
  <2>7. CASE LoadCheckpoint(w)
    BY <2>7, <1>a, <1>b DEF LoadCheckpoint
  <2>8. CASE Announce(w)
    BY <2>8, <1>a, <1>b DEF Announce, UpdateIndexerStatus
  <2>9. CASE BeginRound(w)
    BY <2>9, <1>a, <1>b DEF BeginRound, RenewIndexerLease
  <2>10. CASE ReadCheckpoint(w)
    BY <2>10, <1>a, <1>b DEF ReadCheckpoint
  <2>11. CASE ReadCatalogAndTips(w)
    BY <2>11, <1>a, <1>b DEF ReadCatalogAndTips
  <2>12. CASE PersistStatus(w)
    <3>1. row'.writer = row.writer /\ row'.epoch = row.epoch
      <4>1. CASE previous[w] = NoLedger \/ CaughtUp(w)
        BY <2>12, <4>1, <1>a DEF PersistStatus, UpdateIndexerStatus
      <4>2. CASE ~(previous[w] = NoLedger \/ CaughtUp(w))
        BY <2>12, <4>2 DEF PersistStatus
      <4> QED BY <4>1, <4>2
    <3> QED BY <2>12, <3>1, <1>a, <1>b DEF PersistStatus
  <2>13. CASE Fetch(w)
    BY <2>13, <1>a, <1>b DEF Fetch, RenewIndexerLease
  <2>14. CASE BeginPersist(w)
    BY <2>14, <1>a, <1>b DEF BeginPersist, LockActiveIndexerLease
  <2>15. CASE CommitPersist(w)
    <3>1. pc[w] = "commit" /\ WriteLedger(w)
      BY <2>15 DEF CommitPersist
    <3>2. TokenFilter(w, token[w]) /\ token' = token /\ row'.writer = row.writer /\ row'.epoch = row.epoch
      BY <3>1, <1>a DEF WriteLedger, UpdateIndexerStatus, ActiveTokenFilter
    <3>3. LastCheckpoint' = ledger[w] /\ Persisted' = Persisted \cup {ledger[w].index}
      BY <3>1, WriteExtends
    <3>4. \A v \in Writers : Holds(v)' => v = w
      BY <3>2, <1>a
    <3> QED BY <2>15, <3>2, <3>3, <3>4, <1>a DEF CommitPersist, IndInv
  <2>16. CASE EndRound(w)
    BY <2>16, <1>a, <1>b DEF EndRound, LeaveRound
  <2>17. CASE Reject(w)
    BY <2>17, <1>a, <1>b DEF Reject, Throw, LeaveRound
  <2>18. CASE RejectTips(w)
    BY <2>18, <1>a, <1>b DEF RejectTips, LeaveRound
  <2>19. CASE Halt(w)
    BY <2>19, <1>a, <1>b DEF Halt, HaltIndexer, Exit, LeaveRound
  <2>20. CASE HaltFails(w)
    BY <2>20, <1>a, <1>b DEF HaltFails
  <2>21. CASE Release(w)
    BY <2>21, <1>a, <1>b DEF Release, ReleaseIndexerLease, Exit, LeaveRound
  <2>22. CASE ReleaseFails(w)
    BY <2>22, <1>a, <1>b DEF ReleaseFails, Exit, LeaveRound
  <2>23. CASE CallFails(w)
    BY <2>23, <1>a, <1>b DEF CallFails, Throw, LeaveRound
  <2>24. CASE CommitUnacknowledged(w)
    <3>1. pc[w] = "commit" /\ WriteLedger(w)
      BY <2>24 DEF CommitUnacknowledged
    <3>2. TokenFilter(w, token[w]) /\ token' = token /\ row'.writer = row.writer /\ row'.epoch = row.epoch
      BY <3>1, <1>a DEF WriteLedger, UpdateIndexerStatus, ActiveTokenFilter
    <3>3. LastCheckpoint' = ledger[w] /\ Persisted' = Persisted \cup {ledger[w].index}
      BY <3>1, WriteExtends
    <3>4. \A v \in Writers : Holds(v)' => v = w
      BY <3>2, <1>a
    <3> QED BY <2>24, <3>2, <3>3, <3>4, <1>a DEF CommitUnacknowledged
  <2>25. CASE HaltUnacknowledged(w)
    BY <2>25, <1>a, <1>b DEF HaltUnacknowledged, HaltIndexer
  <2>26. CASE Stop(w)
    BY <2>26, <1>a, <1>b DEF Stop
  <2>27. CASE Crash(w)
    BY <2>27, <1>a, <1>b DEF Crash, Exit, LeaveRound
  <2> QED BY <1>4, <2>1, <2>2, <2>3, <2>4, <2>5, <2>6, <2>7, <2>8, <2>9, <2>10, <2>11, <2>12, <2>13, <2>14, <2>15, <2>16, <2>17, <2>18, <2>19, <2>20, <2>21, <2>22, <2>23, <2>24, <2>25, <2>26, <2>27 DEF Work, Interfere
<1> QED BY <1>1, <1>2, <1>3, <1>4 DEF Next

\* Every step keeps the reported ledgers among the persisted ones.
LEMMA StatusStep == IndInv /\ [Next]_vars => StatusNeverAhead'
<1> SUFFICES ASSUME IndInv, [Next]_vars PROVE StatusNeverAhead'
  OBVIOUS
<1> DEFINE Kept(a) == a # NoLedger => checkpoints'[a.index].ledger = a
<1>a. \A a \in Ledgers : checkpoints[a.index].ledger = a => Kept(a)
  BY LedgerStays
<1>b. Kept(row.agreed) /\ \A n \in incidents : Kept(n.agreed)
  BY <1>a DEF IndInv, StatusNeverAhead, TypeOK, FencingTypeOK, StatusRow
<1>c. \A v \in Writers : Kept(lastAgreed[v])
  BY <1>a DEF IndInv, AgreedInv, TypeOK
<1>d. Kept(NoLedger)
  OBVIOUS
<1>e. TypeOK
  BY DEF IndInv
<1> HIDE DEF Kept
<1> SUFFICES Kept(row'.agreed) /\ \A n \in incidents' : Kept(n.agreed)
  BY DEF StatusNeverAhead, Kept
<1>1. CASE UNCHANGED vars
  BY <1>1, <1>b DEF vars, fencingVars
<1>2. CASE RunOut
  BY <1>2, <1>b, <1>e DEF RunOut, LeaseExpires, TypeOK, FencingTypeOK, StatusRow
<1>3. CASE MissRenewal
  BY <1>3, <1>b, <1>e DEF MissRenewal, LeaseExpires, TypeOK, FencingTypeOK, StatusRow
<1>4. ASSUME NEW w \in Writers, Work(w) \/ Interfere(w) PROVE Kept(row'.agreed) /\ \A n \in incidents' : Kept(n.agreed)
  <2> USE DEF TypeOK, FencingTypeOK, StatusRow, Epochs, Goto, fencingVars, LocalUnchanged
  <2>1. CASE Start(w)
    BY <2>1, <1>b, <1>c, <1>d, <1>e DEF Start
  <2>2. CASE AcquireLease(w)
    BY <2>2, <1>b, <1>c, <1>d, <1>e DEF AcquireLease, AcquireIndexerLease, LeaseAvailable
  <2>3. CASE LeaseUnavailable(w)
    BY <2>3, <1>b, <1>c, <1>d, <1>e DEF LeaseUnavailable
  <2>4. CASE Preflight(w)
    BY <2>4, <1>b, <1>c, <1>d, <1>e DEF Preflight, RenewIndexerLease
  <2>5. CASE VerifyTarget(w)
    BY <2>5, <1>b, <1>c, <1>d, <1>e DEF VerifyTarget, RenewIndexerLease
  <2>6. CASE RenewAfterTarget(w)
    BY <2>6, <1>b, <1>c, <1>d, <1>e DEF RenewAfterTarget, RenewIndexerLease
  <2>7. CASE LoadCheckpoint(w)
    BY <2>7, <1>b, <1>c, <1>d, <1>e DEF LoadCheckpoint
  <2>8. CASE Announce(w)
    BY <2>8, <1>b, <1>c, <1>d, <1>e DEF Announce, UpdateIndexerStatus
  <2>9. CASE BeginRound(w)
    BY <2>9, <1>b, <1>c, <1>d, <1>e DEF BeginRound, RenewIndexerLease
  <2>10. CASE ReadCheckpoint(w)
    BY <2>10, <1>b, <1>c, <1>d, <1>e DEF ReadCheckpoint
  <2>11. CASE ReadCatalogAndTips(w)
    BY <2>11, <1>b, <1>c, <1>d, <1>e DEF ReadCatalogAndTips
  <2>12. CASE PersistStatus(w)
    BY <2>12, <1>b, <1>c, <1>d, <1>e DEF PersistStatus, UpdateIndexerStatus
  <2>13. CASE Fetch(w)
    BY <2>13, <1>b, <1>c, <1>d, <1>e DEF Fetch, RenewIndexerLease
  <2>14. CASE BeginPersist(w)
    BY <2>14, <1>b, <1>c, <1>d, <1>e DEF BeginPersist, LockActiveIndexerLease
  <2>15. CASE CommitPersist(w)
    <3>1. pc[w] = "commit" /\ WriteLedger(w)
      BY <2>15 DEF CommitPersist
    <3>2. row'.agreed = ledger[w] /\ incidents' = incidents
      BY <3>1, <1>e DEF WriteLedger, UpdateIndexerStatus
    <3>3. checkpoints'[ledger[w].index] = [ledger |-> ledger[w], catalog |-> Persisted,
                                           writer |-> w, epoch |-> row.epoch]
      BY <3>1, WriteExtends
    <3> QED BY <3>2, <3>3, <1>b DEF Kept
  <2>16. CASE EndRound(w)
    BY <2>16, <1>b, <1>c, <1>d, <1>e DEF EndRound
  <2>17. CASE Reject(w)
    BY <2>17, <1>b, <1>c, <1>d, <1>e DEF Reject, Throw
  <2>18. CASE RejectTips(w)
    BY <2>18, <1>b, <1>c, <1>d, <1>e DEF RejectTips
  <2>19. CASE Halt(w)
    BY <2>19, <1>b, <1>c, <1>d, <1>e DEF Halt, HaltIndexer, Exit
  <2>20. CASE HaltFails(w)
    BY <2>20, <1>b, <1>c, <1>d, <1>e DEF HaltFails
  <2>21. CASE Release(w)
    BY <2>21, <1>b, <1>c, <1>d, <1>e DEF Release, ReleaseIndexerLease, Exit
  <2>22. CASE ReleaseFails(w)
    BY <2>22, <1>b, <1>c, <1>d, <1>e DEF ReleaseFails, Exit
  <2>23. CASE CallFails(w)
    BY <2>23, <1>b, <1>c, <1>d, <1>e DEF CallFails, Throw
  <2>24. CASE CommitUnacknowledged(w)
    <3>1. pc[w] = "commit" /\ WriteLedger(w)
      BY <2>24 DEF CommitUnacknowledged
    <3>2. row'.agreed = ledger[w] /\ incidents' = incidents
      BY <3>1, <1>e DEF WriteLedger, UpdateIndexerStatus
    <3>3. checkpoints'[ledger[w].index] = [ledger |-> ledger[w], catalog |-> Persisted,
                                           writer |-> w, epoch |-> row.epoch]
      BY <3>1, WriteExtends
    <3> QED BY <3>2, <3>3, <1>b DEF Kept
  <2>25. CASE HaltUnacknowledged(w)
    BY <2>25, <1>b, <1>c, <1>d, <1>e DEF HaltUnacknowledged, HaltIndexer
  <2>26. CASE Stop(w)
    BY <2>26, <1>b, <1>c, <1>d, <1>e DEF Stop
  <2>27. CASE Crash(w)
    BY <2>27, <1>b, <1>c, <1>d, <1>e DEF Crash, Exit
  <2> QED BY <1>4, <2>1, <2>2, <2>3, <2>4, <2>5, <2>6, <2>7, <2>8, <2>9, <2>10, <2>11, <2>12, <2>13, <2>14, <2>15, <2>16, <2>17, <2>18, <2>19, <2>20, <2>21, <2>22, <2>23, <2>24, <2>25, <2>26, <2>27 DEF Work, Interfere
<1> QED BY <1>1, <1>2, <1>3, <1>4 DEF Next

\* Every step keeps a ready row at the last checkpoint and at the tip.
LEMMA ReadyStep == IndInv /\ [Next]_vars => ReadyMeansCaughtUp'
<1> SUFFICES ASSUME IndInv, [Next]_vars, row'.state = "ready" PROVE ReadyMeansCaughtUp'
  BY DEF ReadyMeansCaughtUp
<1>a. TypeOK /\ TokensInv /\ ReadyMeansCaughtUp
  BY DEF IndInv
<1>b. checkpoints' = checkpoints => LastCheckpoint' = LastCheckpoint
  BY CheckpointsStable
<1> USE DEF ReadyMeansCaughtUp
<1>1. CASE UNCHANGED vars
  BY <1>1, <1>a, <1>b DEF vars, fencingVars
<1>2. CASE RunOut
  BY <1>2, <1>a, <1>b DEF RunOut, LeaseExpires, TypeOK, FencingTypeOK, StatusRow
<1>3. CASE MissRenewal
  BY <1>3, <1>a, <1>b DEF MissRenewal, LeaseExpires, TypeOK, FencingTypeOK, StatusRow
<1>4. ASSUME NEW w \in Writers, Work(w) \/ Interfere(w) PROVE ReadyMeansCaughtUp'
  <2> USE DEF TypeOK, FencingTypeOK, StatusRow, Epochs, Goto, fencingVars, LocalUnchanged
  <2>1. CASE Start(w)
    BY <2>1, <1>a, <1>b DEF Start
  <2>2. CASE AcquireLease(w)
    BY <2>2, <1>a, <1>b DEF AcquireLease, AcquireIndexerLease, LeaseAvailable
  <2>3. CASE LeaseUnavailable(w)
    BY <2>3, <1>a, <1>b DEF LeaseUnavailable
  <2>4. CASE Preflight(w)
    BY <2>4, <1>a, <1>b DEF Preflight, RenewIndexerLease
  <2>5. CASE VerifyTarget(w)
    BY <2>5, <1>a, <1>b DEF VerifyTarget, RenewIndexerLease
  <2>6. CASE RenewAfterTarget(w)
    BY <2>6, <1>a, <1>b DEF RenewAfterTarget, RenewIndexerLease
  <2>7. CASE LoadCheckpoint(w)
    BY <2>7, <1>a, <1>b DEF LoadCheckpoint
  <2>8. CASE Announce(w)
    <3>1. row'.state = "catching_up"
      BY <2>8, <1>a DEF Announce, UpdateIndexerStatus
    <3> QED BY <3>1
  <2>9. CASE BeginRound(w)
    BY <2>9, <1>a, <1>b DEF BeginRound, RenewIndexerLease
  <2>10. CASE ReadCheckpoint(w)
    BY <2>10, <1>a, <1>b DEF ReadCheckpoint
  <2>11. CASE ReadCatalogAndTips(w)
    BY <2>11, <1>a, <1>b DEF ReadCatalogAndTips
  <2>12. CASE PersistStatus(w)
    <3>1. CASE ~(previous[w] = NoLedger \/ CaughtUp(w))
      BY <2>12, <3>1, <1>a, <1>b DEF PersistStatus
    <3>2. CASE previous[w] = NoLedger \/ CaughtUp(w)
      <4>1. UpdateIndexerStatus(w, token[w], RoundState(w), lastTips[w], lastAgreed[w])
        BY <2>12, <3>2 DEF PersistStatus
      <4>2. /\ row'.state = RoundState(w) /\ row'.agreed = lastAgreed[w] /\ row'.tips = lastTips[w]
            /\ row'.writer = w
            /\ TokenFilter(w, token[w])
            /\ NormalizeStatus(RoundState(w), lastTips[w], lastAgreed[w])
        BY <4>1, <1>a DEF UpdateIndexerStatus, ActiveTokenFilter, TokenFilter
      <4>3. Holds(w) /\ pc[w] = "status"
        BY <2>12, <4>2, <1>a DEF Holds, TokensInv, PersistStatus
      <4>4. previous[w] # NoLedger
        BY <4>2 DEF RoundState
      <4>5. lastAgreed[w] = LastCheckpoint
        BY <4>3, <4>4 DEF IndInv, ViewInv
      <4>6. LastCheckpoint' = LastCheckpoint
        BY <2>12, <1>b DEF PersistStatus
      <4> QED BY <4>2, <4>5, <4>6 DEF NormalizeStatus
    <3> QED BY <3>1, <3>2
  <2>13. CASE Fetch(w)
    BY <2>13, <1>a, <1>b DEF Fetch, RenewIndexerLease
  <2>14. CASE BeginPersist(w)
    BY <2>14, <1>a, <1>b DEF BeginPersist, LockActiveIndexerLease
  <2>15. CASE CommitPersist(w)
    <3>1. pc[w] = "commit" /\ WriteLedger(w)
      BY <2>15 DEF CommitPersist
    <3>2. /\ row'.state = LedgerState(w) /\ row'.agreed = ledger[w] /\ row'.tips = lastTips[w]
          /\ row'.writer = w
          /\ NormalizeStatus(LedgerState(w), lastTips[w], ledger[w])
      BY <3>1, <1>a DEF WriteLedger, UpdateIndexerStatus, ActiveTokenFilter, TokenFilter
    <3>3. LastCheckpoint' = ledger[w] /\ ledger[w] # NoLedger
      BY <3>1, WriteExtends
    <3> QED BY <3>2, <3>3 DEF NormalizeStatus
  <2>16. CASE EndRound(w)
    BY <2>16, <1>a, <1>b DEF EndRound
  <2>17. CASE Reject(w)
    BY <2>17, <1>a, <1>b DEF Reject, Throw
  <2>18. CASE RejectTips(w)
    BY <2>18, <1>a, <1>b DEF RejectTips
  <2>19. CASE Halt(w)
    BY <2>19, <1>a, <1>b DEF Halt, HaltIndexer, Exit
  <2>20. CASE HaltFails(w)
    BY <2>20, <1>a, <1>b DEF HaltFails
  <2>21. CASE Release(w)
    BY <2>21, <1>a, <1>b DEF Release, ReleaseIndexerLease, Exit
  <2>22. CASE ReleaseFails(w)
    BY <2>22, <1>a, <1>b DEF ReleaseFails, Exit
  <2>23. CASE CallFails(w)
    BY <2>23, <1>a, <1>b DEF CallFails, Throw
  <2>24. CASE CommitUnacknowledged(w)
    <3>1. pc[w] = "commit" /\ WriteLedger(w)
      BY <2>24 DEF CommitUnacknowledged
    <3>2. /\ row'.state = LedgerState(w) /\ row'.agreed = ledger[w] /\ row'.tips = lastTips[w]
          /\ row'.writer = w
          /\ NormalizeStatus(LedgerState(w), lastTips[w], ledger[w])
      BY <3>1, <1>a DEF WriteLedger, UpdateIndexerStatus, ActiveTokenFilter, TokenFilter
    <3>3. LastCheckpoint' = ledger[w] /\ ledger[w] # NoLedger
      BY <3>1, WriteExtends
    <3> QED BY <3>2, <3>3 DEF NormalizeStatus
  <2>25. CASE HaltUnacknowledged(w)
    BY <2>25, <1>a, <1>b DEF HaltUnacknowledged, HaltIndexer
  <2>26. CASE Stop(w)
    BY <2>26, <1>a, <1>b DEF Stop
  <2>27. CASE Crash(w)
    BY <2>27, <1>a, <1>b DEF Crash, Exit
  <2> QED BY <1>4, <2>1, <2>2, <2>3, <2>4, <2>5, <2>6, <2>7, <2>8, <2>9, <2>10, <2>11, <2>12, <2>13, <2>14, <2>15, <2>16, <2>17, <2>18, <2>19, <2>20, <2>21, <2>22, <2>23, <2>24, <2>25, <2>26, <2>27 DEF Work, Interfere
<1> QED BY <1>1, <1>2, <1>3, <1>4 DEF Next

-----------------------------------------------------------------------------
(* The theorems.                                                           *)

\* The invariant holds before the first worker starts.
LEMMA IndInit == Init => IndInv
<1> SUFFICES ASSUME Init PROVE IndInv
  OBVIOUS
<1>1. TypeOK
  BY TypeInit
<1>2. Persisted = {}
  BY DEF Init, Persisted, NoCheckpoint
<1>3. TokensInv /\ LockInv /\ FetchedInv
  BY DEF Init, FencingInit, TokensInv, LockInv, FetchedInv
<1>4. ChainInv /\ EpochsOrdered /\ CatalogComplete
  BY <1>2 DEF ChainInv, EpochsOrdered, CatalogComplete
<1>5. AgreedInv /\ ViewInv
  BY DEF Init, FencingInit, AgreedInv, ViewInv, Holds
<1>6. StatusNeverAhead /\ ReadyMeansCaughtUp /\ IncidentInv
  BY DEF Init, FencingInit, StatusNeverAhead, ReadyMeansCaughtUp, IncidentInv
<1> QED BY <1>1, <1>3, <1>4, <1>5, <1>6 DEF IndInv

\* The invariant is inductive.
LEMMA IndStep == IndInv /\ [Next]_vars => IndInv'
<1> SUFFICES ASSUME IndInv, [Next]_vars PROVE IndInv'
  OBVIOUS
<1>1. TypeOK' /\ TokensInv' /\ LockInv' /\ FetchedInv'
  BY TypeStep, TokensStep, LockStep, FetchedStep DEF IndInv
<1>2. ChainInv' /\ EpochsOrdered' /\ CatalogComplete'
  BY ChainStep
<1>3. AgreedInv' /\ ViewInv'
  BY AgreedStep, ViewStep
<1>4. StatusNeverAhead' /\ ReadyMeansCaughtUp' /\ IncidentInv'
  BY StatusStep, ReadyStep, IncidentStep DEF IndInv
<1> QED BY <1>1, <1>2, <1>3, <1>4 DEF IndInv

\* Every reachable state satisfies the inductive invariant: whatever workers,
\* sources and faults do, a worker whose token is in the row knows the database.
THEOREM Invariance == Spec => []IndInv
BY IndInit, IndStep, PTL DEF Spec

\* Every variable keeps its type; in particular no epoch passes MaxEpoch and
\* no catalog or batch end leaves the ledger indices.
THEOREM TypeCorrect == Spec => []TypeOK
<1>1. IndInv => TypeOK
  BY DEF IndInv
<1> QED BY <1>1, Invariance, PTL

\* The lease admits one writer: a token belongs to one worker, and the row a
\* worker has locked in persistLedger is its own until the transaction ends.
THEOREM SingleWriter == Spec => []OneWriter
<1>1. IndInv => OneWriter
  BY DEF IndInv, OneWriter, TokensInv, LockInv
<1> QED BY <1>1, Invariance, PTL

\* No writer commits a ledger after a writer with a later token did.
THEOREM NoStaleWrite == Spec => []EpochsOrdered
<1>1. IndInv => EpochsOrdered
  BY DEF IndInv
<1> QED BY <1>1, Invariance, PTL

\* Every projection was computed against exactly the earlier registrations.
THEOREM DeterministicProjection == Spec => []CatalogComplete
<1>1. IndInv => CatalogComplete
  BY DEF IndInv
<1> QED BY <1>1, Invariance, PTL

\* Status row and incidents only ever name persisted ledgers.
THEOREM StatusIsPersisted == Spec => []StatusNeverAhead
<1>1. IndInv => StatusNeverAhead
  BY DEF IndInv
<1> QED BY <1>1, Invariance, PTL

\* A ready row shows the last checkpoint, at the effective tip.
THEOREM ReadyIsCaughtUp == Spec => []ReadyMeansCaughtUp
<1>1. IndInv => ReadyMeansCaughtUp
  BY DEF IndInv
<1> QED BY <1>1, Invariance, PTL

\* haltIndexer never meets an incident of its own epoch.
THEOREM OneIncident == Spec => []IncidentPerEpoch
<1>1. IndInv => IncidentPerEpoch
  BY DEF IndInv, IncidentInv, IncidentPerEpoch
<1> QED BY <1>1, Invariance, PTL

\* The persisted ledgers implement the append-only quorum chain.
THEOREM Refinement == Spec => ImplementsChain
<1> DEFINE chainBar == [i \in Persisted |-> checkpoints[i].ledger]
<1>1. Init => Chain!Init
  <2> SUFFICES ASSUME Init PROVE chainBar = [i \in {} |-> 0]
    BY DEF Chain!Init
  <2>1. Persisted = {}
    BY DEF Init, Persisted, NoCheckpoint
  <2> QED BY <2>1
<1>2. IndInv /\ [Next]_vars => [Chain!Next]_chainBar
  <2> SUFFICES ASSUME IndInv, [Next]_vars PROVE Chain!Next \/ chainBar' = chainBar
    OBVIOUS
  <2>1. CASE checkpoints' = checkpoints
    BY <2>1 DEF Persisted
  <2>2. ASSUME NEW w \in Writers, pc[w] = "commit", WriteLedger(w)
        PROVE  Chain!Next
    <3> DEFINE l == ledger[w]
    <3>1. /\ l \in Quorum /\ l # NoLedger /\ l.index \in Indices
          /\ l.index \notin Persisted
          /\ Continuous(LastCheckpoint, l)
          /\ Persisted' = Persisted \cup {l.index}
          /\ \A i \in Persisted : i < l.index /\ checkpoints'[i] = checkpoints[i]
          /\ checkpoints'[l.index] = [ledger |-> l, catalog |-> Persisted,
                                      writer |-> w, epoch |-> row.epoch]
      BY <2>2, WriteExtends
    <3>2. Chain!Extends(chainBar, l)
      <4>1. CASE LastCheckpoint = NoLedger
        <5>1. DOMAIN chainBar = {}
          BY <4>1, LastIs DEF IndInv
        <5> QED BY <3>1, <4>1, <5>1 DEF Chain!Extends, Continuous
      <4>2. CASE LastCheckpoint # NoLedger
        <5>1. LastCheckpoint.index \in Persisted /\ checkpoints[LastCheckpoint.index].ledger = LastCheckpoint
          BY <4>2, LastPersisted
        <5>2. l.index = LastCheckpoint.index + 1 /\ l.parent = LastCheckpoint.hash
          BY <3>1, <4>2 DEF Continuous
        <5>3. l.index - 1 = LastCheckpoint.index
          BY <5>1, <5>2 DEF Persisted, Indices
        <5> QED BY <3>1, <5>1, <5>2, <5>3 DEF Chain!Extends
      <4> QED BY <4>1, <4>2
    <3>3. chainBar' = [i \in DOMAIN chainBar \cup {l.index} |-> IF i = l.index THEN l ELSE chainBar[i]]
      BY <3>1
    <3> QED BY <3>1, <3>2, <3>3 DEF Chain!Next, Chain!Append, Quorum
  <2> QED BY <2>1, <2>2, DatabaseEffect DEF IndInv
<1> QED BY <1>1, <1>2, Invariance, PTL DEF Spec, ImplementsChain, Chain!Spec

-----------------------------------------------------------------------------
(* Tips and ranges: what a worker publishes never exceeds the tips it saw. *)

InRound == {"announce", "round", "read", "catalog", "status", "fetch", "persist", "commit"}

RangeInv ==
    \A w \in Writers :
        /\ pc[w] \in InRound \cup {"target", "retarget", "load"} => lastTips[w] \in Tips
        /\ Holds(w) /\ pc[w] \in InRound =>
             /\ LastCheckpoint # NoLedger => LastCheckpoint.index <= Effective(lastTips[w])
             /\ lastAgreed[w] # NoLedger => lastAgreed[w].index <= Effective(lastTips[w])
        /\ pc[w] = "status" /\ Replays(w) => Target[w].index <= Effective(lastTips[w])
        /\ pc[w] \in {"fetch", "persist", "commit"} => lastLedger[w] <= Effective(lastTips[w])
        /\ pc[w] \in {"persist", "commit"} => ledger[w].index <= lastLedger[w]

\* When neither tip regresses, neither does their minimum.
LEMMA EffectiveGrows ==
    ASSUME NEW t \in Tips, NEW u \in Tips, ~TipsRegress(t, u)
    PROVE  Effective(t) <= Effective(u) /\ Effective(t) \in Nat /\ Effective(u) \in Nat
BY DEF Tips, Indices, TipsRegress, Effective

\* Every step keeps what active workers know within the tips they saw.
LEMMA RangeStep == IndInv /\ RangeInv /\ [Next]_vars => RangeInv'
<1> SUFFICES ASSUME IndInv, RangeInv, [Next]_vars PROVE RangeInv'
  OBVIOUS
<1> USE DEF RangeInv, Holds, TokenFilter, InRound
<1>a. TypeOK /\ TokensInv /\ RangeInv
  BY DEF IndInv
<1>b. checkpoints' = checkpoints => LastCheckpoint' = LastCheckpoint
  BY CheckpointsStable
<1>1. CASE UNCHANGED vars
  BY <1>1, <1>a, <1>b DEF vars, workerVars, roundVars, fencingVars
<1>2. CASE RunOut
  BY <1>2, <1>a, <1>b DEF RunOut, LeaseExpires, workerVars, roundVars, TypeOK, FencingTypeOK, StatusRow
<1>3. CASE MissRenewal
  BY SMTT(30), <1>3, <1>a, <1>b DEF MissRenewal, LeaseExpires, workerVars, roundVars, TypeOK, FencingTypeOK, StatusRow
<1>4. ASSUME NEW w \in Writers, Work(w) \/ Interfere(w) PROVE RangeInv'
  <2> USE DEF TypeOK, FencingTypeOK, StatusRow, Epochs, Goto, workerVars, roundVars, fencingVars, LocalUnchanged
  <2>1. CASE Start(w)
    BY <2>1, <1>a, <1>b DEF Start
  <2>2. CASE AcquireLease(w)
    BY <2>2, <1>a, <1>b DEF AcquireLease, AcquireIndexerLease, LeaseAvailable
  <2>3. CASE LeaseUnavailable(w)
    BY <2>3, <1>a, <1>b DEF LeaseUnavailable
  <2>4. CASE Preflight(w)
    BY <2>4, <1>a, <1>b DEF Preflight, RenewIndexerLease, TipPairs, Tips
  <2>5. CASE VerifyTarget(w)
    BY <2>5, <1>a, <1>b DEF VerifyTarget, RenewIndexerLease
  <2>6. CASE RenewAfterTarget(w)
    BY <2>6, <1>a, <1>b DEF RenewAfterTarget, RenewIndexerLease
  <2>7. CASE LoadCheckpoint(w)
    BY <2>7, <1>a, <1>b DEF LoadCheckpoint, CheckpointInRange
  <2>8. CASE Announce(w)
    BY <2>8, <1>a, <1>b DEF Announce, UpdateIndexerStatus
  <2>9. CASE BeginRound(w)
    BY <2>9, <1>a, <1>b DEF BeginRound, RenewIndexerLease
  <2>10. CASE ReadCheckpoint(w)
    BY <2>10, <1>a, <1>b DEF ReadCheckpoint
  <2>11. CASE ReadCatalogAndTips(w)
    <3>1. PICK tips \in TipPairs :
            /\ ~TipsRegress(lastTips[w], tips)
            /\ Replays(w) => Target[w].index <= Effective(tips)
            /\ lastTips' = [lastTips EXCEPT ![w] = tips]
      BY <2>11 DEF ReadCatalogAndTips
    <3>2. tips \in Tips /\ lastTips[w] \in Tips
      BY <2>11, <1>a DEF TipPairs, Tips, ReadCatalogAndTips
    <3>3. Effective(lastTips[w]) <= Effective(tips) /\ Effective(lastTips[w]) \in Nat /\ Effective(tips) \in Nat
      BY <3>1, <3>2, EffectiveGrows
    <3>4. \A l \in Ledgers : l.index \in Nat
      BY LedgerConstants DEF Indices
    <3>5. LastCheckpoint \in Ledgers \cup {NoLedger}
      BY LastIs, <1>a
    <3> QED BY <2>11, <3>1, <3>2, <3>3, <3>4, <3>5, <1>a, <1>b DEF ReadCatalogAndTips
  <2>12. CASE PersistStatus(w)
    <3>1. row'.writer = row.writer /\ row'.epoch = row.epoch
      <4>1. CASE previous[w] = NoLedger \/ CaughtUp(w)
        BY ZenonT(40), <2>12, <4>1, <1>a DEF PersistStatus, UpdateIndexerStatus
      <4>2. CASE ~(previous[w] = NoLedger \/ CaughtUp(w))
        BY <2>12, <4>2 DEF PersistStatus
      <4> QED BY <4>1, <4>2
    <3>2. ProcessingLimit(w) <= Effective(lastTips[w])
      BY SMTT(30), <2>12, <1>a DEF PersistStatus, ProcessingLimit, Effective, Tips, Indices
    <3>3. ProcessingLimit(w) \in Nat /\ NextIndex(previous[w]) \in Nat /\ Effective(lastTips[w]) \in Nat
      <4>1. \A l \in Ledgers : l.index \in Nat
        BY LedgerConstants DEF Indices
      <4>2. lastTips[w] \in Tips
        BY <2>12, <1>a DEF PersistStatus
      <4>3. Effective(lastTips[w]) \in Nat
        BY <4>2 DEF Effective, Tips, Indices
      <4>4. Replays(w) => Target[w].index \in Nat
        BY <4>1 DEF Replays
      <4>5. NextIndex(previous[w]) \in Nat
        BY <4>1, <1>a DEF NextIndex
      <4> QED BY <4>3, <4>4, <4>5 DEF ProcessingLimit
    <3>4. lastLedger'[w] <= Effective(lastTips[w])
      BY <2>12, <3>2, <3>3, <1>a DEF PersistStatus
    <3> QED BY <2>12, <3>1, <3>4, <1>a, <1>b DEF PersistStatus
  <2>13. CASE Fetch(w)
    BY <2>13, <1>a, <1>b DEF Fetch, RenewIndexerLease, QuorumLedgers
  <2>14. CASE BeginPersist(w)
    BY <2>14, <1>a, <1>b DEF BeginPersist, LockActiveIndexerLease
  <2>15. CASE CommitPersist(w)
    <3>1. pc[w] = "commit" /\ WriteLedger(w)
      BY <2>15 DEF CommitPersist
    <3>2. TokenFilter(w, token[w]) /\ token' = token /\ row'.writer = row.writer /\ row'.epoch = row.epoch
      BY <3>1, <1>a DEF WriteLedger, UpdateIndexerStatus, ActiveTokenFilter
    <3>3. LastCheckpoint' = ledger[w] /\ ledger[w].index \in Indices
      BY <3>1, WriteExtends
    <3>4. \A v \in Writers : Holds(v)' => v = w
      BY <3>2, <1>a
    <3>5. ledger[w].index <= Effective(lastTips[w])
      BY SMTT(30), <3>1, <3>3, <1>a DEF Effective, Tips, Indices
    <3> QED BY <2>15, <3>2, <3>3, <3>4, <3>5, <1>a DEF CommitPersist
  <2>16. CASE EndRound(w)
    BY <2>16, <1>a, <1>b DEF EndRound, LeaveRound
  <2>17. CASE Reject(w)
    BY <2>17, <1>a, <1>b DEF Reject, Throw, LeaveRound
  <2>18. CASE RejectTips(w)
    BY <2>18, <1>a, <1>b DEF RejectTips, LeaveRound
  <2>19. CASE Halt(w)
    BY <2>19, <1>a, <1>b DEF Halt, HaltIndexer, Exit, LeaveRound
  <2>20. CASE HaltFails(w)
    BY <2>20, <1>a, <1>b DEF HaltFails
  <2>21. CASE Release(w)
    BY <2>21, <1>a, <1>b DEF Release, ReleaseIndexerLease, Exit, LeaveRound
  <2>22. CASE ReleaseFails(w)
    BY <2>22, <1>a, <1>b DEF ReleaseFails, Exit, LeaveRound
  <2>23. CASE CallFails(w)
    BY <2>23, <1>a, <1>b DEF CallFails, Throw, LeaveRound
  <2>24. CASE CommitUnacknowledged(w)
    <3>1. pc[w] = "commit" /\ WriteLedger(w)
      BY <2>24 DEF CommitUnacknowledged
    <3>2. TokenFilter(w, token[w]) /\ token' = token /\ row'.writer = row.writer /\ row'.epoch = row.epoch
      BY <3>1, <1>a DEF WriteLedger, UpdateIndexerStatus, ActiveTokenFilter
    <3>3. LastCheckpoint' = ledger[w] /\ ledger[w].index \in Indices
      BY <3>1, WriteExtends
    <3>4. \A v \in Writers : Holds(v)' => v = w
      BY <3>2, <1>a
    <3>5. ledger[w].index <= Effective(lastTips[w])
      BY <3>1, <3>3, <1>a DEF Effective, Tips, Indices
    <3> QED BY <2>24, <3>2, <3>3, <3>4, <3>5, <1>a DEF CommitUnacknowledged, LeaveRound
  <2>25. CASE HaltUnacknowledged(w)
    BY <2>25, <1>a, <1>b DEF HaltUnacknowledged, HaltIndexer
  <2>26. CASE Stop(w)
    BY <2>26, <1>a, <1>b DEF Stop
  <2>27. CASE Crash(w)
    BY <2>27, <1>a, <1>b DEF Crash, Exit, LeaveRound
  <2> QED BY <1>4, <2>1, <2>2, <2>3, <2>4, <2>5, <2>6, <2>7, <2>8, <2>9, <2>10, <2>11, <2>12, <2>13, <2>14, <2>15, <2>16, <2>17, <2>18, <2>19, <2>20, <2>21, <2>22, <2>23, <2>24, <2>25, <2>26, <2>27 DEF Work, Interfere
<1> QED BY <1>1, <1>2, <1>3, <1>4 DEF Next

\* A worker with an active lease is never refused: its status passes
\* normalizeStatus and the ledger it persists extends the database.
THEOREM NeverRefused == Spec => []StatusAccepted
<1>1. Init => RangeInv
  BY DEF Init, FencingInit, RangeInv, Holds, InRound
<1>2. IndInv /\ RangeInv => StatusAccepted
  <2> SUFFICES ASSUME IndInv, RangeInv, NEW w \in Writers, Active(w)
               PROVE  /\ pc[w] = "announce" => NormalizeStatus("catching_up", lastTips[w], lastAgreed[w])
                      /\ pc[w] = "status" => NormalizeStatus(RoundState(w), lastTips[w], lastAgreed[w])
                      /\ pc[w] \in {"persist", "commit"} =>
                           /\ NormalizeStatus(LedgerState(w), lastTips[w], ledger[w])
                           /\ ledger[w].index \notin Persisted
                           /\ Continuous(LastCheckpoint, ledger[w])
    BY DEF StatusAccepted
  <2> DEFINE t == lastTips[w]
  <2>1. pc[w] \in InRound => Holds(w) /\ t \in Tips
    BY DEF Active, ActiveTokenFilter, Holds, IndInv, TokensInv, RangeInv, InRound
  <2>2. ASSUME NEW l \in Ledgers \cup {NoLedger}, t \in Tips, l # NoLedger => l.index <= Effective(t)
        PROVE  NormalizeStatus("catching_up", t, l)
    <3>1. l # NoLedger => l.index \in Nat
      BY LedgerConstants, <2>2 DEF Indices
    <3> QED BY <2>2, <3>1 DEF NormalizeStatus, Effective, Tips, Indices
  <2>3. ASSUME NEW l \in Ledgers, t \in Tips, l.index = Effective(t)
        PROVE  NormalizeStatus("ready", t, l)
    <3>1. l # NoLedger /\ l.index \in Nat
      BY LedgerConstants DEF Indices, NoLedger
    <3> QED BY <2>3, <3>1 DEF NormalizeStatus, Effective, Tips, Indices, NoTip
  <2>4. lastAgreed[w] \in Ledgers \cup {NoLedger} /\ ledger[w] \in Ledgers \cup {NoLedger}
    BY DEF IndInv, TypeOK
  <2>5. pc[w] \in InRound => NormalizeStatus("catching_up", t, lastAgreed[w])
    BY <2>1, <2>2, <2>4 DEF RangeInv
  <2>6. ASSUME pc[w] = "status" PROVE NormalizeStatus(RoundState(w), t, lastAgreed[w])
    <3>1. CASE RoundState(w) = "catching_up"
      BY <2>5, <2>6, <3>1 DEF InRound
    <3>2. CASE RoundState(w) # "catching_up"
      <4>1. previous[w] # NoLedger /\ CaughtUp(w) /\ RoundState(w) = "ready"
        BY <3>2 DEF RoundState
      <4>2. Holds(w) /\ t \in Tips
        BY <2>1, <2>6 DEF InRound
      <4>3. lastAgreed[w] = previous[w] /\ previous[w] = LastCheckpoint
        BY <4>1, <4>2, <2>6 DEF IndInv, ViewInv
      <4>4. lastAgreed[w] \in Ledgers
        BY <4>1, <4>3, <2>4
      <4>5. lastAgreed[w].index <= Effective(t)
        BY <4>1, <4>2, <4>3, <2>6 DEF RangeInv, InRound
      <4>6. lastAgreed[w].index + 1 > Effective(t)
        BY <4>1, <4>3 DEF CaughtUp, NextIndex
      <4>7. lastAgreed[w].index \in Nat /\ Effective(t) \in Nat
        BY <4>2, <4>4, LedgerConstants DEF Effective, Tips, Indices
      <4> QED BY <4>1, <4>2, <4>4, <4>5, <4>6, <4>7, <2>3
    <3> QED BY <3>1, <3>2
  <2>7. ASSUME pc[w] \in {"persist", "commit"}
        PROVE  /\ NormalizeStatus(LedgerState(w), t, ledger[w])
               /\ ledger[w].index \notin Persisted
               /\ Continuous(LastCheckpoint, ledger[w])
    <3>1. Holds(w) /\ t \in Tips
      BY <2>1, <2>7 DEF InRound
    <3>2. ledger[w] \in Ledgers /\ ledger[w].index \in Nat /\ Effective(t) \in Nat
      BY <3>1, <2>7, LedgerConstants DEF IndInv, FetchedInv, Quorum, Effective, Tips, Indices
    <3>3. ledger[w].index <= Effective(t)
      <4>1. lastLedger[w] \in Nat
        BY DEF IndInv, TypeOK
      <4> QED BY <2>7, <3>2, <4>1 DEF RangeInv
    <3>4. NormalizeStatus(LedgerState(w), t, ledger[w])
      BY <3>1, <3>2, <3>3, <2>2, <2>3 DEF LedgerState
    <3>5. Continuous(LastCheckpoint, ledger[w])
      BY <2>7, <3>1 DEF IndInv, ViewInv, FetchedInv
    <3>6. ledger[w].index \notin Persisted
      <4>1. CASE Persisted = {}
        BY <4>1
      <4>2. CASE Persisted # {}
        <5>1. PICK i \in Persisted : (\A j \in Persisted : j <= i) /\ LastCheckpoint = checkpoints[i].ledger
          BY <4>2, LastIs DEF IndInv
        <5>2. LastCheckpoint # NoLedger /\ LastCheckpoint.index = i
          BY <5>1, <4>2, LastIs DEF IndInv, ChainInv
        <5>3. ledger[w].index = i + 1
          BY <3>5, <5>2 DEF Continuous
        <5> QED BY <5>1, <5>3 DEF Persisted, Indices
      <4> QED BY <4>1, <4>2
    <3> QED BY <3>4, <3>5, <3>6
  <2> QED BY <2>5, <2>6, <2>7 DEF InRound
<1> QED BY <1>1, <1>2, Invariance, RangeStep, PTL DEF Spec

-----------------------------------------------------------------------------
(* Replays: what a replay reads, writes and publishes stays within its      *)
(* target, whatever tips the sources report meanwhile.                     *)

TargetInv ==
    \A w \in Writers : Replays(w) =>
        /\ pc[w] \in {"fetch", "persist", "commit"} => lastLedger[w] <= Target[w].index
        /\ pc[w] \in {"persist", "commit"} => ledger[w].index <= Target[w].index

\* The last ledger of a batch is fixed before it is fetched, and bounds it.
LEMMA TargetStep == TypeOK /\ TargetInv /\ [Next]_vars => TargetInv'
<1> SUFFICES ASSUME TypeOK, TargetInv, [Next]_vars PROVE TargetInv'
  OBVIOUS
<1> USE DEF TargetInv
<1>1. CASE UNCHANGED vars
  BY <1>1 DEF vars, workerVars, roundVars
<1>2. CASE RunOut
  BY <1>2 DEF RunOut, workerVars, roundVars
<1>3. CASE MissRenewal
  BY <1>3 DEF MissRenewal, workerVars, roundVars
<1>4. ASSUME NEW w \in Writers, Work(w) \/ Interfere(w) PROVE TargetInv'
  <2> USE DEF TypeOK, Goto, workerVars, roundVars, LocalUnchanged
  <2>1. CASE Start(w)
    BY <2>1 DEF Start
  <2>2. CASE AcquireLease(w)
    BY <2>2 DEF AcquireLease
  <2>3. CASE LeaseUnavailable(w)
    BY <2>3 DEF LeaseUnavailable
  <2>4. CASE Preflight(w)
    BY <2>4 DEF Preflight
  <2>5. CASE VerifyTarget(w)
    BY <2>5 DEF VerifyTarget
  <2>6. CASE RenewAfterTarget(w)
    BY <2>6 DEF RenewAfterTarget
  <2>7. CASE LoadCheckpoint(w)
    BY <2>7 DEF LoadCheckpoint
  <2>8. CASE Announce(w)
    BY <2>8 DEF Announce
  <2>9. CASE BeginRound(w)
    BY <2>9 DEF BeginRound
  <2>10. CASE ReadCheckpoint(w)
    BY <2>10 DEF ReadCheckpoint
  <2>11. CASE ReadCatalogAndTips(w)
    BY <2>11 DEF ReadCatalogAndTips
  <2>12. CASE PersistStatus(w)
    <3>1. lastLedger'[w] = IF ProcessingLimit(w) < NextIndex(previous[w]) + BatchSize - 1
                           THEN ProcessingLimit(w)
                           ELSE NextIndex(previous[w]) + BatchSize - 1
      BY <2>12 DEF PersistStatus
    <3>2. ASSUME Replays(w)
          PROVE  lastLedger'[w] <= Target[w].index
      <4>1. Target[w].index \in Nat /\ NextIndex(previous[w]) \in Nat
        BY <3>2, LedgerConstants DEF Replays, NextIndex, Indices, NoLedger
      <4> QED BY <3>1, <3>2, <4>1 DEF ProcessingLimit
    <3> QED BY <2>12, <3>2 DEF PersistStatus
  <2>13. CASE Fetch(w)
    <3>1. ledger'[w].index = NextIndex(previous[w]) /\ NextIndex(previous[w]) <= lastLedger[w]
      BY <2>13 DEF Fetch, QuorumLedgers
    <3>2. ASSUME Replays(w)
          PROVE  ledger'[w].index <= Target[w].index
      <4>1. /\ Target[w].index \in Nat /\ NextIndex(previous[w]) \in Nat /\ lastLedger[w] \in Nat
            /\ lastLedger[w] <= Target[w].index
        BY SMTT(30), <2>13, <3>2, LedgerConstants DEF Fetch, Replays, NextIndex, Indices, NoLedger
      <4> QED BY <3>1, <4>1
    <3> QED BY <2>13, <3>2 DEF Fetch
  <2>14. CASE BeginPersist(w)
    BY <2>14 DEF BeginPersist
  <2>15. CASE CommitPersist(w)
    BY <2>15 DEF CommitPersist
  <2>16. CASE EndRound(w)
    BY <2>16 DEF EndRound, LeaveRound
  <2>17. CASE Reject(w)
    BY <2>17 DEF Reject, Throw, LeaveRound
  <2>18. CASE RejectTips(w)
    BY <2>18 DEF RejectTips, LeaveRound
  <2>19. CASE Halt(w)
    BY <2>19 DEF Halt, Exit, LeaveRound
  <2>20. CASE HaltFails(w)
    BY <2>20 DEF HaltFails
  <2>21. CASE Release(w)
    BY <2>21 DEF Release, Exit, LeaveRound
  <2>22. CASE ReleaseFails(w)
    BY <2>22 DEF ReleaseFails, Exit, LeaveRound
  <2>23. CASE CallFails(w)
    BY <2>23 DEF CallFails, Throw, LeaveRound
  <2>24. CASE CommitUnacknowledged(w)
    BY <2>24 DEF CommitUnacknowledged, LeaveRound
  <2>25. CASE HaltUnacknowledged(w)
    BY <2>25 DEF HaltUnacknowledged
  <2>26. CASE Stop(w)
    BY <2>26 DEF Stop
  <2>27. CASE Crash(w)
    BY <2>27 DEF Crash, Exit, LeaveRound
  <2> QED BY <1>4, <2>1, <2>2, <2>3, <2>4, <2>5, <2>6, <2>7, <2>8, <2>9, <2>10, <2>11, <2>12, <2>13, <2>14, <2>15, <2>16, <2>17, <2>18, <2>19, <2>20, <2>21, <2>22, <2>23, <2>24, <2>25, <2>26, <2>27 DEF Work, Interfere
<1> QED BY <1>1, <1>2, <1>3, <1>4 DEF Next

\* Only a worker of the service makes a row ready, and only its own.
LEMMA ReadyByService ==
    ASSUME TypeOK, [Next]_vars, row'.state = "ready", row'.writer \in Writers
    PROVE  \/ row.state = "ready" /\ row.writer = row'.writer
           \/ ~Replays(row'.writer)
<1> DEFINE Goal == \/ row.state = "ready" /\ row.writer = row'.writer
                   \/ ~Replays(row'.writer)
<1> USE DEF TypeOK, FencingTypeOK, StatusRow
<1>1. CASE UNCHANGED vars
  BY <1>1 DEF vars, fencingVars
<1>2. CASE RunOut
  BY <1>2 DEF RunOut, LeaseExpires
<1>3. CASE MissRenewal
  BY <1>3 DEF MissRenewal, LeaseExpires
<1>a. ASSUME NEW w \in Writers, NEW state, NEW t, NEW a,
             UpdateIndexerStatus(w, token[w], state, t, a), state = "ready" => ~Replays(w)
      PROVE  Goal
  BY <1>a DEF UpdateIndexerStatus, ActiveTokenFilter, TokenFilter
<1>4. ASSUME NEW w \in Writers, Work(w) \/ Interfere(w) PROVE Goal
  <2> USE DEF Goto, fencingVars, LocalUnchanged
  <2>1. CASE Start(w)
    BY <2>1 DEF Start
  <2>2. CASE AcquireLease(w)
    BY <2>2 DEF AcquireLease, AcquireIndexerLease
  <2>3. CASE LeaseUnavailable(w)
    BY <2>3 DEF LeaseUnavailable
  <2>4. CASE Preflight(w)
    BY <2>4 DEF Preflight, RenewIndexerLease
  <2>5. CASE VerifyTarget(w)
    BY <2>5 DEF VerifyTarget, RenewIndexerLease
  <2>6. CASE RenewAfterTarget(w)
    BY <2>6 DEF RenewAfterTarget, RenewIndexerLease
  <2>7. CASE LoadCheckpoint(w)
    BY <2>7 DEF LoadCheckpoint
  <2>8. CASE Announce(w)
    BY <2>8, <1>a DEF Announce
  <2>9. CASE BeginRound(w)
    BY <2>9 DEF BeginRound, RenewIndexerLease
  <2>10. CASE ReadCheckpoint(w)
    BY <2>10 DEF ReadCheckpoint
  <2>11. CASE ReadCatalogAndTips(w)
    BY <2>11 DEF ReadCatalogAndTips
  <2>12. CASE PersistStatus(w)
    <3>1. CASE previous[w] = NoLedger \/ CaughtUp(w)
      BY <2>12, <3>1, <1>a DEF PersistStatus, RoundState
    <3>2. CASE ~(previous[w] = NoLedger \/ CaughtUp(w))
      BY <2>12, <3>2 DEF PersistStatus
    <3> QED BY <3>1, <3>2
  <2>13. CASE Fetch(w)
    BY <2>13 DEF Fetch, RenewIndexerLease
  <2>14. CASE BeginPersist(w)
    BY <2>14 DEF BeginPersist, LockActiveIndexerLease
  <2>15. CASE CommitPersist(w)
    BY <2>15, <1>a DEF CommitPersist, WriteLedger, LedgerState
  <2>16. CASE EndRound(w)
    BY <2>16 DEF EndRound
  <2>17. CASE Reject(w)
    BY <2>17 DEF Reject, Throw
  <2>18. CASE RejectTips(w)
    BY <2>18 DEF RejectTips
  <2>19. CASE Halt(w)
    BY <2>19 DEF Halt, HaltIndexer
  <2>20. CASE HaltFails(w)
    BY <2>20 DEF HaltFails
  <2>21. CASE Release(w)
    BY <2>21 DEF Release, ReleaseIndexerLease
  <2>22. CASE ReleaseFails(w)
    BY <2>22 DEF ReleaseFails
  <2>23. CASE CallFails(w)
    BY <2>23 DEF CallFails, Throw
  <2>24. CASE CommitUnacknowledged(w)
    BY <2>24, <1>a DEF CommitUnacknowledged, WriteLedger, LedgerState
  <2>25. CASE HaltUnacknowledged(w)
    BY <2>25 DEF HaltUnacknowledged, HaltIndexer
  <2>26. CASE Stop(w)
    BY <2>26 DEF Stop
  <2>27. CASE Crash(w)
    BY <2>27 DEF Crash
  <2> QED BY <1>4, <2>1, <2>2, <2>3, <2>4, <2>5, <2>6, <2>7, <2>8, <2>9, <2>10, <2>11, <2>12, <2>13, <2>14, <2>15, <2>16, <2>17, <2>18, <2>19, <2>20, <2>21, <2>22, <2>23, <2>24, <2>25, <2>26, <2>27 DEF Work, Interfere
<1> QED BY <1>1, <1>2, <1>3, <1>4 DEF Next

\* The rows of ledger_checkpoints a replay wrote lie within its target.
LEMMA ReplayStep == IndInv /\ TargetInv /\ ReplayBounded /\ [Next]_vars => ReplayBounded'
<1> SUFFICES ASSUME IndInv, TargetInv, ReplayBounded, [Next]_vars PROVE ReplayBounded'
  OBVIOUS
<1>1. ASSUME NEW i \in Persisted', Replays(checkpoints'[i].writer)
      PROVE  i <= Target[checkpoints'[i].writer].index
  <2>1. CASE checkpoints' = checkpoints
    BY <1>1, <2>1 DEF Persisted, ReplayBounded
  <2>2. ASSUME NEW w \in Writers, pc[w] = "commit", WriteLedger(w)
        PROVE  i <= Target[checkpoints'[i].writer].index
    <3>0. /\ Persisted' = Persisted \cup {ledger[w].index}
          /\ \A j \in Persisted : j < ledger[w].index /\ checkpoints'[j] = checkpoints[j]
          /\ checkpoints'[ledger[w].index] = [ledger |-> ledger[w], catalog |-> Persisted,
                                              writer |-> w, epoch |-> row.epoch]
      <4> HIDE DEF Persisted
      <4> QED BY <2>2, WriteExtends
    <3>1. /\ Persisted' = Persisted \cup {ledger[w].index}
          /\ \A j \in Persisted : checkpoints'[j] = checkpoints[j]
          /\ checkpoints'[ledger[w].index].writer = w
      BY <3>0
    <3>2. CASE i \in Persisted
      BY <1>1, <3>1, <3>2 DEF ReplayBounded
    <3>3. CASE i = ledger[w].index
      BY <1>1, <2>2, <3>1, <3>3 DEF TargetInv
    <3> QED BY <3>1, <3>2, <3>3
  <2> QED BY <2>1, <2>2, DatabaseEffect DEF IndInv
<1>2. ASSUME row'.writer \in Writers, Replays(row'.writer), row'.state = "ready"
      PROVE  FALSE
  BY <1>2, ReadyByService DEF IndInv, ReplayBounded
<1> QED BY <1>1, <1>2 DEF ReplayBounded

\* A replay writes no ledger past its target and never reports itself ready, whatever
\* tips the sources report, and whatever the service and the faults do beside it.
THEOREM ReplayStaysInTarget == Spec => []ReplayBounded
<1>1. Init => TargetInv /\ ReplayBounded
  BY DEF Init, FencingInit, TargetInv, ReplayBounded, Persisted, NoCheckpoint
<1>2. IndInv /\ TargetInv /\ [Next]_vars => TargetInv'
  BY TargetStep DEF IndInv
<1> QED BY <1>1, <1>2, ReplayStep, Invariance, PTL DEF Spec

=============================================================================
