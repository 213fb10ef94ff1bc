---------------------------- MODULE IndexerWorker ----------------------------
(***************************************************************************)
(* The IndexerWorker of apps/indexer: several processes, each running      *)
(* start() against one PostgreSQL database and two XRPL sources.           *)
(*                                                                         *)
(* A step of a worker is one database call, followed by the source call    *)
(* and the local code up to the next database call. Between two steps      *)
(* anything may happen: the lease runs out, another worker takes it over,  *)
(* the process dies. A renewal that is followed by another fenced call     *)
(* with no change of the worker's memory in between is part of that call.  *)
(*                                                                         *)
(* A ledger's projection depends on the ledger and on the schema catalog   *)
(* it was resolved against. The catalog is represented by the indices of   *)
(* the ledgers whose registrations it holds.                               *)
(***************************************************************************)
EXTENDS IndexerFencing

CONSTANTS
    PrimaryServes,    \* ledgers the primary source may return
    SecondaryServes,  \* ledgers the secondary source may return
    TipAnswers,       \* validated ledger indices a source may report
    ActivationHash,   \* profile.activationLedgerHash
    BatchSize,        \* options.batchSize
    Target,           \* replay target of each writer, NoLedger for the service
    MaxFaults         \* bound on failed calls, crashes, stops and missed renewals

ASSUME WorkerConstants ==
    /\ PrimaryServes \subseteq Ledgers /\ SecondaryServes \subseteq Ledgers
    /\ TipAnswers \subseteq Indices
    /\ BatchSize \in Nat \ {0} /\ MaxFaults \in Nat
    /\ Target \in [Writers -> Ledgers \cup {NoLedger}]

VARIABLES
    checkpoints,  \* ledger_checkpoints: index -> row, with who wrote it and
                  \* the catalog its projection was computed against
    pc,           \* where each worker is in start()
    token,        \* activeLease.epoch, 0 when undefined
    lastTips, lastAgreed,                   \* fields of each IndexerWorker
    previous, catalog, lastLedger, ledger,  \* the variables of its runOnce()
    faults        \* faults that happened so far

roundVars == <<previous, catalog, lastLedger, ledger>>
workerVars == <<lastTips, lastAgreed, roundVars>>
vars == <<fencingVars, checkpoints, pc, token, workerVars, faults>>

NoCheckpoint == [ledger |-> NoLedger, catalog |-> {}, writer |-> NoWriter, epoch |-> 0]

\* Steps of start() and runOnce(), named for the next database call.
Steps == {"down", "acquire", "preflight", "target", "retarget", "load", "announce",
          "round", "read", "catalog", "status", "fetch", "persist", "commit",
          "halt", "release"}

\* Inside the try block of start(), with a lease.
Trying == Steps \ {"down", "acquire", "halt", "release"}

CheckpointRow ==
    [ledger : Ledgers \cup {NoLedger}, catalog : SUBSET Indices,
     writer : Writers \cup {NoWriter}, epoch : Epochs]

TypeOK ==
    /\ FencingTypeOK
    /\ checkpoints \in [Indices -> CheckpointRow]
    /\ pc \in [Writers -> Steps]
    /\ token \in [Writers -> Epochs]
    /\ lastTips \in [Writers -> Tips \cup {NoTips}]
    /\ lastAgreed \in [Writers -> Ledgers \cup {NoLedger}]
    /\ previous \in [Writers -> Ledgers \cup {NoLedger}]
    /\ catalog \in [Writers -> SUBSET Indices]
    /\ lastLedger \in [Writers -> 0 .. MaxIndex]
    /\ ledger \in [Writers -> Ledgers \cup {NoLedger}]
    /\ faults \in 0 .. MaxFaults

Init ==
    /\ FencingInit
    /\ checkpoints = [i \in Indices |-> NoCheckpoint]
    /\ pc = [w \in Writers |-> "down"]
    /\ token = [w \in Writers |-> 0]
    /\ lastTips = [w \in Writers |-> NoTips]
    /\ lastAgreed = [w \in Writers |-> NoLedger]
    /\ previous = [w \in Writers |-> NoLedger]
    /\ catalog = [w \in Writers |-> {}]
    /\ lastLedger = [w \in Writers |-> 0]
    /\ ledger = [w \in Writers |-> NoLedger]
    /\ faults = 0

-----------------------------------------------------------------------------
(* What the code asks of the database, the sources and its own options.    *)

Persisted == {i \in Indices : checkpoints[i].ledger # NoLedger}

\* getLastCheckpoint: ORDER BY ledger_index DESC LIMIT 1.
LastCheckpoint ==
    IF Persisted = {} THEN NoLedger
    ELSE checkpoints[CHOOSE i \in Persisted : \A j \in Persisted : j <= i].ledger

\* The quorum source answers when both sources return the same ledger, and
\* the answer is rejected when they differ.
QuorumLedgers(i) == {l \in PrimaryServes \cap SecondaryServes : l.index = i}

Diverges(i) == \E p \in PrimaryServes, s \in SecondaryServes :
                  p.index = i /\ s.index = i /\ p # s

TipPairs == [primary : TipAnswers, secondary : TipAnswers]

\* Mutant: only the primary tip is compared.
TipsRegressPrimary(before, now) == now.primary < before.primary

TipsRegress(before, now) == now.primary < before.primary \/ now.secondary < before.secondary

\* Mutant: the parent hash is not compared.
ContinuousByIndex(prev, l) ==
    IF prev = NoLedger
    THEN l.index = Activation /\ l.hash = ActivationHash
    ELSE l.index = prev.index + 1

\* assertLedgerContinuity.
Continuous(prev, l) ==
    IF prev = NoLedger
    THEN l.index = Activation /\ l.hash = ActivationHash
    ELSE l.index = prev.index + 1 /\ l.parent = prev.hash

NextIndex(prev) == IF prev = NoLedger THEN Activation ELSE prev.index + 1

Replays(w) == Target[w] # NoLedger

\* Mutant: the target of a replay does not bound it.
ProcessingLimitMovingTip(w) == Effective(lastTips[w])

ProcessingLimit(w) == IF Replays(w) THEN Target[w].index ELSE Effective(lastTips[w])

Active(w) == ActiveTokenFilter(w, token[w])

Goto(w, from, to) == pc[w] = from /\ pc' = [pc EXCEPT ![w] = to]

\* One of the faults the run allows.
Fault == faults < MaxFaults /\ faults' = faults + 1

LocalUnchanged == UNCHANGED <<token, workerVars, faults>>

\* runOnce ends, normally or not, and its variables go out of scope.
LeaveRound(w) ==
    /\ previous' = [previous EXCEPT ![w] = NoLedger]
    /\ catalog' = [catalog EXCEPT ![w] = {}]
    /\ lastLedger' = [lastLedger EXCEPT ![w] = 0]
    /\ ledger' = [ledger EXCEPT ![w] = NoLedger]

-----------------------------------------------------------------------------
(* start(): acquire the lease, check the sources and the checkpoint.       *)

\* A process starts. Replay first refuses a projection that is not empty.
Start(w) ==
    /\ Goto(w, "down", "acquire")
    /\ Replays(w) => Persisted = {}
    /\ UNCHANGED <<fencingVars, checkpoints, token, workerVars, faults>>

\* acquireLease, then source.connect().
AcquireLease(w) ==
    /\ Goto(w, "acquire", "preflight")
    /\ AcquireIndexerLease(w)
    /\ token' = [token EXCEPT ![w] = row.epoch + 1]
    /\ UNCHANGED <<checkpoints, workerVars, faults>>

\* INDEXER_LEASE_UNAVAILABLE: start() fails before it holds a lease.
LeaseUnavailable(w) ==
    /\ Goto(w, "acquire", "down")
    /\ rowLock = NoWriter /\ ~LeaseAvailable
    /\ UNCHANGED <<fencingVars, checkpoints, token, workerVars, faults>>

\* Renew, then source.preflight(): both sources serve the activation ledger
\* of the profile and report a tip.
Preflight(w) ==
    /\ Goto(w, "preflight", "target")
    /\ RenewIndexerLease(w, token[w])
    /\ \E l \in QuorumLedgers(Activation) : l.hash = ActivationHash
    /\ \E tips \in TipPairs : lastTips' = [lastTips EXCEPT ![w] = tips]
    /\ UNCHANGED <<checkpoints, token, lastAgreed, roundVars, faults>>

\* Renew, then for a replay fetch its target and compare it.
VerifyTarget(w) ==
    /\ Goto(w, "target", IF Replays(w) THEN "retarget" ELSE "load")
    /\ RenewIndexerLease(w, token[w])
    /\ Replays(w) => /\ Target[w].index <= Effective(lastTips[w])
                     /\ Target[w] \in QuorumLedgers(Target[w].index)
    /\ UNCHANGED checkpoints /\ LocalUnchanged

\* The renewal that ends the verification of a replay target.
RenewAfterTarget(w) ==
    /\ Goto(w, "retarget", "load")
    /\ RenewIndexerLease(w, token[w])
    /\ UNCHANGED checkpoints /\ LocalUnchanged

\* The conditions on the last checkpoint that do not involve the sources.
CheckpointInRange(w) ==
    /\ Replays(w) => LastCheckpoint.index <= Target[w].index
    /\ LastCheckpoint.index <= Effective(lastTips[w])

\* getLastCheckpoint, and the quorum must still serve that very ledger.
LoadCheckpoint(w) ==
    /\ Goto(w, "load", "announce")
    /\ LastCheckpoint # NoLedger =>
         CheckpointInRange(w) /\ LastCheckpoint \in QuorumLedgers(LastCheckpoint.index)
    /\ lastAgreed' = [lastAgreed EXCEPT ![w] = LastCheckpoint]
    /\ UNCHANGED <<fencingVars, checkpoints, token, lastTips, roundVars, faults>>

\* Renew, then persistRuntimeStatus('catching_up').
Announce(w) ==
    /\ Goto(w, "announce", "round")
    /\ UpdateIndexerStatus(w, token[w], "catching_up", lastTips[w], lastAgreed[w])
    /\ UNCHANGED <<incidents, rowLock, checkpoints>> /\ LocalUnchanged

-----------------------------------------------------------------------------
(* runOnce().                                                              *)

BeginRound(w) ==
    /\ Goto(w, "round", "read")
    /\ RenewIndexerLease(w, token[w])
    /\ UNCHANGED checkpoints /\ LocalUnchanged

ReadCheckpoint(w) ==
    /\ Goto(w, "read", "catalog")
    /\ previous' = [previous EXCEPT ![w] = LastCheckpoint]
    /\ lastAgreed' = [lastAgreed EXCEPT ![w] = IF LastCheckpoint = NoLedger THEN @ ELSE LastCheckpoint]
    /\ UNCHANGED <<fencingVars, checkpoints, token, lastTips, catalog, lastLedger, ledger, faults>>

\* getSchemaCatalog, then the tips of both sources, which must not regress
\* and must reach a replay target.
ReadCatalogAndTips(w) ==
    /\ Goto(w, "catalog", "status")
    /\ \E tips \in TipPairs :
         /\ ~TipsRegress(lastTips[w], tips)
         /\ Replays(w) => Target[w].index <= Effective(tips)
         /\ lastTips' = [lastTips EXCEPT ![w] = tips]
    /\ catalog' = [catalog EXCEPT ![w] = Persisted]
    /\ UNCHANGED <<fencingVars, checkpoints, token, lastAgreed, previous, lastLedger, ledger, faults>>

CaughtUp(w) == NextIndex(previous[w]) > Effective(lastTips[w])

\* The state a round that has nothing to persist yet publishes.
RoundState(w) ==
    IF ~Replays(w) /\ previous[w] # NoLedger /\ CaughtUp(w)
    THEN "ready" ELSE "catching_up"

\* Renew; publish a status unless a ledger is about to be persisted with its
\* own; fix the last ledger of the batch.
PersistStatus(w) ==
    /\ Goto(w, "status", "fetch")
    /\ IF previous[w] = NoLedger \/ CaughtUp(w)
       THEN UpdateIndexerStatus(w, token[w], RoundState(w), lastTips[w], lastAgreed[w])
       ELSE Active(w) /\ UNCHANGED row
    /\ LET batchEnd == NextIndex(previous[w]) + BatchSize - 1
       IN lastLedger' = [lastLedger EXCEPT ![w] =
                           IF ProcessingLimit(w) < batchEnd THEN ProcessingLimit(w) ELSE batchEnd]
    /\ UNCHANGED <<incidents, rowLock, checkpoints, token, lastTips, lastAgreed,
                   previous, catalog, ledger, faults>>

\* Mutant: lastAgreed moves before the ledger is persisted.
FetchAgreesEarly(w) ==
    /\ Goto(w, "fetch", "persist")
    /\ NextIndex(previous[w]) <= lastLedger[w]
    /\ RenewIndexerLease(w, token[w])
    /\ \E l \in QuorumLedgers(NextIndex(previous[w])) :
         /\ Continuous(previous[w], l)
         /\ ledger' = [ledger EXCEPT ![w] = l]
         /\ lastAgreed' = [lastAgreed EXCEPT ![w] = l]
    /\ UNCHANGED <<checkpoints, token, lastTips, previous, catalog, lastLedger, faults>>

\* One turn of the loop: renew, fetch, check continuity, project.
Fetch(w) ==
    /\ Goto(w, "fetch", "persist")
    /\ NextIndex(previous[w]) <= lastLedger[w]
    /\ RenewIndexerLease(w, token[w])
    /\ \E l \in QuorumLedgers(NextIndex(previous[w])) :
         /\ Continuous(previous[w], l)
         /\ ledger' = [ledger EXCEPT ![w] = l]
    /\ UNCHANGED <<checkpoints, token, lastTips, lastAgreed, previous, catalog, lastLedger, faults>>

\* persistLedger opens its transaction: lock the lease row, and compare with
\* the checkpoints in the database.
Admissible(l) ==
    IF l.index \in Persisted
    THEN checkpoints[l.index].ledger = l
    ELSE Continuous(LastCheckpoint, l)

BeginPersist(w) ==
    /\ Goto(w, "persist", "commit")
    /\ LockActiveIndexerLease(w, token[w])
    /\ Admissible(ledger[w])
    /\ UNCHANGED <<row, incidents, checkpoints>> /\ LocalUnchanged

\* The state published with a ledger.
LedgerState(w) ==
    IF ~Replays(w) /\ ledger[w].index = Effective(lastTips[w])
    THEN "ready" ELSE "catching_up"

\* Mutant: the checkpoint is written without the status.
WriteLedgerOnly(w) ==
    LET l == ledger[w] IN
    /\ Active(w) /\ UNCHANGED row
    /\ checkpoints' = IF l.index \in Persisted THEN checkpoints
                      ELSE [checkpoints EXCEPT ![l.index] =
                              [ledger |-> l, catalog |-> catalog[w],
                               writer |-> w, epoch |-> token[w]]]
    /\ Unlock(w)
    /\ UNCHANGED <<incidents, token>>

\* The writes of persistLedger and its commit: projection, checkpoint and
\* status together, under the lock and only while the lease is live.
WriteLedger(w) ==
    LET l == ledger[w] IN
    /\ UpdateIndexerStatus(w, token[w], LedgerState(w), lastTips[w], l)
    /\ checkpoints' = IF l.index \in Persisted THEN checkpoints
                      ELSE [checkpoints EXCEPT ![l.index] =
                              [ledger |-> l, catalog |-> catalog[w],
                               writer |-> w, epoch |-> token[w]]]
    /\ Unlock(w)
    /\ UNCHANGED <<incidents, token>>

\* Mutant: the catalog of the round is not extended.
CommitPersistStaleCatalog(w) ==
    /\ Goto(w, "commit", "fetch")
    /\ WriteLedger(w)
    /\ previous' = [previous EXCEPT ![w] = ledger[w]]
    /\ lastAgreed' = [lastAgreed EXCEPT ![w] = ledger[w]]
    /\ ledger' = [ledger EXCEPT ![w] = NoLedger]
    /\ UNCHANGED <<catalog, lastTips, lastLedger, faults>>

\* After the commit the catalog gains the registrations of this ledger.
CommitPersist(w) ==
    /\ Goto(w, "commit", "fetch")
    /\ WriteLedger(w)
    /\ catalog' = [catalog EXCEPT ![w] = @ \cup {ledger[w].index}]
    /\ previous' = [previous EXCEPT ![w] = ledger[w]]
    /\ lastAgreed' = [lastAgreed EXCEPT ![w] = ledger[w]]
    /\ ledger' = [ledger EXCEPT ![w] = NoLedger]
    /\ UNCHANGED <<lastTips, lastLedger, faults>>

\* The commit succeeds and its acknowledgement is lost.
CommitUnacknowledged(w) ==
    /\ Goto(w, "commit", "halt")
    /\ WriteLedger(w)
    /\ Fault
    /\ LeaveRound(w)
    /\ UNCHANGED <<lastTips, lastAgreed>>

\* The batch is done; a replay that reached its target ends.
EndRound(w) ==
    /\ Goto(w, "fetch", IF Replays(w) /\ NextIndex(previous[w]) > Target[w].index
                        THEN "release" ELSE "round")
    /\ NextIndex(previous[w]) > lastLedger[w]
    /\ LeaveRound(w)
    /\ UNCHANGED <<fencingVars, checkpoints, token, lastTips, lastAgreed, faults>>

-----------------------------------------------------------------------------
(* Failures.                                                               *)

\* The checks of the code that throw, by step. Everything fenced throws
\* INDEXER_LEASE_LOST once the token is not active.
Unfenced == {"load", "read", "catalog"}

Rejected(w) ==
    \/ /\ pc[w] \in Trying \ Unfenced
       /\ pc[w] = "fetch" => NextIndex(previous[w]) <= lastLedger[w]
       /\ ~Active(w)
    \/ /\ pc[w] = "preflight"
       /\ Diverges(Activation) \/ \E l \in QuorumLedgers(Activation) : l.hash # ActivationHash
    \/ /\ pc[w] = "target" /\ Replays(w)
       /\ \/ Target[w].index > Effective(lastTips[w])
          \/ Diverges(Target[w].index)
          \/ \E l \in QuorumLedgers(Target[w].index) : l # Target[w]
    \/ /\ pc[w] = "load" /\ LastCheckpoint # NoLedger
       /\ \/ ~CheckpointInRange(w)
          \/ Diverges(LastCheckpoint.index)
          \/ \E l \in QuorumLedgers(LastCheckpoint.index) : l # LastCheckpoint
    \/ /\ pc[w] = "announce"
       /\ ~NormalizeStatus("catching_up", lastTips[w], lastAgreed[w])
    \/ /\ pc[w] = "status" /\ (previous[w] = NoLedger \/ CaughtUp(w))
       /\ ~NormalizeStatus(RoundState(w), lastTips[w], lastAgreed[w])
    \/ /\ pc[w] = "fetch" /\ NextIndex(previous[w]) <= lastLedger[w]
       /\ \/ Diverges(NextIndex(previous[w]))
          \/ \E l \in QuorumLedgers(NextIndex(previous[w])) : ~Continuous(previous[w], l)
    \/ /\ pc[w] = "persist" /\ rowLock = NoWriter /\ ~Admissible(ledger[w])
    \/ /\ pc[w] = "commit"
       /\ ~NormalizeStatus(LedgerState(w), lastTips[w], ledger[w])

\* An error inside the try block: an open transaction rolls back and the
\* catch block runs.
Throw(w) ==
    /\ pc' = [pc EXCEPT ![w] = "halt"]
    /\ Unlock(w)
    /\ LeaveRound(w)
    /\ UNCHANGED <<row, incidents, checkpoints, token, lastTips, lastAgreed>>

Reject(w) == Rejected(w) /\ Throw(w) /\ UNCHANGED faults

\* The tips of a round regress or fall short of a replay target. A target
\* error is thrown after lastTips is set, a regression before.
RejectTips(w) ==
    /\ pc[w] = "catalog"
    /\ pc' = [pc EXCEPT ![w] = "halt"]
    /\ \E tips \in TipPairs :
         /\ TipsRegress(lastTips[w], tips) \/ (Replays(w) /\ Target[w].index > Effective(tips))
         /\ lastTips' = [lastTips EXCEPT ![w] = IF TipsRegress(@, tips) THEN @ ELSE tips]
    /\ LeaveRound(w)
    /\ UNCHANGED <<fencingVars, checkpoints, token, lastAgreed, faults>>

\* A source or the database does not answer, or a query fails.
CallFails(w) == pc[w] \in Trying /\ Throw(w) /\ Fault

\* The signal is aborted between two rounds.
Stop(w) ==
    /\ Goto(w, "round", "release")
    /\ Fault
    /\ UNCHANGED <<fencingVars, checkpoints, token, workerVars>>

\* The process is over: everything it knew is gone.
Exit(w) ==
    /\ pc' = [pc EXCEPT ![w] = "down"]
    /\ token' = [token EXCEPT ![w] = 0]
    /\ lastTips' = [lastTips EXCEPT ![w] = NoTips]
    /\ lastAgreed' = [lastAgreed EXCEPT ![w] = NoLedger]
    /\ LeaveRound(w)
    /\ UNCHANGED checkpoints

\* The catch block: haltIndexer, and then there is nothing to release.
Halt(w) ==
    /\ pc[w] = "halt"
    /\ HaltIndexer(w, token[w], lastTips[w], lastAgreed[w])
    /\ Exit(w)
    /\ UNCHANGED faults

\* haltIndexer finds another token in the row, or the call fails.
HaltFails(w) ==
    /\ Goto(w, "halt", "release")
    /\ IF TokenFilter(w, token[w]) THEN Fault ELSE UNCHANGED faults
    /\ UNCHANGED <<fencingVars, checkpoints, token, workerVars>>

\* haltIndexer commits and its acknowledgement is lost.
HaltUnacknowledged(w) ==
    /\ Goto(w, "halt", "release")
    /\ HaltIndexer(w, token[w], lastTips[w], lastAgreed[w])
    /\ Fault
    /\ UNCHANGED <<checkpoints, token, workerVars>>

Release(w) ==
    /\ pc[w] = "release"
    /\ ReleaseIndexerLease(w, token[w])
    /\ Exit(w)
    /\ UNCHANGED faults

ReleaseFails(w) ==
    /\ pc[w] = "release"
    /\ IF TokenFilter(w, token[w]) THEN Fault ELSE UNCHANGED faults
    /\ Exit(w)
    /\ UNCHANGED fencingVars

Crash(w) ==
    /\ pc[w] # "down"
    /\ Fault
    /\ Exit(w)
    /\ Unlock(w)
    /\ UNCHANGED <<row, incidents>>

\* Whether a running worker holds the token in the row. Such a worker renews
\* in time unless it stalls; a lease nobody renews any more runs out.
Renewed == \E w \in Writers : TokenFilter(w, token[w]) /\ pc[w] # "down"

RunOut ==
    /\ ~Renewed
    /\ LeaseExpires
    /\ UNCHANGED <<checkpoints, pc, token, workerVars, faults>>

MissRenewal ==
    /\ Renewed
    /\ LeaseExpires
    /\ Fault
    /\ UNCHANGED <<checkpoints, pc, token, workerVars>>

-----------------------------------------------------------------------------

Work(w) ==
    \/ Start(w) \/ AcquireLease(w) \/ LeaseUnavailable(w)
    \/ Preflight(w) \/ VerifyTarget(w) \/ RenewAfterTarget(w) \/ LoadCheckpoint(w) \/ Announce(w)
    \/ BeginRound(w) \/ ReadCheckpoint(w) \/ ReadCatalogAndTips(w) \/ PersistStatus(w)
    \/ Fetch(w) \/ BeginPersist(w) \/ CommitPersist(w) \/ EndRound(w)
    \/ Reject(w) \/ RejectTips(w) \/ Halt(w) \/ HaltFails(w) \/ Release(w) \/ ReleaseFails(w)

Interfere(w) ==
    \/ CallFails(w) \/ CommitUnacknowledged(w) \/ HaltUnacknowledged(w) \/ Stop(w) \/ Crash(w)

Next == RunOut \/ MissRenewal \/ \E w \in Writers : Work(w) \/ Interfere(w)

Spec == Init /\ [][Next]_vars

\* docker-compose restarts the service, a running process takes its next
\* step, and time passes.
Fairness == WF_vars(RunOut) /\ \A w \in Writers : WF_vars(Work(w))

FairSpec == Spec /\ Fairness

-----------------------------------------------------------------------------
(* Properties.                                                             *)

\* One writer at a time: a token is held by at most one worker, so two workers
\* never both pass a fenced call, and a worker with an open persistLedger
\* transaction owns the row until it ends, even when its lease has expired.
OneWriter ==
    /\ \A v, w \in Writers : token[v] = token[w] /\ token[v] # 0 => v = w
    /\ \A w \in Writers : token[w] <= row.epoch
    /\ rowLock # NoWriter => TokenFilter(rowLock, token[rowLock])

\* No stale writer commits after a takeover: the epochs of the rows of
\* ledger_checkpoints never decrease along the chain.
EpochsOrdered ==
    \A i, j \in Persisted : i < j => checkpoints[i].epoch <= checkpoints[j].epoch

\* Every ledger was projected against the registrations of exactly the earlier
\* ledgers, whoever persisted them and however often the writer changed. This
\* is what makes a replay produce the same projection.
CatalogComplete ==
    \A i \in Persisted : checkpoints[i].catalog = {j \in Persisted : j < i}

\* The last agreed ledger that the status row or an incident reports is a
\* persisted checkpoint, also after lost acknowledgements and takeovers.
StatusNeverAhead ==
    \A a \in {row.agreed} \cup {n.agreed : n \in incidents} :
        a # NoLedger => checkpoints[a.index].ledger = a

\* A ready row shows the last checkpoint, it stands at the lower of the two
\* tips, and its writer is known.
ReadyMeansCaughtUp ==
    row.state = "ready" =>
        /\ row.agreed = LastCheckpoint /\ row.agreed # NoLedger
        /\ row.agreed.index = Effective(row.tips)
        /\ row.writer # NoWriter

\* haltIndexer never violates the primary key of indexer_incidents: the epoch
\* of a row that still has its writer has no incident yet.
IncidentPerEpoch ==
    row.writer # NoWriter => \A n \in incidents : n.epoch # row.epoch

\* A worker whose lease is active never has its status rejected by
\* normalizeStatus, and finds no conflicting checkpoint when it persists.
StatusAccepted ==
    \A w \in Writers : Active(w) =>
        /\ pc[w] = "announce" => NormalizeStatus("catching_up", lastTips[w], lastAgreed[w])
        /\ pc[w] = "status" => NormalizeStatus(RoundState(w), lastTips[w], lastAgreed[w])
        /\ pc[w] \in {"persist", "commit"} =>
             /\ NormalizeStatus(LedgerState(w), lastTips[w], ledger[w])
             /\ ledger[w].index \notin Persisted
             /\ Continuous(LastCheckpoint, ledger[w])

\* A replay stops at its target and never publishes ready.
ReplayBounded ==
    /\ \A i \in Persisted : LET v == checkpoints[i].writer
                            IN Replays(v) => i <= Target[v].index
    /\ row.writer \in Writers /\ Replays(row.writer) => row.state # "ready"

\* The persisted ledgers are an append-only, parent-linked quorum chain.
Chain == INSTANCE CheckpointChain WITH
    Quorum <- PrimaryServes \cap SecondaryServes,
    chain <- [i \in Persisted |-> checkpoints[i].ledger]

ImplementsChain == Chain!Spec

\* Once the faults are over some worker keeps the lease, persists every ledger
\* up to the tip and stays ready: no lease is lost for good, and workers do
\* not keep each other out.
EventuallyReady ==
    <>[](row.state = "ready" /\ row.lease = "live" /\ row.agreed.index = MaxIndex)

\* replay refuses a projection that already has checkpoints: whatever a replay
\* writes belongs to a chain it wrote from the activation ledger on.
ReplayCreateOnly ==
    \A i \in Persisted : Replays(checkpoints[i].writer) =>
        checkpoints[Activation].epoch = checkpoints[i].epoch

=============================================================================
