--------------------------- MODULE IndexerFencing ---------------------------
(***************************************************************************)
(* The writer lease of the indexer: the row of indexer_status, the table   *)
(* indexer_incidents, and the operations of lib/db/indexer-fencing.ts on   *)
(* them.  Every operation is one PostgreSQL transaction; its effect on the *)
(* row is stated here and IndexerWorker says when a worker calls it.       *)
(*                                                                         *)
(* The wall clock is abstracted to what the code asks of it: whether       *)
(* lease_expires_at is later than clock_timestamp() ("live") or not        *)
(* ("expired").  Renewal moves a live lease further into the future, so it *)
(* leaves "live" as it is, and LeaseExpires lets the deadline pass at any  *)
(* moment at which nobody renewed in time.                                 *)
(***************************************************************************)
EXTENDS Integers, FiniteSets

CONSTANTS
    Writers,        \* processes that may run an IndexerWorker (their writerId)
    NoWriter,       \* writer_id IS NULL
    Ledgers,        \* ledgers the XRPL sources can serve, [index, hash, parent]
    NoHash,         \* the hash of "no ledger"
    Activation,     \* profile.activationLedgerIndex
    MaxIndex,       \* the largest ledger index (2^32 - 1 in the code)
    MaxEpoch        \* the largest writer epoch (MAX_SAFE_EPOCH in the code)

Indices == Activation .. MaxIndex
NoLedger == [index |-> 0, hash |-> NoHash, parent |-> NoHash]
NoTip == 0
NoTips == [primary |-> NoTip, secondary |-> NoTip]
Tips == [primary : Indices, secondary : Indices]

ASSUME FencingConstants ==
    /\ Writers # {} /\ NoWriter \notin Writers
    /\ Activation \in Nat \ {0} /\ MaxIndex \in Nat /\ Activation <= MaxIndex
    /\ MaxEpoch \in Nat \ {0}

\* Ledger indices are uint32 and a ledger's hash commits to its header.
ASSUME LedgerConstants ==
    /\ \A l \in Ledgers : l.index \in Indices /\ l.hash # NoHash
    /\ \A l \in Ledgers : l = [index |-> l.index, hash |-> l.hash, parent |-> l.parent]
    /\ \A l, m \in Ledgers : l.hash = m.hash => l = m

VARIABLES
    row,        \* the row of indexer_status; state "absent" before it is inserted
    incidents,  \* the rows of indexer_incidents
    rowLock     \* the writer whose open transaction has locked the row

fencingVars == <<row, incidents, rowLock>>

States == {"absent", "starting", "catching_up", "ready", "halted"}
Epochs == 0 .. MaxEpoch

StatusRow ==
    [state : States, tips : Tips \cup {NoTips}, agreed : Ledgers \cup {NoLedger},
     writer : Writers \cup {NoWriter}, epoch : Epochs, lease : {"none", "live", "expired"}]

FencingTypeOK ==
    /\ row \in StatusRow
    /\ incidents \subseteq [epoch : Epochs, agreed : Ledgers \cup {NoLedger}]
    /\ rowLock \in Writers \cup {NoWriter}

\* An empty database: the first acquisition inserts the row with epoch 1.
FencingInit ==
    /\ row = [state |-> "absent", tips |-> NoTips, agreed |-> NoLedger,
              writer |-> NoWriter, epoch |-> 0, lease |-> "none"]
    /\ incidents = {}
    /\ rowLock = NoWriter

-----------------------------------------------------------------------------
(* The WHERE clauses. A token is a pair of a writer and an epoch.          *)

TokenFilter(w, e) == row.writer = w /\ row.epoch = e

\* Mutant: the filter forgets the token and asks for a live lease only.
ActiveTokenFilterMutant(w, e) == row.lease = "live"

ActiveTokenFilter(w, e) == TokenFilter(w, e) /\ row.lease = "live"

\* Math.min of the tips both sources reported.
Effective(tips) == IF tips.primary < tips.secondary THEN tips.primary ELSE tips.secondary

\* What normalizeStatus lets through for a state other than halted: a tip that
\* is null is not compared, and ready needs both tips and agreement with them.
NormalizeStatus(state, tips, agreed) ==
    /\ agreed # NoLedger =>
         /\ tips.primary # NoTip => agreed.index <= tips.primary
         /\ tips.secondary # NoTip => agreed.index <= tips.secondary
    /\ state = "ready" =>
         /\ tips.primary # NoTip /\ tips.secondary # NoTip /\ agreed # NoLedger
         /\ agreed.index = Effective(tips)

-----------------------------------------------------------------------------
(* The operations.                                                         *)

\* Mutant: only a released lease can be taken.
LeaseAvailableReleased == row.lease = "none" /\ row.epoch < MaxEpoch

\* The lease can be taken: the row is absent or its lease is not live, and
\* the epoch can still grow. Acquisition locks the row, so it waits while
\* another transaction holds the lock.
LeaseAvailable == row.lease # "live" /\ row.epoch < MaxEpoch

\* Mutant: no locked read, so a takeover does not wait for an open transaction.
AcquireIndexerLeaseNoWait(w) ==
    /\ LeaseAvailable
    /\ row' = [state |-> "starting", tips |-> NoTips, agreed |-> NoLedger,
               writer |-> w, epoch |-> row.epoch + 1, lease |-> "live"]
    /\ UNCHANGED <<incidents, rowLock>>

AcquireIndexerLease(w) ==
    /\ rowLock = NoWriter
    /\ LeaseAvailable
    /\ row' = [state |-> "starting", tips |-> NoTips, agreed |-> NoLedger,
               writer |-> w, epoch |-> row.epoch + 1, lease |-> "live"]
    /\ UNCHANGED <<incidents, rowLock>>

\* renewIndexerLease succeeds exactly for an active token, and pushes the
\* deadline of a live lease forward.
RenewIndexerLease(w, e) == ActiveTokenFilter(w, e) /\ UNCHANGED fencingVars

UpdateIndexerStatus(w, e, state, tips, agreed) ==
    /\ NormalizeStatus(state, tips, agreed)
    /\ ActiveTokenFilter(w, e)
    /\ row' = [row EXCEPT !.state = state, !.tips = tips, !.agreed = agreed]

\* Release and halt need the token only, not an unexpired lease.
ReleaseIndexerLease(w, e) ==
    /\ TokenFilter(w, e)
    /\ row' = [row EXCEPT !.state = "catching_up", !.writer = NoWriter, !.lease = "none"]
    /\ UNCHANGED <<incidents, rowLock>>

\* Mutant: a halt keeps the writer in the row.
HaltIndexerKeepsWriter(w, e, tips, agreed) ==
    /\ TokenFilter(w, e)
    /\ row' = [row EXCEPT !.state = "halted", !.tips = tips, !.agreed = agreed, !.lease = "none"]
    /\ incidents' = incidents \cup {[epoch |-> e, agreed |-> agreed]}
    /\ UNCHANGED rowLock

HaltIndexer(w, e, tips, agreed) ==
    /\ TokenFilter(w, e)
    /\ row' = [row EXCEPT !.state = "halted", !.tips = tips, !.agreed = agreed,
                          !.writer = NoWriter, !.lease = "none"]
    /\ incidents' = incidents \cup {[epoch |-> e, agreed |-> agreed]}
    /\ UNCHANGED rowLock

\* SELECT ... FOR UPDATE of the active row, first statement of persistLedger.
LockActiveIndexerLease(w, e) ==
    /\ rowLock = NoWriter
    /\ ActiveTokenFilter(w, e)
    /\ rowLock' = w

\* Commit or rollback of the transaction that holds the lock.
Unlock(w) == rowLock' = IF rowLock = w THEN NoWriter ELSE rowLock

\* Time passes the deadline.
LeaseExpires ==
    /\ row.lease = "live"
    /\ row' = [row EXCEPT !.lease = "expired"]
    /\ UNCHANGED <<incidents, rowLock>>

=============================================================================
