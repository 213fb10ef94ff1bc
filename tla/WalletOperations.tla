--------------------------- MODULE WalletOperations ---------------------------
(***************************************************************************)
(* The wallet operations of the web application: the journal in IndexedDB  *)
(* that all tabs of a browser share, the lock on a business key, signing,  *)
(* reliable submission, recovery of a signed transaction, and the          *)
(* confirmation of its effect by the indexer.                              *)
(*                                                                         *)
(* A tab runs one call at a time; a call is a sequence of awaits. Every    *)
(* journal operation is one IndexedDB transaction, hence one step. The     *)
(* ledger and the indexer are external. A wallet, a profile or a readiness *)
(* check that refuses ends or diverts the call like any rejected await.    *)
(***************************************************************************)
EXTENDS Integers, FiniteSets

CONSTANTS
    Ops,           \* operation ids, each drawn for one call of signAndSubmit
    Tabs,          \* tabs of the browser
    BusinessKey,   \* operationBusinessKey of every operation
    Window,        \* ledgers between preparation and LastLedgerSequence
    MaxLag,        \* bound on the open ledger's lead over the validated one
    MaxLedger      \* bound on the open ledger's index

ASSUME WalletConstants ==
    /\ Window \in Nat \ {0} /\ MaxLag \in Nat \ {0} /\ MaxLedger \in Nat \ {0}

VARIABLES
    row,         \* the operations store
    tab,         \* the call each tab is in
    txn,         \* the transaction of every operation, signed at last
    open,        \* ledger_current_index
    validated,   \* the last validated ledger
    relayed,     \* transactions the network knows of
    ledger,      \* results of the transactions in validated ledgers
    indexed      \* what the indexer shows for a transaction

external == <<open, validated, relayed, ledger, indexed>>
vars == <<row, tab, txn, external>>

ActiveStages == {"prepared", "signed", "submitted", "pending"}
TerminalStages == {"validated", "expired", "failed"}
\* tesSUCCESS, and any other engine result.
Results == {"tes", "other"}
\* Exact evidence of either kind (confirmed, rejected), and a mismatch.
Verdicts == {"confirmed", "mismatch"}

NoRow == [stage |-> "none", blob |-> FALSE, result |-> "none", confirmation |-> "pending"]
Rows ==
    [stage : ActiveStages \cup TerminalStages \cup {"none"}, blob : BOOLEAN, result : Results \cup {"none"},
     confirmation : Verdicts \cup {"pending", "timeout"}]

NoTxn == [lls |-> 0, malformed |-> FALSE]
Txns == [lls : 0 .. MaxLedger + Window, malformed : BOOLEAN]

IdleTab == [pc |-> "idle"]
Steps ==
    {"prepare", "sign", "persist", "reject", "signed", "guard", "refuse", "submit", "ack",
     "malformed", "lost", "lookup", "current", "owned", "ownedAgain", "record", "evidence",
     "store"}
\* "checking": the status check of a retry, before anything is submitted.
\* "answer": what the last await returned.
TabStates ==
    [pc : Steps, op : Ops, checking : BOOLEAN,
     answer : {"none", "tes", "other", "tem", "validated", "expired", "pending", "timeout"}
                  \cup Verdicts]

TypeOK ==
    /\ row \in [Ops -> Rows]
    /\ tab \in [Tabs -> TabStates \cup {IdleTab}]
    /\ txn \in [Ops -> Txns]
    /\ open \in 1 .. MaxLedger /\ validated \in 0 .. MaxLedger
    /\ relayed \subseteq Ops
    /\ ledger \in [Ops -> Results \cup {"none"}]
    /\ indexed \in [Ops -> Verdicts \cup {"none"}]

Init ==
    /\ row = [o \in Ops |-> NoRow] /\ tab = [t \in Tabs |-> IdleTab]
    /\ txn = [o \in Ops |-> NoTxn]
    /\ open = 1 /\ validated = 0 /\ relayed = {}
    /\ ledger = [o \in Ops |-> "none"] /\ indexed = [o \in Ops |-> "none"]

-----------------------------------------------------------------------------
(* The journal.                                                            *)

\* Mutant: an operation that waits for its result does not hold the lock.
HoldsBusinessLockUntilSubmitted(r) == r.stage \in {"prepared", "signed"}

HoldsBusinessLock(r) ==
    \/ r.stage \in ActiveStages
    \/ r.stage = "validated" /\ r.result = "tes" /\ r.confirmation \in {"pending", "timeout"}

LockedByOther(o) ==
    \E p \in Ops \ {o} : BusinessKey[p] = BusinessKey[o] /\ HoldsBusinessLock(row[p])

\* Mutant: a later terminal entry replaces an earlier one.
ApplyJournalEntryLastTerminal(r, stage, result) ==
    IF r.stage \in TerminalStages /\ stage \notin TerminalStages THEN r
    ELSE [r EXCEPT !.stage = stage,
                   !.blob = IF stage \in TerminalStages THEN FALSE ELSE @,
                   !.result = IF result = "none" THEN @ ELSE result]

\* Mutant: the first engine result is kept.
ApplyJournalEntryFirstResult(r, stage, result) ==
    IF r.stage \in TerminalStages THEN r
    ELSE [r EXCEPT !.stage = stage,
                   !.blob = IF stage \in TerminalStages THEN FALSE ELSE @,
                   !.result = IF @ = "none" THEN result ELSE @]

ApplyJournalEntry(r, stage, result) ==
    IF r.stage \in TerminalStages THEN r
    ELSE [r EXCEPT !.stage = stage,
                   !.blob = IF stage \in TerminalStages THEN FALSE ELSE @,
                   !.result = IF result = "none" THEN @ ELSE result]

CanRetryOperation(r) == r.stage \in {"signed", "submitted", "pending"} /\ r.blob

CanReconfirmOperation(r) ==
    r.stage = "validated" /\ r.result = "tes" /\ r.confirmation # "confirmed"

CanAbandonOperation(r) == r.stage = "prepared" /\ ~r.blob

Goto(t, pc) == tab' = [tab EXCEPT ![t].pc = pc, ![t].answer = "none"]
Return(t) == tab' = [tab EXCEPT ![t] = IdleTab]

\* append() by tab t, which then goes on at pc. A row that is gone is an error.
Append(t, stage, result, pc) ==
    LET o == tab[t].op IN
    /\ IF row[o] = NoRow
       THEN UNCHANGED row /\ Return(t)
       ELSE /\ row' = [row EXCEPT ![o] = ApplyJournalEntry(@, stage, result)]
            /\ IF pc = "idle" THEN Return(t) ELSE Goto(t, pc)
    /\ UNCHANGED <<txn, external>>

\* abandonOperation.
Abandon(t, o) ==
    /\ tab[t].pc = "idle" /\ CanAbandonOperation(row[o])
    /\ row' = [row EXCEPT ![o] = NoRow]
    /\ UNCHANGED <<tab, txn, external>>

-----------------------------------------------------------------------------
(* signAndSubmit.                                                          *)

\* create(), right after the transaction was prepared: the time of the review
\* passes before Sign.
Create(t, o) ==
    /\ tab[t].pc = "idle" /\ txn[o] = NoTxn
    /\ ~LockedByOther(o)
    /\ row' = [row EXCEPT ![o] = [stage |-> "prepared", blob |-> FALSE, result |-> "none",
                                  confirmation |-> "pending"]]
    /\ tab' = [tab EXCEPT ![t] = [pc |-> "prepare", op |-> o, checking |-> FALSE,
                                  answer |-> "none"]]
    /\ txn' = [txn EXCEPT ![o].lls = open + Window]
    /\ UNCHANGED external

AppendPrepared(t) == tab[t].pc = "prepare" /\ Append(t, "prepared", "none", "sign")

\* The wallet signs, and may renew LastLedgerSequence (allowSignerLastLedgerSequenceRefresh).
Sign(t) ==
    LET o == tab[t].op IN
    /\ tab[t].pc = "sign"
    /\ \E lls \in {txn[o].lls, open + Window}, malformed \in BOOLEAN :
         txn' = [txn EXCEPT ![o] = [lls |-> lls, malformed |-> malformed]]
    /\ Goto(t, "persist")
    /\ UNCHANGED <<row, external>>

\* The wallet refuses, or what it returns is not the reviewed transaction.
SignFails(t) ==
    /\ tab[t].pc = "sign"
    /\ Goto(t, "reject")
    /\ UNCHANGED <<row, txn, external>>

PersistSigned(t) ==
    LET o == tab[t].op IN
    /\ tab[t].pc = "persist"
    /\ IF row[o].stage = "prepared" /\ ~LockedByOther(o)
       THEN /\ row' = [row EXCEPT ![o].stage = "signed", ![o].blob = TRUE]
            /\ Goto(t, "signed")
       ELSE UNCHANGED row /\ Goto(t, "reject")
    /\ UNCHANGED <<txn, external>>

AppendFailed(t) == tab[t].pc \in {"reject", "malformed"} /\ Append(t, "failed", "none", "idle")

-----------------------------------------------------------------------------
(* submitSignedTransaction, from signAndSubmit and from retryOperation.    *)

\* Only a first submission has the guards of beforeSubmit; "checking" tells a
\* retry, which never sets it back.
AppendSigned(t) ==
    /\ tab[t].pc = "signed"
    /\ Append(t, "signed", "none", IF tab[t].checking THEN "submit" ELSE "guard")

Guards(t) ==
    /\ tab[t].pc = "guard"
    /\ \E pc \in {"submit", "refuse"} : Goto(t, pc)
    /\ UNCHANGED <<row, txn, external>>

AppendRefused(t) == tab[t].pc = "refuse" /\ Append(t, "signed", "none", "idle")

\* The server relays the transaction or not, and its answer arrives or not.
Submit(t) ==
    LET o == tab[t].op IN
    /\ tab[t].pc = "submit"
    /\ relayed' \in IF txn[o].malformed \/ txn[o].lls < open
                    THEN {relayed} ELSE {relayed, relayed \cup {o}}
    /\ \E answer \in IF txn[o].malformed THEN {"tem"} ELSE Results :
         tab' \in {[tab EXCEPT ![t].pc = "ack", ![t].answer = answer, ![t].checking = FALSE],
                   [tab EXCEPT ![t].pc = "lost", ![t].checking = FALSE]}
    /\ UNCHANGED <<row, txn, open, validated, ledger, indexed>>

AppendSubmitted(t) ==
    /\ tab[t].pc = "ack"
    /\ LET tem == tab[t].answer = "tem" IN
       Append(t, "submitted", IF tem THEN "other" ELSE tab[t].answer,
              IF tem THEN "malformed" ELSE "lookup")

\* An answer that cannot be journalled is handled like a lost one.
AppendRejects(t) ==
    /\ tab[t].pc \in {"ack", "malformed"}
    /\ Goto(t, "lost")
    /\ UNCHANGED <<row, txn, external>>

AppendLost(t) == tab[t].pc = "lost" /\ Append(t, "pending", "none", "lookup")

-----------------------------------------------------------------------------
(* getTransactionStatus: the transaction, then, when it is not found, the  *)
(* open ledger. A retry checks once, a submission polls until its deadline.*)

\* What the caller does with a status that settles nothing.
Undecided(t) ==
    IF tab[t].checking THEN Goto(t, "owned")
    ELSE \/ Goto(t, "lookup")
         \/ tab' = [tab EXCEPT ![t].pc = "record", ![t].answer = "pending"]

Decided(t, status) == tab' = [tab EXCEPT ![t].pc = "record", ![t].answer = status]

\* tx: a server may or may not have heard of a transaction not yet validated.
Lookup(t) ==
    LET o == tab[t].op IN
    /\ tab[t].pc = "lookup"
    /\ IF ledger[o] # "none"
       THEN Decided(t, "validated")
       ELSE (o \in relayed /\ Undecided(t)) \/ Goto(t, "current")
    /\ UNCHANGED <<row, txn, external>>

\* Mutant: expired in its last ledger.
ExpiredEarly(o) == open >= txn[o].lls

Expired(o) == open > txn[o].lls

\* ledger_current.
CurrentLedger(t) ==
    /\ tab[t].pc = "current"
    /\ IF Expired(tab[t].op) THEN Decided(t, "expired") ELSE Undecided(t)
    /\ UNCHANGED <<row, txn, external>>

\* The last entry; a success on the ledger is then confirmed.
Record(t) ==
    LET found == tab[t].answer = "validated"
        result == IF found THEN ledger[tab[t].op] ELSE "none" IN
    /\ tab[t].pc = "record"
    /\ Append(t, tab[t].answer, result, IF result = "tes" THEN "evidence" ELSE "idle")

-----------------------------------------------------------------------------
(* retryOperation, reconfirmOperation and confirmBusinessEvent.            *)

Call(t, o, pc, checking) ==
    /\ tab' = [tab EXCEPT ![t] = [pc |-> pc, op |-> o, checking |-> checking, answer |-> "none"]]
    /\ UNCHANGED <<row, txn, external>>

Retry(t, o) ==
    tab[t].pc = "idle" /\ CanRetryOperation(row[o]) /\ Call(t, o, "lookup", TRUE)

\* assertBusinessLockOwned, before and after the readiness check.
AssertLockOwned(t) ==
    LET o == tab[t].op IN
    /\ tab[t].pc \in {"owned", "ownedAgain"}
    /\ IF HoldsBusinessLock(row[o]) /\ ~LockedByOther(o)
       THEN Goto(t, IF tab[t].pc = "owned" THEN "ownedAgain" ELSE "signed")
       ELSE Return(t)
    /\ UNCHANGED <<row, txn, external>>

Reconfirm(t, o) ==
    tab[t].pc = "idle" /\ CanReconfirmOperation(row[o]) /\ Call(t, o, "evidence", FALSE)

\* waitForIndexedBusinessEvidence: the indexer's answer, or none in time.
WaitForEvidence(t) ==
    /\ tab[t].pc = "evidence"
    /\ \E answer \in {indexed[tab[t].op], "timeout"} \ {"none"} :
         tab' = [tab EXCEPT ![t].pc = "store", ![t].answer = answer]
    /\ UNCHANGED <<row, txn, external>>

SetBusinessConfirmation(t) ==
    LET o == tab[t].op IN
    /\ tab[t].pc = "store"
    /\ row' = IF row[o].stage = "validated" /\ row[o].result = "tes"
              THEN [row EXCEPT ![o].confirmation = tab[t].answer] ELSE row
    /\ Return(t)
    /\ UNCHANGED <<txn, external>>

\* The tab is closed, or an await rejects where nothing is written any more.
Abort(t) ==
    /\ tab[t].pc # "idle"
    /\ Return(t)
    /\ UNCHANGED <<row, txn, external>>

-----------------------------------------------------------------------------
(* The ledger and the indexer.                                             *)

OpenLedger ==
    /\ open < MaxLedger /\ open < validated + MaxLag
    /\ open' = open + 1
    /\ UNCHANGED <<row, tab, txn, validated, relayed, ledger, indexed>>

\* Transactions the next validated ledger may still take.
Live(o) == o \in relayed /\ ledger[o] = "none" /\ txn[o].lls > validated

Validate ==
    /\ validated + 1 < open
    /\ validated' = validated + 1
    /\ \E some \in SUBSET {o \in Ops : Live(o)} : \E result \in [some -> Results] :
         ledger' = [o \in Ops |-> IF o \in some THEN result[o] ELSE ledger[o]]
    /\ UNCHANGED <<row, tab, txn, open, relayed, indexed>>

Index(o, verdict) ==
    /\ ledger[o] = "tes" /\ indexed[o] = "none"
    /\ indexed' = [indexed EXCEPT ![o] = verdict]
    /\ UNCHANGED <<row, tab, txn, open, validated, relayed, ledger>>

CallStep(t) ==
    \/ AppendPrepared(t) \/ Sign(t) \/ SignFails(t) \/ PersistSigned(t) \/ AppendFailed(t)
    \/ AppendSigned(t) \/ Guards(t) \/ AppendRefused(t) \/ Submit(t) \/ AppendSubmitted(t)
    \/ AppendRejects(t) \/ AppendLost(t) \/ Lookup(t) \/ CurrentLedger(t) \/ Record(t)
    \/ AssertLockOwned(t) \/ WaitForEvidence(t) \/ SetBusinessConfirmation(t) \/ Abort(t)

Next ==
    \/ \E t \in Tabs :
         \/ CallStep(t)
         \/ \E o \in Ops : Create(t, o) \/ Retry(t, o) \/ Reconfirm(t, o) \/ Abandon(t, o)
    \/ OpenLedger \/ Validate
    \/ \E o \in Ops, verdict \in Verdicts : Index(o, verdict)

Spec == Init /\ [][Next]_vars

-----------------------------------------------------------------------------
(* Properties.                                                             *)

\* Of the operations with one business key at most one is still under way,
\* whatever tabs do at once: "A second recoverable operation with the same key
\* is rejected".
OneRecoverable ==
    \A o, p \in Ops :
        /\ row[o].stage \in ActiveStages /\ row[p].stage \in ActiveStages
        /\ BusinessKey[o] = BusinessKey[p]
        => o = p

\* Whatever the network may still apply can be found and finished from the
\* journal, unless it was recorded as expired after its last ledger had closed: the
\* blob is stored before the first submission, no tab gives it up, and it is kept
\* exactly until the record settles.
LiveIsRecoverable ==
    \A o \in Ops :
        /\ Live(o) => \/ CanRetryOperation(row[o])
                      \/ row[o].stage = "expired" /\ open > txn[o].lls
        /\ row[o].blob <=> row[o].stage \in {"signed", "submitted", "pending"}

\* What the journal shows of a transaction is what the validated ledger and the
\* indexer say of it, never a preliminary or an unrelated answer.
RecordTruthful ==
    \A o \in Ops : row[o].stage = "validated" =>
        /\ ledger[o] # "none" /\ row[o].result = ledger[o]
        /\ row[o].confirmation \in Verdicts =>
               row[o].result = "tes" /\ row[o].confirmation = indexed[o]

\* A settled record does not regress when another tab's stale entry arrives.
TerminalIsFinal ==
    [][\A o \in Ops : row[o].stage \in TerminalStages =>
           row'[o].stage = row[o].stage /\ row'[o].result = row[o].result]_vars

\* An operation is recorded as expired only once its last ledger has passed
\* without it.
ExpiredNeverApplied ==
    \A o \in Ops : row[o].stage = "expired" => ledger[o] = "none"

\* Exact evidence, once stored, is not replaced by another tab's poll.
ConfirmationIsFinal ==
    [][\A o \in Ops : row[o].stage = "validated" /\ row[o].confirmation = "confirmed"
           => row'[o].confirmation = "confirmed"]_vars

=============================================================================
