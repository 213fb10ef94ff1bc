--------------------------- MODULE CliSubmission ---------------------------
(***************************************************************************)
(* `xcs tx submit` and `xcs tx status` (packages/cli) over the SDK's       *)
(* submitSignedTransaction and getTransactionStatus (packages/sdk).        *)
(*                                                                         *)
(* An operator starts the commands any number of times, in several         *)
(* terminals, for one signed blob: after a crash, after a lost answer, or  *)
(* because the first run did not say how it ended.  A run reads its input, *)
(* connects, validates the network, appends to the journal, submits and    *)
(* polls; each await is a step of its own.  Requests and appends to the    *)
(* journal file may fail and a run may be killed anywhere; only the file   *)
(* survives it.  The journal of a run is what the entries with its         *)
(* operationId say: the identifiers are random, so runs never share one.   *)
(***************************************************************************)
EXTENDS Naturals, Sequences, SequencesExt

CONSTANTS
    Runs,               \* the invocations of the command
    LastLedgerSequence, \* of the signed blob
    MaxLedger           \* bound: ledgers the network validates

ASSUME CliAssumption ==
    /\ LastLedgerSequence \in Nat \ {0}
    /\ MaxLedger \in Nat \ {0}

VARIABLES
    run,      \* [Runs -> the state of a process]
    file,     \* [Runs -> the entries of its operation in the journal file]
    validated,\* the last validated ledger
    applied,  \* the ledger that holds the transaction; 0 while none does
    result,   \* its transaction result in that ledger
    relayed,  \* the network holds the blob
    malformed \* rippled answers tem to this blob

vars == <<run, file, validated, applied, result, relayed, malformed>>
network == <<validated, applied, result, relayed, malformed>>

Results == {"tesSUCCESS", "tecFAILED"}
Verdicts == {"none", "validated", "pending", "expired", "not_found"}
Stages == {"signed", "submitted", "failed", "pending", "validated", "expired"}
Codes == {0, 2, 3, 4}

Pcs == {"idle", "input", "connect", "checked", "signed", "submit", "submitted",
        "malformed", "lost", "lookup", "current", "delay", "final", "exited",
        "killed"}

(***************************************************************************)
(* What the command line says: the command, whether a journal file is      *)
(* named, --fail-hard, whether tx status is given the last ledger, and     *)
(* the first thing that is wrong with its arguments and files.             *)
(***************************************************************************)
Commands ==
    [cmd : {"submit"}, journal : BOOLEAN, failHard : BOOLEAN, lls : {TRUE},
     fault : {"none", "profile", "blob", "server", "number", "signature"}]
    \cup [cmd : {"status"}, journal : {FALSE}, failHard : {FALSE},
          lls : BOOLEAN, fault : {"none", "profile", "server", "number", "hash"}]

\* The profile file is unreadable, not JSON or not a network profile.
ReadProfileFails(o) == o.fault = "profile"

\* Neither a file nor a pipe, an unreadable file, or an empty blob.
ReadSignedBlobFails(o) == o.fault = "blob"

\* --server is not a URL of the allowed kind.
WebsocketEndpointFails(o) == o.fault = "server"

\* --timeout, --poll-interval or --last-ledger-sequence is no positive integer.
PositiveIntegerFails(o) == o.fault = "number"

\* The blob cannot be decoded, is not signed by one valid signature or has no
\* LastLedgerSequence; for tx status, the hash is malformed.
InvalidSignedBlob(o) == o.fault \in {"signature", "hash"}

NoCommand == [cmd |-> "none", journal |-> FALSE, failHard |-> FALSE,
              lls |-> FALSE, fault |-> "none"]

RunStates ==
    [pc : Pcs, opt : Commands \cup {NoCommand}, memory : Seq(Stages),
     sent : BOOLEAN, late : BOOLEAN, status : Verdicts,
     txResult : Results \cup {"none"}, printed : Verdicts, code : Codes]

\* A process that has not been started.
Unstarted == [pc |-> "idle", opt |-> NoCommand, memory |-> <<>>, sent |-> FALSE,
              late |-> FALSE, status |-> "none", txResult |-> "none",
              printed |-> "none", code |-> 0]

Init ==
    /\ run = [r \in Runs |-> Unstarted]
    /\ file = [r \in Runs |-> <<>>]
    /\ validated = 1
    /\ applied = 0
    /\ result \in Results
    /\ relayed = FALSE
    /\ malformed \in BOOLEAN

-----------------------------------------------------------------------------
(* The awaits of a run, and its end.                                        *)

Goto(r, pc) == run' = [run EXCEPT ![r].pc = pc]

\* runCli: the process ends with an exit code.
Exit(r, code) == run' = [run EXCEPT ![r].pc = "exited", ![r].code = code]

\* An error that is neither a CliError nor an XcsSdkError of the listed
\* codes: a request or an append that failed.
ExitService(r) == Exit(r, 3) /\ UNCHANGED <<file, network>>

\* CompositeOperationJournal.append: the memory first, then the file.
Appended(r, stage, pc) ==
    /\ run' = [run EXCEPT ![r].pc = pc, ![r].memory = Append(@, stage)]
    /\ file' = IF run[r].opt.journal
               THEN [file EXCEPT ![r] = Append(@, stage)] ELSE file
    /\ UNCHANGED network

\* The file append rejects after the memory has taken the entry.
AppendRejects(r, stage, pc) ==
    /\ run[r].opt.journal
    /\ run' = [run EXCEPT ![r].pc = pc, ![r].memory = Append(@, stage)]
    /\ UNCHANGED <<file, network>>

-----------------------------------------------------------------------------
(* Starting a command.                                                      *)

Start(r, c) ==
    /\ run[r].pc = "idle"
    /\ run' = [run EXCEPT ![r].pc = "input", ![r].opt = c]
    /\ UNCHANGED <<file, network>>

\* What is read before the connection is opened.
ReadInput(r) ==
    /\ run[r].pc = "input"
    /\ IF \/ ReadProfileFails(run[r].opt)
          \/ ReadSignedBlobFails(run[r].opt)
          \/ WebsocketEndpointFails(run[r].opt)
       THEN Exit(r, 2) ELSE Goto(r, "connect")
    /\ UNCHANGED <<file, network>>

\* connectAndValidateNetwork: the server answers with the profile's network
\* ID and the amendment is enabled and supported there.
Connect(r) ==
    /\ run[r].pc = "connect"
    /\ Goto(r, "checked")
    /\ UNCHANGED <<file, network>>

\* It cannot be reached, reports no network ID or another one, or cannot
\* prove the amendment.
ConnectFails(r) ==
    /\ run[r].pc = "connect"
    /\ ExitService(r)

\* The arguments of the SDK call, and what the SDK checks before its first
\* await.
CheckArguments(r) ==
    /\ run[r].pc = "checked"
    /\ IF PositiveIntegerFails(run[r].opt) \/ InvalidSignedBlob(run[r].opt)
       THEN Exit(r, 2)
       ELSE Goto(r, IF run[r].opt.cmd = "submit" THEN "signed" ELSE "lookup")
    /\ UNCHANGED <<file, network>>

\* The connection was dropped before the SDK looked at it.
Disconnected(r) ==
    /\ run[r].pc = "checked"
    /\ run[r].opt.cmd = "submit"
    /\ run[r].opt.fault = "none"
    /\ ExitService(r)

-----------------------------------------------------------------------------
(* submitSignedTransaction.                                                 *)

\* The recovery identifiers, before the first side effect.
AppendSigned(r) ==
    /\ run[r].pc = "signed"
    /\ \/ Appended(r, "signed", "submit")
       \/ /\ run[r].opt.journal
          /\ ExitService(r)

\* rippled keeps a blob for the network unless it is malformed, or fails
\* locally and --fail-hard was asked for.
Relays(r, engine) ==
    engine = "tesSUCCESS" \/ (engine = "tecFAILED" /\ ~run[r].opt.failHard)

Engines == IF malformed THEN {"temMALFORMED"} ELSE Results

\* submit: the request arrives or not, and so does its answer.
Submit(r) ==
    /\ run[r].pc = "submit"
    /\ \E engine \in Engines, arrives, answered \in BOOLEAN :
          /\ answered => arrives
          /\ relayed' = (relayed \/ (arrives /\ Relays(r, engine)))
          /\ run' = [run EXCEPT ![r].pc = IF answered THEN "submitted" ELSE "lost",
                                ![r].sent = TRUE]
    /\ UNCHANGED <<file, validated, applied, result, malformed>>

\* 'submitted'; a rejection of the append is caught like a lost answer.
AppendSubmitted(r) ==
    /\ run[r].pc = "submitted"
    /\ \/ Appended(r, "submitted", IF malformed THEN "malformed" ELSE "lookup")
       \/ AppendRejects(r, "submitted", "lost")

\* A tem answer ends the operation: status not_found.  This append too is
\* inside the try block.
AppendFailed(r) ==
    /\ run[r].pc = "malformed"
    /\ \/ /\ run' = [run EXCEPT ![r].memory = Append(@, "failed"),
                                ![r].pc = "exited", ![r].code = 4,
                                ![r].printed = "not_found"]
          /\ file' = IF run[r].opt.journal
                     THEN [file EXCEPT ![r] = Append(@, "failed")] ELSE file
          /\ UNCHANGED network
       \/ AppendRejects(r, "failed", "lost")

\* The acknowledgement is unavailable: reconcile by hash.
AppendLost(r) ==
    /\ run[r].pc = "lost"
    /\ \/ Appended(r, "pending", "lookup")
       \/ /\ run[r].opt.journal
          /\ ExitService(r)

-----------------------------------------------------------------------------
(* getTransactionStatus and waitForTransaction.                             *)

\* A mutant of Answer: the deadline is looked at before the answer.
AnswerDeadlineFirst(r, status, txResult) ==
    IF run[r].opt.cmd = "status"
    THEN run' = [run EXCEPT ![r].pc = "exited", ![r].code = 0,
                            ![r].status = status, ![r].printed = status,
                            ![r].txResult = txResult]
    ELSE run' = [run EXCEPT ![r].pc = "final",
                            ![r].status = IF run[r].late THEN "pending" ELSE status,
                            ![r].txResult = txResult]

\* The status of one look: tx status prints it, tx submit goes on.
Answer(r, status, txResult) ==
    IF run[r].opt.cmd = "status"
    THEN run' = [run EXCEPT ![r].pc = "exited", ![r].code = 0,
                            ![r].status = status, ![r].printed = status,
                            ![r].txResult = txResult]
    ELSE run' = [run EXCEPT ![r].pc = "final", ![r].status = status,
                            ![r].txResult = txResult]

\* waitForTransaction: neither validated nor expired.  After the deadline the
\* last look is the result, not_found becoming pending; before it, poll again.
Undecided(r, status) ==
    IF run[r].opt.cmd = "status" THEN Answer(r, status, "none")
    ELSE IF run[r].late THEN Answer(r, "pending", "none") ELSE Goto(r, "delay")

\* The open ledger of a server: the one after the last validated, or the one
\* after that while a closed ledger awaits its validation.
OpenLedgers == {validated + 1, validated + 2}

\* A mutant of Lookup: a provisional result counts as one.
LookupProvisional(r) ==
    /\ run[r].pc = "lookup"
    /\ IF applied # 0 THEN Answer(r, "validated", result)
       ELSE \/ relayed /\ Answer(r, "validated", result)
            \/ Goto(r, "current")
    /\ UNCHANGED <<file, network>>

\* tx: validated, known, or not found.
Lookup(r) ==
    /\ run[r].pc = "lookup"
    /\ IF applied # 0 THEN Answer(r, "validated", result)
       ELSE \/ relayed /\ Undecided(r, "pending")
            \/ Goto(r, "current")
    /\ UNCHANGED <<file, network>>

\* ledger_current, asked only when a last ledger is known.
CurrentLedger(r) ==
    /\ run[r].pc = "current"
    /\ IF run[r].opt.lls
       THEN \E open \in OpenLedgers :
               IF open > LastLedgerSequence THEN Answer(r, "expired", "none")
               ELSE Undecided(r, "not_found")
       ELSE Undecided(r, "not_found")
    /\ UNCHANGED <<file, network>>

\* The poll interval.
Delay(r) ==
    /\ run[r].pc = "delay"
    /\ Goto(r, "lookup")
    /\ UNCHANGED <<file, network>>

\* Either request may fail with an error that is not txnNotFound.
RequestFails(r) ==
    /\ run[r].pc \in {"lookup", "current"}
    /\ ExitService(r)

\* The deadline of waitForTransaction passes.
Deadline(r) ==
    /\ run[r].pc \in {"lookup", "current", "delay"}
    /\ run[r].opt.cmd = "submit"
    /\ ~run[r].late
    /\ run' = [run EXCEPT ![r].late = TRUE]
    /\ UNCHANGED <<file, network>>

\* The exit code of tx submit.
SubmitCode(r) ==
    IF run[r].status = "validated" /\ run[r].txResult = "tesSUCCESS" THEN 0 ELSE 4

\* The last entry of the journal, the printed result and the exit code.  When
\* the file cannot be written nothing is printed.
AppendFinal(r) ==
    /\ run[r].pc = "final"
    /\ \/ /\ run' = [run EXCEPT ![r].memory = Append(@, run[r].status),
                                ![r].pc = "exited", ![r].code = SubmitCode(r),
                                ![r].printed = run[r].status]
          /\ file' = IF run[r].opt.journal
                     THEN [file EXCEPT ![r] = Append(@, run[r].status)] ELSE file
          /\ UNCHANGED network
       \/ /\ run[r].opt.journal
          /\ ExitService(r)

-----------------------------------------------------------------------------
(* The world.                                                               *)

Kill(r) ==
    /\ run[r].pc \notin {"idle", "exited", "killed"}
    /\ Goto(r, "killed")
    /\ UNCHANGED <<file, network>>

\* A ledger is validated, with the transaction or without; a transaction is
\* applied at most once and not after its last ledger.
ValidateLedger ==
    /\ validated < MaxLedger
    /\ validated' = validated + 1
    /\ \/ UNCHANGED applied
       \/ /\ relayed /\ applied = 0
          /\ validated' <= LastLedgerSequence
          /\ applied' = validated'
    /\ UNCHANGED <<run, file, result, relayed, malformed>>

\* The steps of a run that make it progress.
Step(r) ==
    \/ ReadInput(r)
    \/ Connect(r)
    \/ ConnectFails(r)
    \/ CheckArguments(r)
    \/ Disconnected(r)
    \/ AppendSigned(r)
    \/ Submit(r)
    \/ AppendSubmitted(r)
    \/ AppendFailed(r)
    \/ AppendLost(r)
    \/ Lookup(r)
    \/ CurrentLedger(r)
    \/ Delay(r)
    \/ RequestFails(r)
    \/ AppendFinal(r)

Next ==
    \/ \E r \in Runs :
          \/ \E c \in Commands : Start(r, c)
          \/ Step(r)
          \/ Deadline(r)
          \/ Kill(r)
    \/ ValidateLedger

Spec == Init /\ [][Next]_vars

\* A process that is not killed keeps running, its requests end (the client
\* answers or times out) and its clock advances.  Nothing is assumed of the
\* network.
Fairness == \A r \in Runs : WF_vars(Step(r)) /\ WF_vars(Deadline(r))

FairSpec == Spec /\ Fairness

-----------------------------------------------------------------------------
(* Properties.                                                              *)

\* The state has its type, the journal included: an operation records at most
\* five entries.
TypeOK ==
    /\ run \in [Runs -> RunStates]
    /\ file \in [Runs -> Seq(Stages)]
    /\ \A r \in Runs : Len(run[r].memory) <= 5
    /\ validated \in 1..MaxLedger
    /\ applied \in 0..MaxLedger
    /\ result \in Results
    /\ relayed \in BOOLEAN
    /\ malformed \in BOOLEAN

\* The exit codes mean what the CLI's README says, whatever the other runs,
\* the failures and the ledger did meanwhile (program.ts tx submit, index.ts
\* runCli).  0 of tx submit: the ledger holds the transaction and applied it
\* with tesSUCCESS.  2: the run has sent nothing and journalled nothing.  4:
\* it reports a transaction that was not validated successfully.
ExitCodeTruthful ==
    \A r \in Runs : run[r].pc = "exited" =>
        /\ run[r].code = 0 /\ run[r].opt.cmd = "submit" =>
              applied # 0 /\ result = "tesSUCCESS"
        /\ run[r].code = 2 => ~run[r].sent /\ file[r] = <<>>
        /\ run[r].code = 4 =>
              ~(run[r].printed = "validated" /\ run[r].txResult = "tesSUCCESS")

\* The recovery identifiers are in the file before the first network side
\* effect (submission.ts 275): whatever kills the run or fails later, the
\* operator who named a journal finds the hash and the last ledger of a blob
\* that may have been relayed.
RelayedIsJournalled ==
    \A r \in Runs :
        run[r].sent /\ run[r].opt.journal =>
            file[r] # <<>> /\ Head(file[r]) = "signed"

\* What the file says of an operation is true: it holds only what the run
\* itself recorded, not earlier there than in the run's memory; 'validated'
\* stands for an applied transaction, 'expired' for a last ledger that is
\* closed, 'failed' for a blob the network never took; and a run that printed
\* its result has left that result as its last line.
JournalTruthful ==
    \A r \in Runs :
        /\ \A i \in 1..Len(file[r]) :
              /\ \E j \in i..Len(run[r].memory) : run[r].memory[j] = file[r][i]
              /\ file[r][i] = "validated" => applied # 0
              /\ file[r][i] = "expired" => validated + 1 >= LastLedgerSequence
              /\ file[r][i] = "failed" => ~relayed
        /\ run[r].opt.journal /\ run[r].printed # "none" =>
              Last(file[r]) = Last(run[r].memory)

\* Exit codes and journal lines are true of the ledger, and a blob is in the
\* journal before it is relayed, whatever fails or kills the run
\* (submission.ts submitSignedTransaction, program.ts tx submit).
CliTruthful ==
    /\ TypeOK
    /\ ExitCodeTruthful
    /\ RelayedIsJournalled
    /\ JournalTruthful

\* A validated transaction is not reported as pending, expired or unknown by
\* a look that begins later, in any terminal: once some run has printed
\* 'validated', the verdicts that other runs form are 'validated' too.
Settled == \E r \in Runs : run[r].printed = "validated"
VerdictNotRetracted ==
    [][\A r \in Runs :
          Settled /\ run[r].pc = "lookup" /\ run'[r].pc # "lookup"
             => run'[r].status = "validated" \/ run'[r].pc = "killed"
                \/ run'[r].code = 3]_vars

\* Every command that is started ends, even when the network never validates
\* another ledger: polling is bounded by --timeout (waitForTransaction).
Terminates ==
    \A r \in Runs : run[r].pc = "input" ~> run[r].pc \in {"exited", "killed"}
=============================================================================
