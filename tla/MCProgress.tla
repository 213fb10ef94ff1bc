----------------------------- MODULE MCProgress -----------------------------
(***************************************************************************)
(* What must come to pass: transactions that are retried (which this       *)
(* module extends) end, and so do pins, a submission by the command line   *)
(* client and the API's fetch of a payload; and the indexer catches up.    *)
(* They share no state, so they are not interleaved: part says which of    *)
(* them a behaviour is about, and the others rest in their initial state.  *)
(* Fairness is that of each part.                                          *)
(***************************************************************************)
EXTENDS SerializableRetry

CONSTANTS c1, c2, d1, h1, h2, i1, i2, nobody, j1, p1, w1, r1, t1, name, public, private

VARIABLES
    part,
    now, challenge, pin, pinning, janitor, store, faults,            \* Pinning
    run, file, validated, applied, result, relayed, malformed,       \* CliSubmission
    disk, printed, passed, cred, known, v, f,                        \* PayloadVerification
    row, incidents, rowLock, checkpoints, pc, token, lastTips, lastAgreed,
    previous, catalog, lastLedger, ledger, mishaps                   \* IndexerWorker

pinVars == <<now, challenge, pin, pinning, janitor, store, faults>>
cliVars == <<run, file, validated, applied, result, relayed, malformed>>
payloadVars == <<disk, printed, passed, cred, known, v, f>>
indexerVars == <<row, incidents, rowLock, checkpoints, pc, token, lastTips, lastAgreed,
                 previous, catalog, lastLedger, ledger, mishaps>>
allVars == <<part, vars, pinVars, cliVars, payloadVars, indexerVars>>

Challenges == {h1, h2}
Calls == {c1, c2}
Janitors == {j1}
Wallets == {w1}
Ips == {p1}
Cids == {d1}
Runs == {r1}
Modes == {"resolve"}
Kinds == {"https"}
Tuples == {t1}
Names == {name}
Public == {public}
Private == {private}

\* A payload, and one over the limit.
Contents ==
    {[tuple |-> t1, fits |-> TRUE, canonical |-> TRUE, large |-> FALSE],
     [tuple |-> t1, fits |-> TRUE, canonical |-> TRUE, large |-> TRUE]}

\* Two calls and a janitor, with two faults.
Pins == INSTANCE Pinning WITH
    call <- pinning, ChallengeTtl <- 1, PinTtl <- 2, Day <- 1, DailyLimit <- 2,
    BatchSize <- 1, RequestTime <- 1, MaxTime <- 3, MaxFaults <- 2

\* One run of the command.
Cli == INSTANCE CliSubmission WITH LastLedgerSequence <- 2, MaxLedger <- 3

\* A name, a public and a private address; one redirect; a body of one chunk.
Payload == INSTANCE PayloadVerification WITH MaxRedirects <- 1, Limit <- 1

Workers == {i1, i2}
NoHash == "none"
L1 == [index |-> 1, hash |-> "h1", parent |-> NoHash]
L2 == [index |-> 2, hash |-> "h2", parent |-> "h1"]
L3 == [index |-> 3, hash |-> "h3", parent |-> "h2"]
Honest == {L1, L2, L3}
Top == {3}
NoTarget == [index |-> 0, hash |-> NoHash, parent |-> NoHash]
BothServe == [w \in Workers |-> NoTarget]

\* Two service writers, honest sources, finitely many faults.
Service == INSTANCE IndexerWorker WITH
    faults <- mishaps, Writers <- Workers, NoWriter <- nobody, Ledgers <- Honest,
    PrimaryServes <- Honest, SecondaryServes <- Honest, TipAnswers <- Top,
    ActivationHash <- "h1", Target <- BothServe, Activation <- 1, MaxIndex <- 3,
    MaxEpoch <- 5, BatchSize <- 2, MaxFaults <- 2

ProgressInit ==
    /\ part \in {"retry", "pins", "cli", "payload", "service"}
    /\ Init /\ Pins!Init /\ Cli!Init /\ Payload!Init /\ Service!Init
    /\ part # "cli" => result = "tesSUCCESS" /\ ~malformed

ProgressNext ==
    \/ part = "retry" /\ Next /\ UNCHANGED <<pinVars, cliVars, payloadVars, indexerVars>>
    \/ part = "pins" /\ Pins!Next /\ UNCHANGED <<vars, cliVars, payloadVars, indexerVars>>
    \/ part = "cli" /\ Cli!Next /\ UNCHANGED <<vars, pinVars, payloadVars, indexerVars>>
    \/ part = "payload" /\ Payload!Next /\ UNCHANGED <<vars, pinVars, cliVars, indexerVars>>
    \/ part = "service" /\ Service!Next /\ UNCHANGED <<vars, pinVars, cliVars, payloadVars>>

\* The fairness of each part, while a behaviour is about it.
ProgressFairness ==
    /\ \A c \in Callers : WF_vars(part = "retry" /\ Step(c))
    /\ WF_pinVars(part = "pins" /\ Pins!Tick)
    /\ \A c \in Calls : WF_pinVars(part = "pins" /\ Pins!CallStep(c))
    /\ \A j \in Janitors : WF_pinVars(part = "pins" /\ Pins!CleanupStep(j))
    /\ \A r \in Runs : /\ WF_cliVars(part = "cli" /\ Cli!Step(r))
                       /\ WF_cliVars(part = "cli" /\ Cli!Deadline(r))
    /\ WF_payloadVars(part = "payload" /\ Payload!DeadlinePasses)
    /\ WF_payloadVars(part = "payload" /\ Payload!Timeout)
    /\ WF_payloadVars(part = "payload" /\ Payload!CheckUrl)
    /\ WF_payloadVars(part = "payload" /\ Payload!ReadEnd)
    /\ WF_indexerVars(part = "service" /\ Service!RunOut)
    /\ \A w \in Workers : WF_indexerVars(part = "service" /\ Service!Work(w))

ProgressSpec ==
    /\ ProgressInit /\ [][ProgressNext /\ UNCHANGED part]_allVars
    /\ ProgressFairness

-----------------------------------------------------------------------------
(* The properties of the parts; ImplementsAtomic is inherited.             *)

\* Pinning: every reservation is settled: also after a call has died, no row stays pending
\* or pinned for ever.
Settled == Pins!Settled

\* A call that is retried, a command and a fetch end, although the others conflict, the
\* network stands still and hosts never answer (SerializableRetry, CliSubmission,
\* PayloadVerification).
CallsEnd == Ends /\ Cli!Terminates /\ Payload!FetchEnds

\* IndexerWorker: after finitely many faults a worker holds the lease for good and stays
\* at the tip, although a crash may leave a lease behind.
EventuallyReady == part = "service" => Service!EventuallyReady
=============================================================================
