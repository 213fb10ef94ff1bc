------------------------- MODULE SerializableRetry -------------------------
(***************************************************************************)
(* runSerializableTransaction (lib/db/transactions.ts, the same code in    *)
(* the indexer and in the web server): a unit of work is run in a          *)
(* SERIALIZABLE transaction and run again, as a whole, when PostgreSQL     *)
(* reports a serialization failure or a deadlock, a bounded number of      *)
(* times.  The unit modelled here is the smallest that conflicts: it reads *)
(* a log, refuses when the log is full, and appends its caller.            *)
(*                                                                         *)
(* The database is external: a transaction reads the snapshot of its       *)
(* beginning, and commits only if nobody has committed since; it may fail  *)
(* at any point, and the answer to a commit may be lost.                   *)
(***************************************************************************)
EXTENDS Naturals, Sequences

CONSTANTS
    Callers,     \* concurrent calls
    Quota,       \* the length at which the unit refuses
    MaxAttempts, \* maxAttempts
    Depth        \* how deep databaseErrorCode follows causes

ASSUME RetryAssumption ==
    /\ Quota \in Nat
    /\ MaxAttempts \in Nat \ {0}
    /\ Depth \in Nat \ {0}

VARIABLES
    log,  \* the committed state
    call  \* [Callers -> the state of a call]

vars == <<log, call>>

\* An error as the catch block sees it: the SQLSTATE or error code ("" when it
\* has none) and how many errors without a code are wrapped around it.
Error(code, wrapped) == [code |-> code, wrapped |-> wrapped]
NoError == Error("", 0)
Conflict == {"40001", "40P01"}       \* RETRYABLE_TRANSACTION_ERROR_CODES
ConnectionLost == "ECONNRESET"
Errors == [code : Conflict \cup {ConnectionLost, ""}, wrapped : 0..Depth]

Idle == [pc |-> "idle", attempt |-> 0, snap |-> <<>>, err |-> NoError]

Init ==
    /\ log = <<>>
    /\ call = [c \in Callers |-> Idle]

-----------------------------------------------------------------------------

Start(c) ==
    /\ call[c].pc = "idle"
    /\ call' = [call EXCEPT ![c] = [Idle EXCEPT !.pc = "begin", !.attempt = 1]]
    /\ UNCHANGED log

Begin(c) ==
    /\ call[c].pc = "begin"
    /\ call' = [call EXCEPT ![c].pc = "unit", ![c].snap = log]
    /\ UNCHANGED log

Fails(c, err) ==
    /\ call' = [call EXCEPT ![c].pc = "catch", ![c].err = err]
    /\ UNCHANGED log

\* The unit runs on its snapshot: it refuses with an error of its own, or
\* goes on to commit.
Unit(c) ==
    /\ call[c].pc = "unit"
    /\ IF Len(call[c].snap) >= Quota THEN Fails(c, NoError)
       ELSE call' = [call EXCEPT ![c].pc = "commit"] /\ UNCHANGED log

\* Any statement may fail, COMMIT too; what is rolled back leaves no trace.
StatementFails(c) ==
    /\ call[c].pc \in {"begin", "unit", "commit"}
    /\ \E wrapped \in 0..Depth, code \in Conflict \cup {ConnectionLost} :
          Fails(c, Error(code, wrapped))

\* Serializable: whoever read what another has changed since cannot commit.
Commit(c) ==
    /\ call[c].pc = "commit"
    /\ log = call[c].snap
    /\ log' = Append(log, c)
    /\ call' = [call EXCEPT ![c].pc = "committed"]

CommitConflicts(c) ==
    /\ call[c].pc = "commit"
    /\ log # call[c].snap
    /\ \E wrapped \in 0..Depth : Fails(c, Error("40001", wrapped))

\* The answer of the commit, or a connection that is lost instead.
Acknowledged(c) ==
    /\ call[c].pc = "committed"
    /\ call' = [call EXCEPT ![c].pc = "returned"]
    /\ UNCHANGED log

AcknowledgementLost(c) ==
    /\ call[c].pc = "committed"
    /\ \E wrapped \in 0..Depth : Fails(c, Error(ConnectionLost, wrapped))

\* databaseErrorCode: the first code on the chain of causes, if it is among
\* the first Depth errors.
DatabaseErrorCode(err) == IF err.wrapped < Depth THEN err.code ELSE ""

Retryable(err) == DatabaseErrorCode(err) \in Conflict

Exhausted(c) == call[c].attempt = MaxAttempts

\* A mutant of Catch: after the last attempt the loop is left without throwing.
CatchFallsThrough(c) ==
    /\ call[c].pc = "catch"
    /\ call' = [call EXCEPT ![c].pc =
                   IF ~Retryable(call[c].err) THEN "threw"
                   ELSE IF Exhausted(c) THEN "returned" ELSE "sleep"]
    /\ UNCHANGED log

\* The catch block.
Catch(c) ==
    /\ call[c].pc = "catch"
    /\ call' = [call EXCEPT ![c].pc =
                   IF ~Retryable(call[c].err) \/ Exhausted(c) THEN "threw" ELSE "sleep"]
    /\ UNCHANGED log

\* A mutant of Sleep: the attempt is not counted.
SleepUncounted(c) ==
    /\ call[c].pc = "sleep"
    /\ call' = [call EXCEPT ![c] = [Idle EXCEPT !.pc = "begin",
                                       !.attempt = call[c].attempt]]
    /\ UNCHANGED log

\* A bounded delay with jitter; then the whole unit runs again.
Sleep(c) ==
    /\ call[c].pc = "sleep"
    /\ call' = [call EXCEPT ![c] = [Idle EXCEPT !.pc = "begin",
                                       !.attempt = call[c].attempt + 1]]
    /\ UNCHANGED log

Step(c) ==
    \/ Begin(c)
    \/ Unit(c)
    \/ StatementFails(c)
    \/ Commit(c)
    \/ CommitConflicts(c)
    \/ Acknowledged(c)
    \/ AcknowledgementLost(c)
    \/ Catch(c)
    \/ Sleep(c)

Next == \E c \in Callers : Start(c) \/ Step(c)

Spec == Init /\ [][Next]_vars

\* A call that is under way keeps running: statements end, timers fire.
Fairness == \A c \in Callers : WF_vars(Step(c))

FairSpec == Spec /\ Fairness

-----------------------------------------------------------------------------

\* The state has its type: no call is ever in an attempt beyond the bound, and
\* the log is never longer than the quota.
TypeOK ==
    /\ log \in Seq(Callers) /\ Len(log) <= Quota
    /\ \A c \in Callers :
          /\ call[c].pc \in {"idle", "begin", "unit", "commit", "committed",
                             "catch", "sleep", "returned", "threw"}
          /\ call[c].attempt \in 0..MaxAttempts
          /\ call[c].snap \in Seq(Callers)
          /\ call[c].err \in Errors

\* What a caller sees of its call, and the place it is told.
Standing(k) == IF k.pc \in {"idle", "returned", "threw"} THEN k.pc ELSE "running"
Place(k) == IF k.pc = "returned" THEN Len(k.snap) + 1 ELSE 0

Atomic == INSTANCE AtomicTransactions WITH
    out <- [c \in Callers |-> Standing(call[c])],
    value <- [c \in Callers |-> Place(call[c])]

\* A call of runSerializableTransaction, retries included, is one atomic step
\* of the abstract specification: applied at most once, on the state that is
\* current when it commits, and what it returns is true of the log.
ImplementsAtomic == Atomic!Spec

\* Every call ends, however often the others make it conflict.
Ends == \A c \in Callers : call[c].pc = "begin" ~> call[c].pc \in {"returned", "threw"}
=============================================================================
