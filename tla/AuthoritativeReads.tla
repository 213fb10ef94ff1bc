------------------------- MODULE AuthoritativeReads -------------------------
(***************************************************************************)
(* The read API of apps/web/server: requests that read the indexer's       *)
(* tables while the indexer goes on writing them.                          *)
(*                                                                         *)
(* A handler opens a REPEATABLE READ transaction. Its time, which is       *)
(* CURRENT_TIMESTAMP, is that of BEGIN; its snapshot is that of the first  *)
(* query. Everything the handler reads afterwards comes from the snapshot, *)
(* so its checks and its answer are one step; the network profile itself   *)
(* never changes. /v1/networks/:network/status and the payload of a        *)
(* verification are read outside the snapshot, in steps of their own.      *)
(*                                                                         *)
(* The tables are represented by the status row, the checkpoints and, for  *)
(* the entity that requests ask about (a schema, a Credential, a           *)
(* transaction), the ledgers whose projected rows mention it. What the     *)
(* handlers check of the rows themselves is in SchemaCatalog and           *)
(* CredentialReads.                                                        *)
(***************************************************************************)
EXTENDS Integers, FiniteSets

CONSTANTS
    Networks,       \* profiles that are enabled
    Unknown,        \* a profile id that is not
    Readers,        \* requests under way
    Activation,     \* activationLedgerIndex
    MaxIndex,       \* bound on ledgers (uint32 in the code)
    MaxTime,        \* bound on the clock
    LeaseTime,      \* leaseDurationMs
    MaxAge,         \* readinessMaxLedgerAgeSeconds
    Skew            \* MAX_LEDGER_CLOCK_SKEW_SECONDS

ASSUME ReadConstants ==
    /\ Networks # {} /\ Unknown \notin Networks
    /\ Activation \in Nat \ {0} /\ MaxIndex \in Nat /\ MaxTime \in Nat
    /\ LeaseTime \in Nat \ {0} /\ MaxAge \in Nat /\ Skew \in Nat

Indices == Activation .. MaxIndex
Times == 0 .. MaxTime

VARIABLES
    clock,
    db,        \* the tables of each network, as committed
    mentions,  \* the ledgers of the chain that mention the entity
    req,       \* the requests
    served     \* for each request, the (network, head) pairs for which the
               \* indexer was ready with a live lease since the request began

tables == <<clock, db, mentions>>
vars == <<tables, req, served>>

Endpoints == {"health", "status", "readiness", "stats", "entity", "verify"}

NoTip == 0

\* agreed 0 is lastAgreedLedgerIndex NULL, lease -1 is leaseExpiresAt NULL,
\* head 0 is a profile without a checkpoint.
Tables ==
    [state : {"absent", "starting", "catching_up", "ready", "halted"},
     writer : BOOLEAN, lease : -1 .. MaxTime + LeaseTime,
     primary : 0 .. MaxIndex, secondary : 0 .. MaxIndex, agreed : 0 .. MaxIndex,
     head : 0 .. MaxIndex, closeTime : 0 .. MaxTime + Skew, rows : SUBSET Indices]

EmptyTables ==
    [state |-> "absent", writer |-> FALSE, lease |-> -1, primary |-> NoTip,
     secondary |-> NoTip, agreed |-> 0, head |-> 0, closeTime |-> 0, rows |-> {}]

NoView == [n \in Networks |-> EmptyTables]

\* A request; reply is what the handler answered: "ok" and "not_found" are
\* authoritative, every other reply is an error code.
Idle == [pc |-> "idle", endpoint |-> "none", network |-> Unknown, began |-> 0,
         view |-> NoView, reply |-> "none"]

Codes == {"INDEXER_STATUS_UNAVAILABLE", "INDEXER_HALTED", "INDEXER_NOT_READY",
          "INDEXER_LEASE_EXPIRED", "INDEXER_EVIDENCE_INVALID", "INDEXER_NOT_INITIALIZED",
          "INDEXER_STALE", "INDEXER_STATUS_NOT_FOUND", "INTERNAL_ERROR", "NETWORK_NOT_FOUND"}

Requests ==
    [pc : {"idle", "begun", "snapshot", "resolving", "done"}, endpoint : Endpoints \cup {"none"},
     network : Networks \cup {Unknown}, began : Times, view : [Networks -> Tables],
     reply : Codes \cup {"none", "ok", "not_found"}]

TypeOK ==
    /\ clock \in Times
    /\ db \in [Networks -> Tables]
    /\ mentions \in [Networks -> SUBSET Indices]
    /\ req \in [Readers -> Requests]
    /\ served \in [Readers -> SUBSET (Networks \X (0 .. MaxIndex))]

Init ==
    /\ clock = 0
    /\ db = NoView
    /\ mentions = [n \in Networks |-> {}]
    /\ req = [r \in Readers |-> Idle]
    /\ served = [r \in Readers |-> {}]

\* History: what requests could have been told since they began.
Authoritative(t, now) == t.state = "ready" /\ t.writer /\ t.lease > now

Record ==
    served' = [r \in Readers |->
        IF req'[r].pc = "idle" THEN {}
        ELSE served[r] \cup {<<n, db'[n].head>> : n \in {m \in Networks :
                                                       Authoritative(db'[m], clock')}}]

-----------------------------------------------------------------------------
(* The writer, as IndexerFencing and IndexerWorker show it to be.          *)

LeaseLive(t) == t.writer /\ t.lease > clock

Write(n, t) == db' = [db EXCEPT ![n] = t] /\ UNCHANGED <<clock, req>>

AcquireLease(n) ==
    /\ ~LeaseLive(db[n])
    /\ Write(n, [db[n] EXCEPT !.state = "starting", !.writer = TRUE, !.lease = clock + LeaseTime,
                              !.primary = NoTip, !.secondary = NoTip, !.agreed = 0])
    /\ UNCHANGED mentions

RenewLease(n) ==
    /\ LeaseLive(db[n])
    /\ Write(n, [db[n] EXCEPT !.lease = clock + LeaseTime])
    /\ UNCHANGED mentions

\* updateStatus at the beginning of a round: the last checkpoint is agreed.
PublishStatus(n, p, s) ==
    LET t == db[n] low == IF p < s THEN p ELSE s
    IN /\ LeaseLive(t)
       /\ t.head <= low
       /\ Write(n, [t EXCEPT !.state = IF t.head = low THEN "ready" ELSE "catching_up",
                             !.primary = p, !.secondary = s, !.agreed = t.head])
       /\ UNCHANGED mentions

\* persistLedger: projection, checkpoint and status in one transaction.
PersistLedger(n, mention, close) ==
    LET t == db[n]
        i == IF t.head = 0 THEN Activation ELSE t.head + 1
    IN /\ LeaseLive(t) /\ t.primary # NoTip
       /\ i <= t.primary /\ i <= t.secondary
       /\ mentions' = [mentions EXCEPT ![n] = IF mention THEN @ \cup {i} ELSE @]
       /\ Write(n, [t EXCEPT !.head = i, !.agreed = i, !.closeTime = close,
                             !.rows = mentions'[n],
                             !.state = IF i = t.primary \/ i = t.secondary
                                       THEN "ready" ELSE "catching_up"])

HaltIndexer(n) ==
    /\ db[n].writer
    /\ Write(n, [db[n] EXCEPT !.state = "halted", !.writer = FALSE, !.lease = -1])
    /\ UNCHANGED mentions

ReleaseLease(n) ==
    /\ db[n].writer
    /\ Write(n, [db[n] EXCEPT !.state = "catching_up", !.writer = FALSE, !.lease = -1])
    /\ UNCHANGED mentions

-----------------------------------------------------------------------------
(* The checks. Each is the error code it throws, "ok" when it passes; now  *)
(* is the time of the transaction.                                         *)

Lower(a, b) == IF a < b THEN a ELSE b

\* Mutant: the lease is not compared.
AssertIndexerReadyNoLease(t, now) ==
    CASE t.state = "absent" -> "INDEXER_STATUS_UNAVAILABLE"
      [] t.state = "halted" -> "INDEXER_HALTED"
      [] t.state \in {"starting", "catching_up"} -> "INDEXER_NOT_READY"
      [] OTHER -> "ok"

AssertIndexerReady(t, now) ==
    CASE t.state = "absent" -> "INDEXER_STATUS_UNAVAILABLE"
      [] t.state = "halted" -> "INDEXER_HALTED"
      [] t.state \in {"starting", "catching_up"} -> "INDEXER_NOT_READY"
      [] t.state = "ready" /\ (~t.writer \/ t.lease <= now) -> "INDEXER_LEASE_EXPIRED"
      [] t.state = "ready" /\ t.writer /\ t.lease > now ->
           IF \/ t.primary = NoTip \/ t.secondary = NoTip \/ t.agreed = 0
              \/ t.agreed # Lower(t.primary, t.secondary)
           THEN "INDEXER_EVIDENCE_INVALID" ELSE "ok"

\* evaluateLedgerCheckpointFreshness: not too old, not implausibly new.
EvaluateFreshness(closeTime, now) ==
    IF now - closeTime > MaxAge \/ now - closeTime < -Skew THEN "stale" ELSE "fresh"

\* assertAuthoritativeLedgerEvidence for a projection with rows of these ledgers.
AssertEvidence(t, now, ledgers) ==
    IF AssertIndexerReady(t, now) # "ok" THEN AssertIndexerReady(t, now)
    ELSE CASE t.head = 0 -> "INDEXER_NOT_INITIALIZED"
           [] t.head # 0 /\ (\/ t.agreed # t.head \/ Activation > t.head
                             \/ \E i \in ledgers : i < Activation \/ i > t.head) ->
                "INDEXER_EVIDENCE_INVALID"
           [] OTHER -> IF EvaluateFreshness(t.closeTime, now) = "stale"
                       THEN "INDEXER_STALE" ELSE "ok"

-----------------------------------------------------------------------------
(* The handlers: what they answer for a view and the time of BEGIN.        *)

\* GET /health/ready: every enabled profile must pass.
HealthReady(view, now) ==
    LET failing == {n \in Networks : AssertEvidence(view[n], now, {}) # "ok"}
    IN IF failing = {} THEN "ok"
       ELSE AssertEvidence(view[CHOOSE n \in failing : TRUE], now, {})

Readiness(t, now) == AssertEvidence(t, now, {})

\* The checkpoint is checked before the aggregates are read, since they need its
\* close time, and again with the ledgers of the aggregates.
Stats(t, now) ==
    IF AssertEvidence(t, now, {}) # "ok" THEN AssertEvidence(t, now, {})
    ELSE AssertEvidence(t, now, t.rows)

\* A read of one entity, and verifyCredential: the rows, then the checkpoint,
\* and only then whether there are any rows.
Entity(t, now) ==
    IF AssertEvidence(t, now, t.rows) = "ok" /\ t.rows = {}
    THEN "not_found" ELSE AssertEvidence(t, now, t.rows)

Handler(q) ==
    CASE q.endpoint = "health" -> HealthReady(q.view, q.began)
      [] q.endpoint = "readiness" -> Readiness(q.view[q.network], q.began)
      [] q.endpoint = "stats" -> Stats(q.view[q.network], q.began)
      [] OTHER -> Entity(q.view[q.network], q.began)

\* An error says nothing about the tables.
Reply(r, answer) ==
    req' = [req EXCEPT ![r] = IF answer \in {"ok", "not_found"}
                              THEN [@ EXCEPT !.pc = "done", !.reply = answer]
                              ELSE [Idle EXCEPT !.pc = "done", !.reply = answer]]

\* A request arrives and its transaction begins.
Begin(r, e, n) ==
    /\ req[r].pc = "idle"
    /\ req' = [req EXCEPT ![r] = [Idle EXCEPT !.pc = "begun", !.endpoint = e, !.network = n,
                                              !.began = clock]]
    /\ UNCHANGED tables

\* withConsistentSnapshot: the first query fixes the view. A profile that is
\* not enabled ends the request.
Snapshot(r) ==
    /\ req[r].pc = "begun" /\ req[r].endpoint # "status"
    /\ IF req[r].network = Unknown
       THEN Reply(r, "NETWORK_NOT_FOUND")
       ELSE req' = [req EXCEPT ![r] = [@ EXCEPT !.pc = "snapshot", !.view = db]]
    /\ UNCHANGED tables

Answer(r) ==
    /\ req[r].pc = "snapshot" /\ req[r].endpoint # "verify"
    /\ Reply(r, Handler(req[r]))
    /\ UNCHANGED tables

\* GET /v1/networks/:network/status: the row as it is now, without any check.
ReportStatus(r) ==
    /\ req[r].pc = "begun" /\ req[r].endpoint = "status"
    /\ Reply(r, IF req[r].network = Unknown THEN "NETWORK_NOT_FOUND"
                ELSE IF db[req[r].network].state = "absent" THEN "INDEXER_STATUS_NOT_FOUND"
                ELSE "none")
    /\ UNCHANGED tables

\* verifyCredential checks its evidence in the transaction and resolves the
\* payload after it; the report speaks of the snapshot.
VerifyEvidence(r) ==
    /\ req[r].pc = "snapshot" /\ req[r].endpoint = "verify"
    /\ LET c == Handler(req[r])
       IN IF c \in {"ok", "not_found"}
          THEN req' = [req EXCEPT ![r].pc = "resolving"]
          ELSE Reply(r, c)
    /\ UNCHANGED tables

\* A resolver error is a payload status of the report, not an error.
VerifyReport(r) ==
    /\ req[r].pc = "resolving"
    /\ Reply(r, Handler(req[r]))
    /\ UNCHANGED tables

\* A query fails: mapError answers 500, /health/ready 503.
QueryFails(r) ==
    /\ req[r].pc \in {"begun", "snapshot"}
    /\ Reply(r, "INTERNAL_ERROR")
    /\ UNCHANGED tables

\* The response is sent.
Finish(r) ==
    /\ req[r].pc = "done"
    /\ req' = [req EXCEPT ![r] = Idle]
    /\ UNCHANGED tables

-----------------------------------------------------------------------------

Tick ==
    /\ clock < MaxTime
    /\ clock' = clock + 1
    /\ UNCHANGED <<db, mentions, req>>

Indexer(n) ==
    \/ AcquireLease(n) \/ RenewLease(n) \/ HaltIndexer(n) \/ ReleaseLease(n)
    \/ \E p, s \in Indices : PublishStatus(n, p, s)
    \/ \E m \in BOOLEAN, c \in db[n].closeTime .. clock + Skew : PersistLedger(n, m, c)

Request(r) ==
    \/ \E e \in Endpoints, n \in Networks \cup {Unknown} : Begin(r, e, n)
    \/ Snapshot(r) \/ Answer(r) \/ ReportStatus(r) \/ VerifyEvidence(r) \/ VerifyReport(r)
    \/ QueryFails(r) \/ Finish(r)

Next == (Tick \/ (\E n \in Networks : Indexer(n)) \/ (\E r \in Readers : Request(r))) /\ Record

Spec == Init /\ [][Next]_vars

-----------------------------------------------------------------------------
(* Properties.                                                             *)

\* The profiles a reply speaks of.
About(q) == IF q.endpoint = "health" THEN Networks ELSE {q.network}

Told(q) == q.pc = "done" /\ q.reply \in {"ok", "not_found"}

\* An answer, 404 included, is the truth of one ledger: it shows exactly the rows
\* that the chain up to its checkpoint mentions, whatever the indexer committed
\* while the handler ran.
AnswerTrue ==
    \A r \in Readers : Told(req[r]) => \A n \in About(req[r]) :
        req[r].view[n].rows = {i \in mentions[n] : i <= req[r].view[n].head}

\* An authoritative answer was due: at some instant since the request began the
\* indexer was ready under a live lease at just that checkpoint, although the
\* lease is compared with the time of BEGIN and not with that of the snapshot.
\* A dead or halted indexer goes dark.
AnswerDue ==
    \A r \in Readers : Told(req[r]) => \A n \in About(req[r]) :
        <<n, req[r].view[n].head>> \in served[r]

\* A worker that renews its lease but persists nothing goes dark as well: the
\* ledger of an answer closed at most MaxAge before the request began.
AnswerFresh ==
    \A r \in Readers : Told(req[r]) => \A n \in About(req[r]) :
        req[r].view[n].closeTime \in (req[r].began - MaxAge) .. (req[r].began + Skew)

\* An answer, 404 included, is the truth of one checkpoint, was due under a live
\* lease, and is neither stale nor from the future (indexer-status.ts
\* assertAuthoritativeLedgerEvidence).
AnswerAuthoritative == AnswerTrue /\ AnswerDue /\ AnswerFresh

=============================================================================
