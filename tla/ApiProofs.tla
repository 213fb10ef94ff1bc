----------------------------- MODULE ApiProofs -----------------------------
(***************************************************************************)
(* Proofs about the API server: its reads (AuthoritativeReads) and, as     *)
(* instances of ApiSystem, its verification of payloads                    *)
(* (PayloadVerification), its rate limiter (RateLimiter) and the way of a  *)
(* request (ApiGateway).                                                   *)
(*                                                                         *)
(* Reads: for any number of networks, requests and ledgers, an             *)
(* authoritative answer is the truth of one checkpoint, was due under a    *)
(* live lease, and is fresh. A request's view is a past state of the       *)
(* tables, so what an answer says follows from three facts about views     *)
(* that every step keeps: the chain grows only above the head of a view    *)
(* (ViewTrue); a row that would pass the checks of a request was served to *)
(* it at some instant since it began, although it may be dead by the time  *)
(* of its snapshot (Due); and an answer once given is the one its view     *)
(* calls for (ToldByHandler).                                              *)
(*                                                                         *)
(* Payloads: for any contents, hosts, addresses and limits, success means  *)
(* a bound payload, and a fetch stays where it may be. A verdict is tied   *)
(* to what it was reached on: the JSON that was sent, or the body that was *)
(* received to its end (VerdictOK).                                        *)
(*                                                                         *)
(* Limiter: for any budgets and any number of clients, refusals are fair   *)
(* and budgets are kept. Every entry of the Map is tied to the decision    *)
(* that opened it (Opened), and while nothing makes room every bucket has  *)
(* a current window and the one before it (Phases).                        *)
(*                                                                         *)
(* Requests: for any clients and trusted proxies, the walk back along      *)
(* x-forwarded-for ends at the client or at a proxy that it passed.        *)
(***************************************************************************)
EXTENDS ApiSystem, FiniteSetTheorems, SequenceTheorems, WellFoundedInduction, TLAPS

-----------------------------------------------------------------------------
(* The inductive invariant.                                                 *)

\* The rows are those of the chain up to the head.
RowsTrue ==
    \A n \in Networks :
        /\ db[n].rows = mentions[n]
        /\ db[n].head = 0 \/ db[n].head >= Activation
        /\ \A i \in mentions[n] : i <= db[n].head

\* A view is behind the tables, and complete up to its own head.
ViewTrue ==
    \A r \in Readers, n \in Networks :
        /\ req[r].view[n].head <= db[n].head
        /\ req[r].view[n].rows = {i \in mentions[n] : i <= req[r].view[n].head}

\* What would pass the checks of a request, now or in its view, has been served
\* since it began.
Due ==
    \A r \in Readers, n \in Networks :
        /\ req[r].pc = "begun" /\ Authoritative(db[n], req[r].began) =>
               <<n, db[n].head>> \in served[r]
        /\ req[r].pc # "idle" /\ Authoritative(req[r].view[n], req[r].began) =>
               <<n, req[r].view[n].head>> \in served[r]

\* A request that was let past the profile asks for one, and an answer is that
\* of its handler.
ToldByHandler ==
    \A r \in Readers :
        /\ req[r].pc = "begun" => req[r].endpoint \in Endpoints
        /\ req[r].pc \in {"snapshot", "resolving"} =>
               req[r].network \in Networks /\ req[r].endpoint \in Endpoints \ {"status"}
        /\ Told(req[r]) => /\ req[r].network \in Networks
                           /\ req[r].endpoint \in Endpoints \ {"status"}
                           /\ Handler(req[r]) \in {"ok", "not_found"}

ReadInv == TypeOK /\ RowsTrue /\ ViewTrue /\ Due /\ ToldByHandler

-----------------------------------------------------------------------------
(* A step of the writer.                                                    *)

LEMMA Constants ==
    /\ Activation \in Nat /\ Activation >= 1 /\ MaxIndex \in Nat /\ MaxTime \in Nat
    /\ LeaseTime \in Nat /\ LeaseTime >= 1 /\ MaxAge \in Nat /\ Skew \in Nat
    /\ Unknown \notin Networks
BY ReadConstants

\* The tables of a network have their type.
LEMMA Typed ==
    ASSUME TypeOK, NEW n \in Networks
    PROVE  /\ clock \in Nat /\ clock <= MaxTime
           /\ db[n] \in Tables
           /\ db[n].lease \in Int /\ db[n].head \in Nat /\ db[n].closeTime \in Nat
           /\ db[n].rows \in SUBSET Indices
           /\ mentions[n] \in SUBSET Indices
<1>1. clock \in Nat /\ clock <= MaxTime
  BY Constants DEF TypeOK, Times
<1>2. db[n] \in Tables /\ mentions[n] \in SUBSET Indices
  BY DEF TypeOK
<1>3. db[n].lease \in Int /\ db[n].head \in Nat /\ db[n].closeTime \in Nat
      /\ db[n].rows \in SUBSET Indices
  BY <1>2, Constants DEF Tables
<1> QED
  BY <1>1, <1>2, <1>3

\* What a writer does to the row of its network: a row that says ready under a
\* writer has a live lease, and the head moves only upwards, over a ledger whose
\* mentions it adds to the rows.
WriteOK(n, t) ==
    /\ db' = [db EXCEPT ![n] = t]
    /\ t \in Tables
    /\ t.state = "ready" /\ t.writer => t.lease > clock
    /\ \/ mentions' = mentions /\ t.head = db[n].head /\ t.rows = db[n].rows
       \/ /\ t.head > db[n].head /\ t.head >= Activation /\ t.head <= MaxIndex
          /\ mentions' = mentions \/ mentions' = [mentions EXCEPT ![n] = @ \cup {t.head}]
          /\ t.rows = mentions'[n]

LEMMA WriterStep ==
    ASSUME TypeOK, RowsTrue, NEW n \in Networks, Indexer(n)
    PROVE  /\ UNCHANGED <<clock, req>>
           /\ \E t : WriteOK(n, t)
<1>1. /\ clock \in Nat /\ clock <= MaxTime /\ db[n] \in Tables
      /\ db[n].lease \in Int /\ db[n].head \in Nat /\ db[n].closeTime \in Nat
      /\ mentions[n] \in SUBSET Indices
  BY Typed
<1>2. clock + LeaseTime \in -1 .. MaxTime + LeaseTime /\ clock + LeaseTime > clock
  BY <1>1, Constants
<1>3. CASE AcquireLease(n)
  <2> DEFINE t == [db[n] EXCEPT !.state = "starting", !.writer = TRUE,
                                !.lease = clock + LeaseTime, !.primary = NoTip,
                                !.secondary = NoTip, !.agreed = 0]
  <2>1. UNCHANGED <<clock, req, mentions>> /\ db' = [db EXCEPT ![n] = t]
    BY <1>3 DEF AcquireLease, Write
  <2>2. t \in Tables /\ t.state = "starting" /\ t.head = db[n].head /\ t.rows = db[n].rows
    <3>1. NoTip \in 0 .. MaxIndex /\ 0 \in 0 .. MaxIndex
      BY Constants DEF NoTip
    <3> QED
      BY <1>1, <1>2, <3>1 DEF Tables
  <2> HIDE DEF t
  <2> QED
    BY <2>1, <2>2 DEF WriteOK
<1>4. CASE RenewLease(n)
  <2> DEFINE t == [db[n] EXCEPT !.lease = clock + LeaseTime]
  <2>1. UNCHANGED <<clock, req, mentions>> /\ db' = [db EXCEPT ![n] = t]
    BY <1>4 DEF RenewLease, Write
  <2>2. t \in Tables /\ t.lease > clock /\ t.head = db[n].head /\ t.rows = db[n].rows
    BY <1>1, <1>2 DEF Tables
  <2> HIDE DEF t
  <2> QED
    BY <2>1, <2>2 DEF WriteOK
<1>5. CASE HaltIndexer(n)
  <2> DEFINE t == [db[n] EXCEPT !.state = "halted", !.writer = FALSE, !.lease = -1]
  <2>1. UNCHANGED <<clock, req, mentions>> /\ db' = [db EXCEPT ![n] = t]
    BY <1>5 DEF HaltIndexer, Write
  <2>2. -1 \in -1 .. MaxTime + LeaseTime
    BY Constants
  <2>3. t \in Tables /\ t.state = "halted" /\ t.head = db[n].head /\ t.rows = db[n].rows
    BY <1>1, <2>2 DEF Tables
  <2> HIDE DEF t
  <2> QED
    BY <2>1, <2>3 DEF WriteOK
<1>6. CASE ReleaseLease(n)
  <2> DEFINE t == [db[n] EXCEPT !.state = "catching_up", !.writer = FALSE, !.lease = -1]
  <2>1. UNCHANGED <<clock, req, mentions>> /\ db' = [db EXCEPT ![n] = t]
    BY <1>6 DEF ReleaseLease, Write
  <2>2. -1 \in -1 .. MaxTime + LeaseTime
    BY Constants
  <2>3. t \in Tables /\ t.state = "catching_up" /\ t.head = db[n].head /\ t.rows = db[n].rows
    BY <1>1, <2>2 DEF Tables
  <2> HIDE DEF t
  <2> QED
    BY <2>1, <2>3 DEF WriteOK
<1>7. CASE \E p, s \in Indices : PublishStatus(n, p, s)
  <2>1. PICK p \in Indices, s \in Indices : PublishStatus(n, p, s)
    BY <1>7
  <2>2. PICK x \in {"ready", "catching_up"} :
           /\ db' = [db EXCEPT ![n] = [db[n] EXCEPT !.state = x, !.primary = p,
                                                    !.secondary = s, !.agreed = db[n].head]]
           /\ LeaseLive(db[n]) /\ UNCHANGED <<clock, req, mentions>>
    BY <2>1 DEF PublishStatus, Write
  <2> DEFINE t == [db[n] EXCEPT !.state = x, !.primary = p, !.secondary = s,
                                !.agreed = db[n].head]
  <2>3. p \in 0 .. MaxIndex /\ s \in 0 .. MaxIndex /\ db[n].head \in 0 .. MaxIndex
    BY <1>1, Constants DEF Indices, Tables
  <2>4. t \in Tables /\ t.lease = db[n].lease /\ t.head = db[n].head /\ t.rows = db[n].rows
    BY <1>1, <2>3 DEF Tables
  <2>5. db[n].lease > clock
    BY <2>2 DEF LeaseLive
  <2> HIDE DEF t
  <2>6. db' = [db EXCEPT ![n] = t]
    BY <2>2 DEF t
  <2> QED
    BY <2>2, <2>4, <2>5, <2>6 DEF WriteOK
<1>8. CASE \E m \in BOOLEAN, c \in db[n].closeTime .. clock + Skew : PersistLedger(n, m, c)
  <2>1. PICK m \in BOOLEAN, c \in db[n].closeTime .. clock + Skew : PersistLedger(n, m, c)
    BY <1>8
  <2> DEFINE i == IF db[n].head = 0 THEN Activation ELSE db[n].head + 1
  <2>2. PICK x \in {"ready", "catching_up"} :
           db' = [db EXCEPT ![n] = [db[n] EXCEPT !.head = i, !.agreed = i, !.closeTime = c,
                                                 !.rows = mentions'[n], !.state = x]]
    BY <2>1 DEF PersistLedger, Write
  <2>3. /\ LeaseLive(db[n]) /\ i <= db[n].primary
        /\ mentions' = [mentions EXCEPT ![n] = IF m THEN @ \cup {i} ELSE @]
        /\ UNCHANGED <<clock, req>>
    BY <2>1 DEF PersistLedger, Write
  <2> DEFINE t == [db[n] EXCEPT !.head = i, !.agreed = i, !.closeTime = c,
                                !.rows = mentions'[n], !.state = x]
  <2>4. db[n].primary \in 0 .. MaxIndex /\ (db[n].head = 0 \/ db[n].head >= Activation)
    BY <1>1 DEF Tables, RowsTrue
  <2>5. i \in Nat /\ i > db[n].head /\ i >= Activation /\ i <= MaxIndex
    BY <1>1, <2>3, <2>4, Constants
  <2>6. c \in 0 .. MaxTime + Skew
    BY <1>1, Constants
  <2>7. i \in Indices /\ i \in 0 .. MaxIndex
    BY <2>5, Constants DEF Indices
  <2>8. \/ mentions' = mentions
        \/ mentions' = [mentions EXCEPT ![n] = @ \cup {i}]
    BY <2>3 DEF TypeOK
  <2>9. mentions'[n] \in SUBSET Indices
    BY <1>1, <2>7, <2>8 DEF TypeOK
  <2>10. /\ t \in Tables /\ t.head = i /\ t.rows = mentions'[n]
         /\ t.lease = db[n].lease
    <3> HIDE DEF i
    <3> QED
      BY <1>1, <2>6, <2>7, <2>9 DEF Tables
  <2>11. db[n].lease > clock
    BY <2>3 DEF LeaseLive
  <2> HIDE DEF t
  <2>12. db' = [db EXCEPT ![n] = t]
    BY <2>2 DEF t
  <2> HIDE DEF i
  <2> QED
    BY <2>3, <2>5, <2>8, <2>10, <2>11, <2>12 DEF WriteOK
<1> QED
  BY <1>3, <1>4, <1>5, <1>6, <1>7, <1>8 DEF Indexer

-----------------------------------------------------------------------------
(* The checks of a handler.                                                 *)

LEMMA ReadyTyped ==
    ASSUME NEW t \in Tables, NEW now \in Nat
    PROVE  /\ AssertIndexerReady(t, now) \in Codes \cup {"ok"}
           /\ AssertIndexerReady(t, now) = "ok" => Authoritative(t, now)
<1>1. t.state \in {"absent", "starting", "catching_up", "ready", "halted"}
      /\ t.writer \in BOOLEAN /\ t.lease \in Int
  BY Constants DEF Tables
<1>2. CASE t.state # "ready"
  BY <1>1, <1>2 DEF AssertIndexerReady, Codes
<1>3. CASE t.state = "ready" /\ (~t.writer \/ t.lease <= now)
  BY <1>1, <1>3 DEF AssertIndexerReady, Codes
<1>4. CASE t.state = "ready" /\ t.writer /\ t.lease > now
  <2>1. ~(t.lease <= now)
    BY <1>1, <1>4
  <2>2. AssertIndexerReady(t, now) \in {"INDEXER_EVIDENCE_INVALID", "ok"}
    BY <1>4, <2>1 DEF AssertIndexerReady
  <2> QED
    BY <1>4, <2>2 DEF Authoritative, Codes
<1>5. t.lease <= now \/ t.lease > now
  BY <1>1
<1> QED
  BY <1>1, <1>2, <1>3, <1>4, <1>5

\* Evidence that passes is ready under a live lease, and fresh.
LEMMA EvidenceTyped ==
    ASSUME NEW t \in Tables, NEW now \in Nat, NEW ledgers
    PROVE  /\ AssertEvidence(t, now, ledgers) \in Codes \cup {"ok"}
           /\ AssertEvidence(t, now, ledgers) = "ok" =>
                  /\ Authoritative(t, now)
                  /\ t.closeTime \in (now - MaxAge) .. (now + Skew)
<1>1. t.closeTime \in Nat
  BY Constants DEF Tables
<1>2. CASE AssertIndexerReady(t, now) # "ok"
  BY <1>2, ReadyTyped DEF AssertEvidence
<1>3. CASE AssertIndexerReady(t, now) = "ok"
  <2> DEFINE bad == \/ t.agreed # t.head \/ Activation > t.head
                    \/ \E i \in ledgers : i < Activation \/ i > t.head
  <2>1. CASE t.head = 0
    BY <1>3, <2>1 DEF AssertEvidence, Codes
  <2>2. CASE t.head # 0 /\ bad
    BY <1>3, <2>2 DEF AssertEvidence, Codes
  <2>3. CASE t.head # 0 /\ ~bad
    <3>1. AssertEvidence(t, now, ledgers) =
              IF EvaluateFreshness(t.closeTime, now) = "stale" THEN "INDEXER_STALE" ELSE "ok"
      BY <1>3, <2>3 DEF AssertEvidence
    <3>2. EvaluateFreshness(t.closeTime, now) # "stale" =>
              t.closeTime \in (now - MaxAge) .. (now + Skew)
      BY <1>1, Constants DEF EvaluateFreshness
    <3> QED
      BY <1>3, <3>1, <3>2, ReadyTyped DEF Codes
  <2> QED
    BY <2>1, <2>2, <2>3
<1> QED
  BY <1>2, <1>3

Asks(q) ==
    /\ q.view \in [Networks -> Tables]
    /\ q.began \in Nat
    /\ q.network \in Networks
    /\ q.endpoint \in Endpoints \ {"status"}

\* A handler that answers has found every profile it speaks of authoritative at
\* the time of BEGIN, and fresh.
LEMMA HandlerOK ==
    ASSUME NEW q, Asks(q)
    PROVE  /\ Handler(q) \in Codes \cup {"ok", "not_found"}
           /\ Handler(q) \in {"ok", "not_found"} =>
                \A n \in About(q) :
                    /\ n \in Networks
                    /\ Authoritative(q.view[n], q.began)
                    /\ q.view[n].closeTime \in (q.began - MaxAge) .. (q.began + Skew)
<1> DEFINE Passes(n, ledgers) == AssertEvidence(q.view[n], q.began, ledgers)
<1> DEFINE Good(n) == /\ Authoritative(q.view[n], q.began)
                      /\ q.view[n].closeTime \in (q.began - MaxAge) .. (q.began + Skew)
<1>1. \A n \in Networks, ledgers \in {{}} \cup {q.view[m].rows : m \in Networks} :
          /\ Passes(n, ledgers) \in Codes \cup {"ok"}
          /\ Passes(n, ledgers) = "ok" => Good(n)
  BY EvidenceTyped DEF Asks
<1>2. "ok" \notin Codes /\ "not_found" \notin Codes /\ "ok" # "not_found"
  BY DEF Codes
<1> HIDE DEF Passes, Good
<1>3. CASE q.endpoint = "health"
  <2> DEFINE failing == {n \in Networks : Passes(n, {}) # "ok"}
  <2>1. Handler(q) = IF failing = {} THEN "ok"
                     ELSE Passes(CHOOSE n \in failing : TRUE, {})
    BY <1>3 DEF Handler, HealthReady, Passes
  <2>2. CASE failing = {}
    <3>1. \A n \in Networks : Good(n)
      BY <1>1, <2>2
    <3> QED
      BY <1>3, <2>1, <2>2, <3>1 DEF About, Good
  <2>3. CASE failing # {}
    <3>1. (CHOOSE n \in failing : TRUE) \in failing
      BY <2>3
    <3>2. Handler(q) \in Codes
      BY <1>1, <2>1, <2>3, <3>1
    <3> QED
      BY <1>2, <3>2
  <2> QED
    BY <2>2, <2>3
<1>4. CASE q.endpoint # "health"
  <2>1. q.network \in Networks /\ About(q) = {q.network}
        /\ q.view[q.network].rows \in {{}} \cup {q.view[m].rows : m \in Networks}
    BY <1>4 DEF Asks, About
  <2>2. \/ Handler(q) = Passes(q.network, {})
        \/ Handler(q) = Passes(q.network, q.view[q.network].rows)
        \/ Handler(q) = "not_found" /\ Passes(q.network, q.view[q.network].rows) = "ok"
    BY <1>4 DEF Asks, Endpoints, Handler, Readiness, Stats, Entity, Passes
  <2> QED
    BY <1>1, <1>2, <2>1, <2>2 DEF Good
<1> QED
  BY <1>3, <1>4

-----------------------------------------------------------------------------
(* A step of a request.                                                     *)

\* What becomes of a request: it starts at this instant, takes its view, is
\* answered by its handler, fails, or is over.
RequestOK(r, q) ==
    LET old == req[r]
    IN \/ /\ q.pc = "begun" /\ q.endpoint \in Endpoints
          /\ q.began = clock /\ q.view = NoView
       \/ /\ old.pc = "begun" /\ q.pc = "snapshot"
          /\ q.network \in Networks /\ q.endpoint \in Endpoints \ {"status"}
          /\ q.began = old.began /\ q.view = db
       \/ /\ old.pc = "snapshot" /\ q.pc = "resolving"
          /\ q.network = old.network /\ q.endpoint = old.endpoint
          /\ q.began = old.began /\ q.view = old.view
       \/ /\ old.pc \in {"snapshot", "resolving"} /\ q.pc = "done"
          /\ q.network = old.network /\ q.endpoint = old.endpoint
          /\ q.began = old.began /\ q.view = old.view
          /\ Handler(q) \in {"ok", "not_found"}
       \/ /\ q.pc = "done" /\ q.reply \notin {"ok", "not_found"} /\ q.view = NoView
       \/ /\ q.pc = "idle" /\ q.view = NoView

LEMMA EmptyTyped == EmptyTables \in Tables /\ NoView \in [Networks -> Tables]
                    /\ Idle \in Requests
<1>1. -1 \in -1 .. MaxTime + LeaseTime /\ NoTip \in 0 .. MaxIndex /\ 0 \in 0 .. MaxIndex
      /\ 0 \in 0 .. MaxTime + Skew /\ 0 \in Times
  BY Constants DEF NoTip, Times
<1>2. EmptyTables \in Tables
  BY <1>1 DEF EmptyTables, Tables
<1>3. NoView \in [Networks -> Tables]
  BY <1>2 DEF NoView
<1> QED
  BY <1>1, <1>2, <1>3 DEF Idle, Requests

\* The fields of a request.
LEMMA RequestTyped ==
    ASSUME TypeOK, NEW r \in Readers
    PROVE  /\ req[r] \in Requests
           /\ req[r].endpoint \in Endpoints \cup {"none"}
           /\ req[r].network \in Networks \cup {Unknown}
           /\ req[r].view \in [Networks -> Tables]
           /\ req[r].began \in Times /\ req[r].began \in Nat
<1>1. req[r] \in Requests
  BY DEF TypeOK
<1>2. req[r].began \in Times
  BY <1>1 DEF Requests
<1>3. req[r].began \in Nat
  BY <1>2, Constants DEF Times
<1> QED
  BY <1>1, <1>2, <1>3 DEF Requests

LEMMA ReplyStep ==
    ASSUME TypeOK, NEW r \in Readers, NEW answer \in Codes \cup {"none", "ok", "not_found"},
           Reply(r, answer),
           answer \in {"ok", "not_found"} =>
               /\ req[r].pc \in {"snapshot", "resolving"}
               /\ Handler(req[r]) = answer
    PROVE  \E q \in Requests : req' = [req EXCEPT ![r] = q] /\ RequestOK(r, q)
<1>1. CASE answer \in {"ok", "not_found"}
  <2> DEFINE q == [req[r] EXCEPT !.pc = "done", !.reply = answer]
  <2>1. req' = [req EXCEPT ![r] = q]
    BY <1>1 DEF Reply, TypeOK
  <2>2. /\ q \in Requests /\ q.pc = "done" /\ q.network = req[r].network
        /\ q.endpoint = req[r].endpoint /\ q.began = req[r].began /\ q.view = req[r].view
    BY RequestTyped DEF Requests
  <2> HIDE DEF q
  <2>3. Handler(q) = Handler(req[r])
    BY <2>2 DEF Handler
  <2> QED
    BY <1>1, <2>1, <2>2, <2>3 DEF RequestOK
<1>2. CASE answer \notin {"ok", "not_found"}
  <2> DEFINE q == [Idle EXCEPT !.pc = "done", !.reply = answer]
  <2>1. req' = [req EXCEPT ![r] = q]
    BY <1>2 DEF Reply
  <2>2. q \in Requests
    BY EmptyTyped DEF Requests
  <2>3. q.pc = "done" /\ q.reply = answer /\ q.view = NoView
    BY DEF Idle
  <2> HIDE DEF q
  <2> QED
    BY <1>2, <2>1, <2>2, <2>3 DEF RequestOK
<1> QED
  BY <1>1, <1>2

LEMMA RequestStep ==
    ASSUME TypeOK, ToldByHandler, NEW r \in Readers, Request(r)
    PROVE  /\ UNCHANGED tables
           /\ \E q \in Requests : req' = [req EXCEPT ![r] = q] /\ RequestOK(r, q)
<1>1. UNCHANGED tables
  BY DEF Request, Begin, Snapshot, Answer, ReportStatus, VerifyEvidence, VerifyReport,
         QueryFails, Finish
<1>2. req[r] \in Requests /\ clock \in Times
  BY RequestTyped DEF TypeOK
<1>3. ASSUME req[r].pc \in {"snapshot", "resolving"}
      PROVE  Asks(req[r]) /\ Handler(req[r]) \in Codes \cup {"ok", "not_found"}
  <2>1. Asks(req[r])
    BY <1>3, RequestTyped DEF Asks, ToldByHandler
  <2> QED
    BY <2>1, HandlerOK
<1>4. CASE \E e \in Endpoints, n \in Networks \cup {Unknown} : Begin(r, e, n)
  <2>1. PICK e \in Endpoints, n \in Networks \cup {Unknown} : Begin(r, e, n)
    BY <1>4
  <2> DEFINE q == [Idle EXCEPT !.pc = "begun", !.endpoint = e, !.network = n, !.began = clock]
  <2>2. req' = [req EXCEPT ![r] = q]
    BY <2>1 DEF Begin
  <2>3. q \in Requests
    BY <1>2, EmptyTyped DEF Requests
  <2>4. q.pc = "begun" /\ q.endpoint = e /\ q.began = clock /\ q.view = NoView
    BY DEF Idle
  <2> HIDE DEF q
  <2> QED
    BY <1>1, <2>2, <2>3, <2>4 DEF RequestOK
<1>5. CASE Snapshot(r)
  <2>1. CASE req[r].network = Unknown
    <3>1. Reply(r, "NETWORK_NOT_FOUND") /\ "NETWORK_NOT_FOUND" \in Codes
      BY <1>5, <2>1 DEF Snapshot, Codes
    <3>2. "NETWORK_NOT_FOUND" \notin {"ok", "not_found"}
      OBVIOUS
    <3> QED
      BY <1>1, <3>1, <3>2, ReplyStep
  <2>2. CASE req[r].network # Unknown
    <3> DEFINE q == [req[r] EXCEPT !.pc = "snapshot", !.view = db]
    <3>1. req' = [req EXCEPT ![r] = q] /\ req[r].pc = "begun" /\ req[r].endpoint # "status"
      BY <1>5, <2>2 DEF Snapshot, TypeOK
    <3>2. /\ q \in Requests /\ q.pc = "snapshot" /\ q.network = req[r].network
          /\ q.endpoint = req[r].endpoint /\ q.began = req[r].began /\ q.view = db
      BY <1>2 DEF Requests, TypeOK
    <3> HIDE DEF q
    <3>3. req[r].network \in Networks
      BY <2>2, RequestTyped
    <3>4. req[r].endpoint \in Endpoints \ {"status"}
      BY <1>5, <3>1, RequestTyped DEF ToldByHandler
    <3> QED
      BY <1>1, <3>1, <3>2, <3>3, <3>4 DEF RequestOK
  <2> QED
    BY <2>1, <2>2
<1>6. CASE Answer(r)
  <2>1. req[r].pc = "snapshot" /\ Reply(r, Handler(req[r]))
    BY <1>6 DEF Answer
  <2> QED
    BY <1>1, <1>3, <2>1, ReplyStep
<1>7. CASE ReportStatus(r)
  <2>1. PICK answer \in {"NETWORK_NOT_FOUND", "INDEXER_STATUS_NOT_FOUND", "none"} :
            Reply(r, answer)
    BY <1>7 DEF ReportStatus
  <2>2. answer \in Codes \cup {"none"} /\ answer \notin {"ok", "not_found"}
    BY DEF Codes
  <2> QED
    BY <1>1, <2>1, <2>2, ReplyStep
<1>8. CASE VerifyEvidence(r)
  <2>1. req[r].pc = "snapshot"
    BY <1>8 DEF VerifyEvidence
  <2>2. CASE Handler(req[r]) \in {"ok", "not_found"}
    <3> DEFINE q == [req[r] EXCEPT !.pc = "resolving"]
    <3>1. req' = [req EXCEPT ![r] = q]
      BY <1>8, <2>2 DEF VerifyEvidence, TypeOK
    <3>2. /\ q \in Requests /\ q.pc = "resolving" /\ q.network = req[r].network
          /\ q.endpoint = req[r].endpoint /\ q.began = req[r].began /\ q.view = req[r].view
      BY <1>2 DEF Requests
    <3> HIDE DEF q
    <3> QED
      BY <1>1, <2>1, <3>1, <3>2 DEF RequestOK
  <2>3. CASE Handler(req[r]) \notin {"ok", "not_found"}
    <3>1. Reply(r, Handler(req[r]))
      BY <1>8, <2>3 DEF VerifyEvidence
    <3> QED
      BY <1>1, <1>3, <2>1, <2>3, <3>1, ReplyStep
  <2> QED
    BY <2>2, <2>3
<1>9. CASE VerifyReport(r)
  <2>1. req[r].pc = "resolving" /\ Reply(r, Handler(req[r]))
    BY <1>9 DEF VerifyReport
  <2> QED
    BY <1>1, <1>3, <2>1, ReplyStep
<1>10. CASE QueryFails(r)
  <2>1. Reply(r, "INTERNAL_ERROR") /\ "INTERNAL_ERROR" \in Codes
    BY <1>10 DEF QueryFails, Codes
  <2>2. "INTERNAL_ERROR" \notin {"ok", "not_found"}
    OBVIOUS
  <2> QED
    BY <1>1, <2>1, <2>2, ReplyStep
<1>11. CASE Finish(r)
  <2>1. req' = [req EXCEPT ![r] = Idle]
    BY <1>11 DEF Finish
  <2>2. Idle \in Requests /\ Idle.pc = "idle" /\ Idle.view = NoView
    BY EmptyTyped DEF Idle
  <2> QED
    BY <1>1, <2>1, <2>2 DEF RequestOK
<1> QED
  BY <1>4, <1>5, <1>6, <1>7, <1>8, <1>9, <1>10, <1>11 DEF Request

-----------------------------------------------------------------------------
(* The invariant.                                                           *)

LEMMA InitInv == Init => ReadInv
<1> SUFFICES ASSUME Init PROVE ReadInv
  OBVIOUS
<1>1. 0 \in Times /\ 0 \in Nat
  BY Constants DEF Times
<1>2. TypeOK
  BY <1>1, EmptyTyped DEF Init, TypeOK
<1>3. RowsTrue
  BY DEF Init, RowsTrue, NoView, EmptyTables
<1>4. ViewTrue
  BY <1>1 DEF Init, ViewTrue, Idle, NoView, EmptyTables
<1>5. Due
  BY DEF Init, Due, Idle
<1>6. ToldByHandler
  BY DEF Init, ToldByHandler, Idle, Told
<1> QED
  BY <1>2, <1>3, <1>4, <1>5, <1>6 DEF ReadInv

\* What has been served stays served while the request lasts.
LEMMA RecordKeeps ==
    ASSUME Record, TypeOK, NEW r \in Readers, req'[r].pc # "idle"
    PROVE  /\ served[r] \subseteq served'[r]
           /\ \A n \in Networks : Authoritative(db'[n], clock') =>
                                      <<n, db'[n].head>> \in served'[r]
<1>1. served'[r] = served[r] \cup {<<n, db'[n].head>> :
                                      n \in {m \in Networks : Authoritative(db'[m], clock')}}
  BY DEF Record
<1> QED
  BY <1>1

LEMMA RecordTyped ==
    ASSUME Record, TypeOK, db' \in [Networks -> Tables]
    PROVE  served' \in [Readers -> SUBSET (Networks \X (0 .. MaxIndex))]
<1>1. \A n \in Networks : db'[n].head \in 0 .. MaxIndex
  BY DEF Tables
<1> QED
  BY <1>1 DEF Record, TypeOK

\* A step of the clock.
LEMMA TickKeeps ==
    ASSUME ReadInv, Tick, Record
    PROVE  ReadInv'
<1>1. clock' \in Times /\ UNCHANGED <<db, mentions, req>>
  BY Constants DEF Tick, ReadInv, TypeOK, Times
<1>2. TypeOK'
  BY <1>1, RecordTyped DEF ReadInv, TypeOK
<1>3. RowsTrue' /\ ViewTrue' /\ ToldByHandler'
  BY <1>1 DEF ReadInv, RowsTrue, ViewTrue, ToldByHandler, Told, Handler
<1>4. Due'
  <2> SUFFICES ASSUME NEW r \in Readers, NEW n \in Networks
               PROVE  /\ req'[r].pc = "begun" /\ Authoritative(db'[n], req'[r].began) =>
                             <<n, db'[n].head>> \in served'[r]
                      /\ req'[r].pc # "idle" /\ Authoritative(req'[r].view[n], req'[r].began) =>
                             <<n, req'[r].view[n].head>> \in served'[r]
    BY DEF Due, Authoritative
  <2>1. req'[r].pc # "idle" => served[r] \subseteq served'[r]
    BY RecordKeeps DEF ReadInv
  <2> QED
    BY <1>1, <2>1 DEF ReadInv, Due
<1> QED
  BY <1>2, <1>3, <1>4 DEF ReadInv

\* A step of a writer: what it makes authoritative is recorded for every request
\* under way, and what it adds to the chain is above every view.
LEMMA WriterKeeps ==
    ASSUME ReadInv, NEW n \in Networks, Indexer(n), Record
    PROVE  ReadInv'
<1>1. PICK t : WriteOK(n, t)
  BY WriterStep DEF ReadInv
<1>2. UNCHANGED <<clock, req>>
  BY WriterStep DEF ReadInv
<1>3. db' \in [Networks -> Tables] /\ db'[n] = t
      /\ \A m \in Networks : m # n => db'[m] = db[m]
  BY <1>1 DEF WriteOK, ReadInv, TypeOK
<1>4. t \in Tables /\ t.head \in Nat /\ t.head <= MaxIndex /\ t.lease \in Int
  BY <1>1, Constants DEF WriteOK, Tables
<1>5. /\ mentions' \in [Networks -> SUBSET Indices]
      /\ \A m \in Networks : m # n => mentions'[m] = mentions[m]
      /\ mentions'[n] = mentions[n] \/ mentions'[n] = mentions[n] \cup {t.head}
  <2>1. CASE mentions' = mentions
    BY <2>1 DEF ReadInv, TypeOK
  <2>2. CASE mentions' # mentions
    <3>1. mentions' = [mentions EXCEPT ![n] = @ \cup {t.head}] /\ t.head >= Activation
      BY <1>1, <2>2 DEF WriteOK
    <3>2. t.head \in Indices
      BY <1>4, <3>1, Constants DEF Indices
    <3> QED
      BY <3>1, <3>2 DEF ReadInv, TypeOK
  <2> QED
    BY <2>1, <2>2
<1>6. \/ mentions' = mentions /\ t.head = db[n].head /\ t.rows = db[n].rows
      \/ t.head > db[n].head /\ t.head >= Activation /\ t.rows = mentions'[n]
  BY <1>1 DEF WriteOK
<1>7. db[n].head \in Nat /\ mentions[n] \in SUBSET Indices
      /\ \A i \in mentions[n] : i \in Nat /\ i <= db[n].head
  <2>1. db[n].head \in Nat /\ mentions[n] \in SUBSET Indices
    BY Typed DEF ReadInv
  <2>2. \A i \in mentions[n] : i <= db[n].head
    BY DEF ReadInv, RowsTrue
  <2>3. \A i \in Indices : i \in Nat
    BY Constants DEF Indices
  <2> QED
    BY <2>1, <2>2, <2>3
<1>8. TypeOK'
  BY <1>2, <1>3, <1>5, RecordTyped DEF ReadInv, TypeOK
<1>9. RowsTrue'
  <2>1. /\ t.rows = mentions'[n] /\ (t.head = 0 \/ t.head >= Activation)
        /\ \A i \in mentions'[n] : i <= t.head
    <3>1. CASE mentions' = mentions /\ t.head = db[n].head /\ t.rows = db[n].rows
      BY <3>1 DEF ReadInv, RowsTrue
    <3>2. CASE t.head > db[n].head /\ t.head >= Activation /\ t.rows = mentions'[n]
      BY <1>4, <1>5, <1>7, <3>2
    <3> QED
      BY <1>6, <3>1, <3>2
  <2> QED
    BY <1>3, <1>5, <2>1 DEF ReadInv, RowsTrue
<1>10. ViewTrue'
  <2> SUFFICES ASSUME NEW r \in Readers, NEW m \in Networks
               PROVE  /\ req'[r].view[m].head <= db'[m].head
                      /\ req'[r].view[m].rows =
                             {i \in mentions'[m] : i <= req'[r].view[m].head}
    BY DEF ViewTrue
  <2>1. /\ req[r].view[m].head <= db[m].head
        /\ req[r].view[m].rows = {i \in mentions[m] : i <= req[r].view[m].head}
    BY DEF ReadInv, ViewTrue
  <2>2. CASE m # n
    BY <1>2, <1>3, <1>5, <2>1, <2>2
  <2>3. CASE m = n
    <3>1. req[r].view[n] \in Tables
      BY RequestTyped DEF ReadInv
    <3>2. req[r].view[n].head \in Nat
      BY <3>1, Constants DEF Tables
    <3>3. req[r].view[n].head <= t.head
          /\ (t.head > db[n].head => ~(t.head <= req[r].view[n].head))
      BY <1>4, <1>6, <1>7, <2>1, <2>3, <3>2
    <3>4. mentions'[n] = mentions[n] \/ t.head > db[n].head
      BY <1>6
    <3>5. {i \in mentions'[n] : i <= req[r].view[n].head} =
          {i \in mentions[n] : i <= req[r].view[n].head}
      BY <1>5, <3>3, <3>4
    <3> QED
      BY <1>2, <1>3, <2>1, <2>3, <3>3, <3>5
  <2> QED
    BY <2>2, <2>3
<1>11. Due'
  <2> SUFFICES ASSUME NEW r \in Readers, NEW m \in Networks
               PROVE  /\ req'[r].pc = "begun" /\ Authoritative(db'[m], req'[r].began) =>
                             <<m, db'[m].head>> \in served'[r]
                      /\ req'[r].pc # "idle" /\ Authoritative(req'[r].view[m], req'[r].began) =>
                             <<m, req'[r].view[m].head>> \in served'[r]
    BY DEF Due, Authoritative
  <2>1. req'[r].pc # "idle" =>
            /\ served[r] \subseteq served'[r]
            /\ Authoritative(db'[m], clock') => <<m, db'[m].head>> \in served'[r]
    BY RecordKeeps DEF ReadInv
  <2>2. CASE m # n
    BY <1>2, <1>3, <2>1, <2>2 DEF ReadInv, Due
  <2>3. CASE m = n
    <3>1. Authoritative(t, req[r].began) => Authoritative(t, clock)
      BY <1>1 DEF WriteOK, Authoritative
    <3> QED
      BY <1>2, <1>3, <2>1, <2>3, <3>1 DEF ReadInv, Due
  <2> QED
    BY <2>2, <2>3
<1>12. ToldByHandler'
  BY <1>2 DEF ReadInv, ToldByHandler, Told, Handler
<1> QED
  BY <1>8, <1>9, <1>10, <1>11, <1>12 DEF ReadInv

\* A step of a request: its view is the tables of this instant, or the one it had.
LEMMA RequestKeeps ==
    ASSUME ReadInv, NEW r \in Readers, Request(r), Record
    PROVE  ReadInv'
<1>1. UNCHANGED tables
  BY RequestStep DEF ReadInv
<1>2. PICK q \in Requests : req' = [req EXCEPT ![r] = q] /\ RequestOK(r, q)
  BY RequestStep DEF ReadInv
<1>3. UNCHANGED <<clock, db, mentions>>
  BY <1>1 DEF tables
<1>4. req' \in [Readers -> Requests] /\ req'[r] = q
      /\ \A s \in Readers : s # r => req'[s] = req[s]
  BY <1>2 DEF ReadInv, TypeOK
<1>5. TypeOK'
  BY <1>3, <1>4, RecordTyped DEF ReadInv, TypeOK
<1>6. RowsTrue'
  BY <1>3 DEF ReadInv, RowsTrue
<1>7. q.view = NoView \/ q.view = db \/ q.view = req[r].view
  BY <1>2 DEF RequestOK
<1>8. \A n \in Networks : /\ db[n].head \in Nat
                          /\ mentions[n] \in SUBSET Indices
                          /\ db[n].rows = mentions[n]
                          /\ \A i \in mentions[n] : i <= db[n].head
  BY Typed DEF ReadInv, RowsTrue
<1>9. \A i \in Indices : i \in Nat /\ i >= 1
  BY Constants DEF Indices
<1>10. ViewTrue'
  <2> SUFFICES ASSUME NEW s \in Readers, NEW n \in Networks
               PROVE  /\ req'[s].view[n].head <= db[n].head
                      /\ req'[s].view[n].rows =
                             {i \in mentions[n] : i <= req'[s].view[n].head}
    BY <1>3 DEF ViewTrue
  <2>1. CASE req'[s].view = req[s].view
    BY <2>1 DEF ReadInv, ViewTrue
  <2>2. CASE s = r /\ q.view = NoView
    <3>1. NoView[n].head = 0 /\ NoView[n].rows = {}
      BY DEF NoView, EmptyTables
    <3>2. {i \in mentions[n] : i <= 0} = {}
      <4>1. \A i \in mentions[n] : ~(i <= 0)
        BY <1>8, <1>9
      <4> QED
        BY <4>1
    <3>3. 0 <= db[n].head
      BY <1>8
    <3> QED
      BY <1>4, <2>2, <3>1, <3>2, <3>3
  <2>3. CASE s = r /\ q.view = db
    <3>1. db[n].head <= db[n].head
      BY <1>8
    <3>2. {i \in mentions[n] : i <= db[n].head} = mentions[n]
      BY <1>8
    <3> QED
      BY <1>4, <1>8, <2>3, <3>1, <3>2
  <2> QED
    BY <1>4, <1>7, <2>1, <2>2, <2>3
<1>11. Due'
  <2> SUFFICES ASSUME NEW s \in Readers, NEW n \in Networks
               PROVE  /\ req'[s].pc = "begun" /\ Authoritative(db[n], req'[s].began) =>
                             <<n, db[n].head>> \in served'[s]
                      /\ req'[s].pc # "idle" /\ Authoritative(req'[s].view[n], req'[s].began) =>
                             <<n, req'[s].view[n].head>> \in served'[s]
    BY <1>3 DEF Due, Authoritative
  <2>1. req'[s].pc # "idle" =>
            /\ served[s] \subseteq served'[s]
            /\ Authoritative(db[n], clock) => <<n, db[n].head>> \in served'[s]
    BY <1>3, RecordKeeps DEF ReadInv
  <2>2. CASE s # r
    BY <1>4, <2>1, <2>2 DEF ReadInv, Due
  <2>3. CASE s = r
    <3>1. ~Authoritative(NoView[n], q.began)
      BY DEF NoView, EmptyTables, Authoritative
    <3>2. /\ req[r].pc = "begun" /\ Authoritative(db[n], req[r].began) =>
                 <<n, db[n].head>> \in served[r]
          /\ req[r].pc # "idle" /\ Authoritative(req[r].view[n], req[r].began) =>
                 <<n, req[r].view[n].head>> \in served[r]
      BY DEF ReadInv, Due
    <3>3. CASE q.pc = "begun" /\ q.began = clock /\ q.view = NoView
      BY <1>4, <2>1, <2>3, <3>1, <3>3
    <3>4. CASE q.view = NoView /\ q.pc # "begun"
      BY <1>4, <2>3, <3>1, <3>4
    <3>5. CASE req[r].pc = "begun" /\ q.pc = "snapshot" /\ q.began = req[r].began /\ q.view = db
      BY <1>4, <2>1, <2>3, <3>2, <3>5
    <3>6. CASE /\ req[r].pc \in {"snapshot", "resolving"} /\ q.pc \in {"resolving", "done"}
               /\ q.began = req[r].began /\ q.view = req[r].view
      BY <1>4, <2>1, <2>3, <3>2, <3>6
    <3> QED
      BY <1>2, <3>3, <3>4, <3>5, <3>6 DEF RequestOK
  <2> QED
    BY <2>2, <2>3
<1>12. ToldByHandler'
  <2> SUFFICES ASSUME NEW s \in Readers
               PROVE  /\ req'[s].pc = "begun" => req'[s].endpoint \in Endpoints
                      /\ req'[s].pc \in {"snapshot", "resolving"} =>
                             req'[s].network \in Networks
                             /\ req'[s].endpoint \in Endpoints \ {"status"}
                      /\ Told(req'[s]) => /\ req'[s].network \in Networks
                                          /\ req'[s].endpoint \in Endpoints \ {"status"}
                                          /\ Handler(req'[s]) \in {"ok", "not_found"}
    BY DEF ToldByHandler, Told, Handler
  <2>1. CASE s # r
    BY <1>4, <2>1 DEF ReadInv, ToldByHandler
  <2>2. CASE s = r
    <3>1. /\ q.pc = "begun" => q.endpoint \in Endpoints
          /\ q.pc \in {"snapshot", "resolving"} =>
                 q.network \in Networks /\ q.endpoint \in Endpoints \ {"status"}
      BY <1>2 DEF RequestOK, ReadInv, ToldByHandler
    <3>2. Told(q) => /\ q.network \in Networks /\ q.endpoint \in Endpoints \ {"status"}
                     /\ Handler(q) \in {"ok", "not_found"}
      BY <1>2 DEF RequestOK, Told, ReadInv, ToldByHandler
    <3> QED
      BY <1>4, <2>2, <3>1, <3>2
  <2> QED
    BY <2>1, <2>2
<1> QED
  BY <1>5, <1>6, <1>10, <1>11, <1>12 DEF ReadInv

LEMMA NextInv == ReadInv /\ [Next]_vars => ReadInv'
<1> SUFFICES ASSUME ReadInv, [Next]_vars PROVE ReadInv'
  OBVIOUS
<1>1. CASE Tick /\ Record
  BY <1>1, TickKeeps
<1>2. CASE (\E n \in Networks : Indexer(n)) /\ Record
  BY <1>2, WriterKeeps
<1>3. CASE (\E r \in Readers : Request(r)) /\ Record
  BY <1>3, RequestKeeps
<1>4. CASE UNCHANGED vars
  BY <1>4 DEF vars, tables, ReadInv, TypeOK, RowsTrue, ViewTrue, Due, ToldByHandler, Told,
              Handler, Authoritative
<1> QED
  BY <1>1, <1>2, <1>3, <1>4 DEF Next

THEOREM Invariance == Spec => []ReadInv
BY InitInv, NextInv, PTL DEF Spec

-----------------------------------------------------------------------------
(* What an answer promises.                                                 *)

\* Whatever the indexer commits, loses or halts while a handler runs, what an
\* endpoint answers as authoritative, 404 included, is the chain up to one
\* checkpoint, was served by a ready indexer under a live lease at some instant
\* since the request began, and is neither stale nor from the future.
THEOREM AnswersAreAuthoritative == Spec => []AnswerAuthoritative
<1>1. ReadInv => AnswerAuthoritative
  <2> SUFFICES ASSUME ReadInv, NEW r \in Readers, Told(req[r]), NEW n \in About(req[r])
               PROVE  /\ req[r].view[n].rows = {i \in mentions[n] : i <= req[r].view[n].head}
                      /\ <<n, req[r].view[n].head>> \in served[r]
                      /\ req[r].view[n].closeTime
                             \in (req[r].began - MaxAge) .. (req[r].began + Skew)
    BY DEF AnswerAuthoritative, AnswerTrue, AnswerDue, AnswerFresh
  <2>1. Handler(req[r]) \in {"ok", "not_found"} /\ Asks(req[r])
    BY RequestTyped DEF ReadInv, ToldByHandler, Asks
  <2>2. /\ n \in Networks
        /\ Authoritative(req[r].view[n], req[r].began)
        /\ req[r].view[n].closeTime \in (req[r].began - MaxAge) .. (req[r].began + Skew)
    BY <2>1, HandlerOK
  <2>3. req[r].pc # "idle"
    BY DEF Told
  <2> QED
    BY <2>2, <2>3 DEF ReadInv, ViewTrue, Due
<1> QED
  BY <1>1, Invariance, PTL

-----------------------------------------------------------------------------
(* Payloads.                                                               *)

OnLedger == [tuple : Tuples, uri : V!Uris, state : V!States]
Passes == [file : Contents, uri : V!Uris, tuple : Tuples, lax : BOOLEAN]
Verifications ==
    [pc : {"idle", "request", "payload", "resolve", "report", "exited"}, mode : Modes \cup {"none"},
     tuple : Tuples \cup {"none"}, given : Contents \cup {V!NoContent}, seen : OnLedger \cup {V!NoCredential},
     schema : BOOLEAN, payload : V!Statuses, code : {0, 3, 5}]
Underway == {"url", "lookup", "fetch", "gateway", "body"}
Fetches ==
    [pc : Underway \cup {"idle", "done"}, hop : 0 .. (MaxRedirects + 1), safe : BOOLEAN,
     host : V!Hosts \cup {"none"}, pinned : V!Addresses \cup {"none"}, contacted : SUBSET Public,
     body : Contents \cup {V!NoContent}, got : 0 .. Limit, late : BOOLEAN]

ArtifactsOK ==
    /\ disk \in Contents \cup {V!NoContent} /\ printed \in V!Uris \cup {V!NoUri} /\ known \in BOOLEAN
    /\ cred \in OnLedger \cup {V!NoCredential}
    /\ passed \in Passes \cup {V!NoPass}
    /\ passed # V!NoPass =>
          /\ V!VerifyPayloadIntegrity(passed.file, passed.uri)
          /\ V!ParseCredentialPayload(passed.file, passed.tuple, passed.lax)

\* The next request of a fetch goes to a public address, and only within the limit.
FetchOK(g) ==
    /\ g \in Fetches
    /\ g.pc \in {"url", "lookup", "fetch"} => g.hop <= MaxRedirects
    /\ g.pc = "fetch" => g.pinned \in Public

\* A verdict on content is that of the content that was sent, or was received to its end,
\* against the credential that was read, and only such a verdict makes the command succeed.
VerdictOK(w, g) ==
    /\ w \in Verifications
    /\ w.pc \in {"idle", "request"} => w.seen = V!NoCredential
    /\ w.seen # V!NoCredential => w.seen.tuple = w.tuple
    /\ g.pc \in Underway => w.pc = "resolve"
    /\ w.pc = "resolve" => w.mode = "resolve"
    /\ w.payload # "none" => w.pc \in {"report", "exited"}
    /\ w.payload # "none" /\ w.mode = "none" => w.payload = "not_checked"
    /\ w.payload # "none" /\ w.mode = "local" =>
          w.payload = IF w.seen = V!NoCredential \/ ~w.schema THEN "invalid"
                      ELSE V!VerifyCredentialPayload(V!CanonicalJson(w.given), w.seen.uri, w.tuple)
    /\ w.payload \in {"valid", "tampered"} /\ w.mode = "resolve" =>
          /\ g.pc = "done" /\ g.got = V!Size(g.body)
          /\ w.payload = V!VerifyCredentialPayload(g.body, w.seen.uri, w.tuple)
    /\ w.pc = "exited" /\ w.code = 0 => w.seen.state = "active" /\ w.schema /\ w.payload = "valid"

PayloadInv == PayloadAssumption /\ ArtifactsOK /\ FetchOK(fetch) /\ VerdictOK(command, fetch)

-----------------------------------------------------------------------------
(* The steps.                                                              *)

\* The commands that need no server, the ledger and the indexer.
LEMMA ArtifactsStep ==
    ASSUME PayloadInv, V!Artifacts
    PROVE  PayloadInv'
<1>1. UNCHANGED <<command, fetch>>
  BY DEF V!Artifacts, V!PayloadBuild, V!PayloadCheck, V!EditFile, V!CredentialIssue, V!CredentialMoves,
         V!CredentialDelete, V!SchemaProjected
<1>2. ArtifactsOK'
  <2>1. ASSUME NEW c \in Contents, NEW k \in Kinds, NEW o \in BOOLEAN, NEW lax \in BOOLEAN,
               V!PayloadBuild(c, k, o, lax)
        PROVE  ArtifactsOK'
    BY <2>1 DEF V!PayloadBuild, PayloadInv, ArtifactsOK, V!Uris
  <2>2. ASSUME NEW t \in Tuples, NEW lax \in BOOLEAN, V!PayloadCheck(printed, t, lax)
        PROVE  ArtifactsOK'
    <3>1. disk \in Contents /\ printed \in V!Uris
      <4>1. disk # V!NoContent /\ printed.digest = disk
        BY <2>2 DEF V!PayloadCheck, V!VerifyPayloadIntegrity
      <4> QED BY <4>1 DEF PayloadInv, ArtifactsOK, V!NoUri
    <3>2. PICK p : /\ p = passed' /\ p = [file |-> disk, uri |-> printed, tuple |-> t, lax |-> lax]
      BY <2>2 DEF V!PayloadCheck
    <3>3. p \in Passes /\ V!VerifyPayloadIntegrity(p.file, p.uri) /\ V!ParseCredentialPayload(p.file, p.tuple, p.lax)
      BY <2>2, <3>1, <3>2 DEF V!PayloadCheck, Passes
    <3> QED BY <2>2, <3>2, <3>3 DEF V!PayloadCheck, PayloadInv, ArtifactsOK
  <2>3. ASSUME NEW c \in Contents, V!EditFile(c) PROVE ArtifactsOK'
    BY <2>3 DEF V!EditFile, PayloadInv, ArtifactsOK
  <2>4. ASSUME NEW t \in Tuples, V!CredentialIssue(printed, t) PROVE ArtifactsOK'
    BY <2>4 DEF V!CredentialIssue, PayloadInv, ArtifactsOK, OnLedger, V!States
  <2>5. ASSUME NEW s \in V!States, V!CredentialMoves(s) PROVE ArtifactsOK'
    BY <2>5 DEF V!CredentialMoves, PayloadInv, ArtifactsOK, OnLedger
  <2>6. ASSUME V!CredentialDelete \/ V!SchemaProjected PROVE ArtifactsOK'
    BY <2>6 DEF V!CredentialDelete, V!SchemaProjected, PayloadInv, ArtifactsOK
  <2> QED BY <2>1, <2>2, <2>3, <2>4, <2>5, <2>6 DEF V!Artifacts
<1> QED BY <1>1, <1>2 DEF PayloadInv, PayloadAssumption, FetchOK, VerdictOK

\* The command reads its file.
LEMMA VerifyStartStep ==
    ASSUME PayloadInv, NEW t \in Tuples, NEW mode \in Modes, V!VerifyStart(t, mode)
    PROVE  PayloadInv'
<1>1. command.pc = "idle" /\ command \in Verifications /\ UNCHANGED <<V!others, fetch>>
  BY DEF V!VerifyStart, PayloadInv, VerdictOK
<1>2. (IF mode = "local" THEN disk ELSE V!NoContent) \in Contents \cup {V!NoContent}
  BY DEF PayloadInv, ArtifactsOK
<1>3. /\ command' \in Verifications /\ command'.pc = "request" /\ command'.tuple = t /\ command'.seen = command.seen
      /\ command'.payload = command.payload
  BY ZenonT(40), <1>1, <1>2 DEF V!VerifyStart, Verifications
<1>4. VerdictOK(command', fetch)
  <2>1. command.payload = "none" /\ fetch.pc \notin Underway /\ command.seen = V!NoCredential
    BY <1>1 DEF PayloadInv, VerdictOK
  <2> QED BY <1>3, <2>1 DEF VerdictOK
<1> QED BY <1>1, <1>4 DEF PayloadInv, PayloadAssumption, ArtifactsOK, FetchOK, V!others

\* The API reads credential and schema.
LEMMA VerifySnapshotStep ==
    ASSUME PayloadInv, V!VerifySnapshot
    PROVE  PayloadInv'
<1>1. command.pc = "request" /\ command \in Verifications /\ UNCHANGED <<V!others, fetch>>
  BY DEF V!VerifySnapshot, PayloadInv, VerdictOK
<1> DEFINE seen == IF cred.tuple = command.tuple THEN cred ELSE V!NoCredential
<1>2. /\ seen \in OnLedger \cup {V!NoCredential} /\ known \in BOOLEAN
      /\ seen # V!NoCredential => seen.tuple = command.tuple
  BY DEF PayloadInv, ArtifactsOK
<1>3. command' = [command EXCEPT !.pc = "payload", !.schema = known, !.seen = seen]
  BY DEF V!VerifySnapshot
<1> HIDE DEF seen
<1>4. /\ command' \in Verifications /\ command'.pc = "payload" /\ command'.tuple = command.tuple /\ command'.seen = seen
      /\ command'.payload = command.payload
  BY <1>1, <1>2, <1>3 DEF Verifications
<1>5. VerdictOK(command', fetch)
  <2>1. command.payload = "none" /\ fetch.pc \notin Underway
    BY <1>1 DEF PayloadInv, VerdictOK
  <2> QED BY <1>1, <1>2, <1>4, <2>1 DEF VerdictOK
<1> QED BY <1>1, <1>5 DEF PayloadInv, PayloadAssumption, ArtifactsOK, FetchOK, V!others

\* The fetch that has not begun.
LEMMA NoFetchOK ==
    ASSUME PayloadAssumption
    PROVE  FetchOK(V!NoFetch)
BY DEF V!NoFetch, FetchOK, Fetches, Underway, PayloadAssumption

\* The request fails: the command ends with code 3.
LEMMA RequestFailsStep ==
    ASSUME PayloadInv, V!RequestFails
    PROVE  PayloadInv'
<1>1. fetch' = V!NoFetch /\ UNCHANGED V!others
  BY DEF V!RequestFails
<1>2. command' = [pc |-> "exited", mode |-> "none", tuple |-> "none", given |-> V!NoContent,
            seen |-> V!NoCredential, schema |-> FALSE, payload |-> "none", code |-> 3]
  BY DEF V!RequestFails, V!NoVerify
<1>3. VerdictOK(command', fetch')
  BY <1>1, <1>2 DEF VerdictOK, Verifications, V!Statuses, V!NoFetch, Underway
<1> QED BY <1>1, <1>3, NoFetchOK DEF PayloadInv, PayloadAssumption, ArtifactsOK, FetchOK, V!others

\* A verdict that is none on content.
LEMMA Judged ==
    ASSUME PayloadInv, NEW status \in V!Statuses, V!Judge(status), status # "none"
    PROVE  /\ command' \in Verifications /\ command'.pc = "report" /\ command'.payload = status
           /\ command'.mode = command.mode /\ command'.tuple = command.tuple /\ command'.given = command.given /\ command'.seen = command.seen
           /\ command'.schema = command.schema /\ command'.code = command.code
<1>1. command \in Verifications
  BY DEF PayloadInv, VerdictOK
<1> QED BY <1>1 DEF V!Judge, Verifications

\* What verifyCredentialPayload can say.
LEMMA Verdicts ==
    ASSUME NEW c, NEW uri, NEW t
    PROVE  /\ V!VerifyCredentialPayload(c, uri, t) \in {"invalid", "tampered", "valid"}
           /\ V!VerifyCredentialPayload(c, uri, t) = "valid" =>
                 /\ uri.digest = c /\ c.tuple = t /\ c.canonical /\ ~c.large /\ c.fits
           /\ V!VerifyCredentialPayload(c, uri, t) = "tampered" => uri.digest # c
BY DEF V!VerifyCredentialPayload, V!ParseCredentialPayload, V!PayloadBytes, V!VerifyPayloadIntegrity, V!ParseClaims

\* The API judges what it was sent.
LEMMA PayloadStatusStep ==
    ASSUME PayloadInv, V!PayloadStatus
    PROVE  PayloadInv'
<1>1. /\ command.pc = "payload" /\ command \in Verifications /\ UNCHANGED <<V!others, fetch>>
      /\ command.mode # "resolve" \/ command.seen = V!NoCredential \/ ~command.schema
  BY DEF V!PayloadStatus, PayloadInv, VerdictOK
<1> DEFINE status == IF command.mode = "none" THEN "not_checked"
                     ELSE IF command.seen = V!NoCredential \/ ~command.schema THEN "invalid"
                     ELSE V!VerifyCredentialPayload(V!CanonicalJson(command.given), command.seen.uri, command.tuple)
<1>2. status \in V!Statuses /\ status # "none"
  BY Verdicts DEF V!Statuses
<1>3. V!Judge(status)
  BY DEF V!PayloadStatus
<1>4. /\ command' \in Verifications /\ command'.pc = "report" /\ command'.payload = status
      /\ command'.mode = command.mode /\ command'.tuple = command.tuple /\ command'.given = command.given /\ command'.seen = command.seen
      /\ command'.schema = command.schema /\ command'.code = command.code
  BY <1>2, <1>3, Judged
<1>5. VerdictOK(command', fetch)
  <2>1. fetch.pc \notin Underway /\ (command.seen # V!NoCredential => command.seen.tuple = command.tuple)
    BY <1>1 DEF PayloadInv, VerdictOK
  <2>2. command.mode = "none" => status = "not_checked"
    OBVIOUS
  <2>3. command.mode = "local" =>
          status = IF command.seen = V!NoCredential \/ ~command.schema THEN "invalid"
                   ELSE V!VerifyCredentialPayload(V!CanonicalJson(command.given), command.seen.uri, command.tuple)
    OBVIOUS
  <2>4. command.mode = "resolve" => status = "invalid"
    BY <1>1
  <2> HIDE DEF status
  <2> QED BY <1>4, <2>1, <2>2, <2>3, <2>4 DEF VerdictOK
<1> QED BY <1>1, <1>5 DEF PayloadInv, PayloadAssumption, ArtifactsOK, FetchOK, V!others

\* No verdict on content, with the fetch ended if there is one.
LEMMA NoContentJudged ==
    ASSUME PayloadInv, NEW status \in {"unavailable", "invalid"}, V!Judge(status), command.mode = "resolve",
           FetchOK(fetch'), fetch'.pc = "done" \/ (fetch' = fetch /\ command.pc = "payload"), UNCHANGED V!others
    PROVE  PayloadInv'
<1>1. /\ command' \in Verifications /\ command'.pc = "report" /\ command'.payload = status
      /\ command'.mode = command.mode /\ command'.tuple = command.tuple /\ command'.given = command.given /\ command'.seen = command.seen
      /\ command'.schema = command.schema /\ command'.code = command.code
  BY Judged DEF V!Statuses
<1>2. (command.seen # V!NoCredential => command.seen.tuple = command.tuple) /\ fetch'.pc \notin Underway
  BY DEF PayloadInv, VerdictOK, Underway
<1>3. VerdictOK(command', fetch')
  BY <1>1, <1>2 DEF VerdictOK
<1> QED BY <1>3 DEF PayloadInv, PayloadAssumption, ArtifactsOK, FetchOK, V!others

\* The fetch goes on.
LEMMA FetchGoesOn ==
    ASSUME PayloadInv, UNCHANGED <<V!others, command>>, fetch.pc \in Underway, FetchOK(fetch')
    PROVE  PayloadInv'
<1>1. command.pc = "resolve" /\ command.mode = "resolve"
  BY DEF PayloadInv, VerdictOK
<1>2. VerdictOK(command, fetch')
  BY <1>1 DEF PayloadInv, VerdictOK
<1> QED BY <1>2 DEF PayloadInv, PayloadAssumption, ArtifactsOK, FetchOK, VerdictOK, V!others

\* The fetch begins.
LEMMA ResolveStartStep ==
    ASSUME PayloadInv, NEW h \in V!Hosts, V!ResolveStart(h)
    PROVE  PayloadInv'
<1>1. command.pc = "payload" /\ command.mode = "resolve" /\ command \in Verifications /\ UNCHANGED V!others
  BY DEF V!ResolveStart, PayloadInv, VerdictOK
<1>2. /\ command' \in Verifications /\ command'.pc = "resolve" /\ command'.mode = "resolve" /\ command'.tuple = command.tuple
      /\ command'.seen = command.seen /\ command'.payload = command.payload
  BY <1>1 DEF V!ResolveStart, Verifications
<1>3. FetchOK(fetch')
  <2>1. MaxRedirects \in Nat /\ Limit \in Nat
    BY DEF PayloadInv, PayloadAssumption
  <2>2. V!NoFetch \in Fetches /\ V!NoFetch.hop = 0
    BY NoFetchOK DEF PayloadInv, FetchOK, V!NoFetch
  <2>3. fetch' \in Fetches /\ fetch'.hop = 0 /\ fetch'.pc \in {"url", "gateway"}
    BY ZenonT(40), <2>2 DEF V!ResolveStart, Fetches, Underway
  <2> QED BY <2>1, <2>3 DEF FetchOK
<1>4. VerdictOK(command', fetch')
  <2>1. command.payload = "none" /\ (command.seen # V!NoCredential => command.seen.tuple = command.tuple)
    BY <1>1 DEF PayloadInv, VerdictOK
  <2> QED BY <1>2, <2>1 DEF VerdictOK
<1> QED BY <1>1, <1>3, <1>4 DEF PayloadInv, PayloadAssumption, ArtifactsOK, FetchOK, V!others

\* A fetch that ends without its body.
LEMMA FetchEndsStep ==
    ASSUME PayloadInv, fetch.pc \in Underway, V!Unavailable \/ V!Invalid, UNCHANGED V!others
    PROVE  PayloadInv'
<1>1. fetch \in Fetches /\ command.mode = "resolve" /\ fetch' = [fetch EXCEPT !.pc = "done"]
  BY DEF PayloadInv, FetchOK, VerdictOK, V!Unavailable, V!Invalid
<1>2. FetchOK(fetch') /\ fetch'.pc = "done"
  BY <1>1 DEF FetchOK, Fetches
<1> QED BY <1>1, <1>2, NoContentJudged DEF V!Unavailable, V!Invalid

\* Every step of a fetch.
LEMMA FetchStep ==
    ASSUME PayloadInv, V!Fetch
    PROVE  PayloadInv'
<1>1. fetch \in Fetches /\ FetchOK(fetch) /\ MaxRedirects \in Nat /\ Limit \in Nat
  BY DEF PayloadInv, FetchOK, PayloadAssumption
<1>2. ASSUME V!CheckUrl PROVE PayloadInv'
  <2>1. CASE V!Unavailable
    BY <1>2, <2>1, FetchEndsStep DEF V!CheckUrl, Underway
  <2>2. CASE ~(~fetch.safe \/ fetch.host \in Private)
    <3>1. fetch.pc = "url" /\ fetch.hop <= MaxRedirects
      BY <1>1, <1>2 DEF V!CheckUrl, FetchOK
    <3>2. FetchOK(fetch')
      <4>1. CASE fetch.host \in Public
        <5>1. fetch.host \in Public /\ fetch' = [fetch EXCEPT !.pc = "fetch", !.pinned = fetch.host]
          BY <1>2, <2>2, <4>1 DEF V!CheckUrl
        <5>2. fetch' \in Fetches /\ fetch'.pc = "fetch" /\ fetch'.pinned = fetch.host /\ fetch'.hop = fetch.hop
          BY <1>1, <5>1 DEF Fetches, Underway, V!Addresses
        <5> QED BY <3>1, <5>1, <5>2 DEF FetchOK
      <4>2. CASE fetch.host \notin Public
        <5>1. fetch' = [fetch EXCEPT !.pc = "lookup"]
          BY <1>2, <2>2, <4>2 DEF V!CheckUrl
        <5>2. fetch' \in Fetches /\ fetch'.pc = "lookup" /\ fetch'.hop = fetch.hop
          BY <1>1, <5>1 DEF Fetches, Underway
        <5> QED BY <3>1, <5>2 DEF FetchOK
      <4> QED BY <4>1, <4>2
    <3> QED BY <1>2, <2>2, <3>1, <3>2, FetchGoesOn DEF V!CheckUrl, Underway
  <2> QED BY <1>2, <2>1, <2>2 DEF V!CheckUrl
<1>3. ASSUME NEW answers \in SUBSET V!Addresses, V!ResolvePublicAddress(answers) PROVE PayloadInv'
  <2>1. CASE answers = {} \/ ~(answers \subseteq Public)
    BY <1>3, <2>1, FetchEndsStep DEF V!ResolvePublicAddress, Underway
  <2>2. CASE ~(answers = {} \/ ~(answers \subseteq Public))
    <3>1. UNCHANGED <<V!others, command>>
      BY <1>3, <2>2 DEF V!ResolvePublicAddress
    <3>2. PICK a \in answers : fetch' = [fetch EXCEPT !.pc = "fetch", !.pinned = a]
      BY <1>3, <2>2 DEF V!ResolvePublicAddress
    <3>3. fetch.pc = "lookup" /\ fetch.hop <= MaxRedirects /\ a \in Public
      BY <1>1, <1>3, <2>2 DEF V!ResolvePublicAddress, FetchOK
    <3>4. fetch' \in Fetches /\ fetch'.pc = "fetch" /\ fetch'.pinned = a /\ fetch'.hop = fetch.hop
      BY <1>1, <3>2, <3>3 DEF Fetches, Underway, V!Addresses
    <3>5. FetchOK(fetch')
      BY <3>3, <3>4 DEF FetchOK
    <3> QED BY <3>1, <3>3, <3>5, FetchGoesOn DEF Underway
  <2> QED BY <2>1, <2>2
<1>4. ASSUME fetch.pc = "fetch"
      PROVE  /\ fetch.hop \in 0 .. MaxRedirects /\ V!Contacted \in SUBSET Public /\ command.mode = "resolve"
             /\ fetch.hop + 1 \in 0 .. (MaxRedirects + 1)
  BY <1>1, <1>4 DEF FetchOK, Fetches, V!Contacted, PayloadInv, VerdictOK, Underway
<1>5. ASSUME NEW u \in V!Urls, V!FetchRedirect(u) PROVE PayloadInv'
  <2>1. fetch.pc = "fetch" /\ UNCHANGED V!others
    BY <1>5 DEF V!FetchRedirect
  <2> DEFINE pc == IF fetch.hop = MaxRedirects THEN "done" ELSE "url"
             hop == fetch.hop + 1
  <2>2. fetch' = [fetch EXCEPT !.contacted = V!Contacted, !.hop = hop, !.pc = pc, !.safe = u.safe, !.host = u.host]
    BY <1>5 DEF V!FetchRedirect
  <2>3. /\ pc \in {"done", "url"} /\ hop \in 0 .. (MaxRedirects + 1)
        /\ pc = "url" => hop <= MaxRedirects
        /\ IF pc = "done" THEN V!Judge("unavailable") ELSE UNCHANGED command
    BY <1>1, <1>4, <1>5, <2>1 DEF V!FetchRedirect, Fetches
  <2>4. u.safe \in BOOLEAN /\ u.host \in V!Hosts
    BY DEF V!Urls, V!Hosts
  <2> HIDE DEF pc, hop
  <2>5. fetch' \in Fetches /\ fetch'.pc = pc /\ fetch'.hop = hop
    BY <1>1, <1>4, <2>1, <2>2, <2>3, <2>4 DEF Fetches, Underway
  <2>6. FetchOK(fetch')
    BY <2>3, <2>5 DEF FetchOK
  <2>7. CASE pc = "done"
    BY <1>4, <2>1, <2>3, <2>5, <2>6, <2>7, NoContentJudged
  <2>8. CASE pc # "done"
    BY <2>1, <2>3, <2>6, <2>8, FetchGoesOn DEF Underway
  <2> QED BY <2>7, <2>8
<1>6. ASSUME V!FetchFails PROVE PayloadInv'
  <2>1. fetch.pc = "fetch" /\ UNCHANGED V!others /\ V!Judge("unavailable")
        /\ fetch' = [fetch EXCEPT !.pc = "done", !.contacted = V!Contacted]
    BY <1>6 DEF V!FetchFails
  <2>2. fetch' \in Fetches /\ fetch'.pc = "done"
    BY <1>1, <1>4, <2>1 DEF Fetches
  <2> QED BY <1>4, <2>1, <2>2, NoContentJudged DEF FetchOK
<1>7. ASSUME NEW c \in Contents, V!FetchAnswers(c) PROVE PayloadInv'
  <2>1. fetch.pc = "fetch" /\ UNCHANGED <<V!others, command>>
        /\ fetch' = [fetch EXCEPT !.pc = "body", !.contacted = V!Contacted, !.body = c]
    BY <1>7 DEF V!FetchAnswers
  <2>2. fetch' \in Fetches /\ fetch'.pc = "body"
    BY <1>1, <1>4, <2>1 DEF Fetches, Underway
  <2> QED BY <2>1, <2>2, FetchGoesOn DEF FetchOK, Underway
<1>8. ASSUME NEW c \in Contents, V!GatewayAnswers(c) PROVE PayloadInv'
  <2>1. fetch.pc = "gateway" /\ UNCHANGED <<V!others, command>> /\ fetch' = [fetch EXCEPT !.pc = "body", !.body = c]
    BY <1>8 DEF V!GatewayAnswers
  <2>2. fetch' \in Fetches /\ fetch'.pc = "body"
    BY <1>1, <2>1 DEF Fetches, Underway
  <2> QED BY <2>1, <2>2, FetchGoesOn DEF FetchOK, Underway
<1>9. ASSUME V!GatewayFails \/ V!ReadBreaks \/ V!Timeout PROVE PayloadInv'
  BY <1>9, FetchEndsStep DEF V!GatewayFails, V!ReadBreaks, V!Timeout, V!TimedOut, Underway
<1>10. ASSUME V!ReadChunk PROVE PayloadInv'
  <2>1. fetch.pc = "body" /\ UNCHANGED V!others
    BY <1>10 DEF V!ReadChunk
  <2>2. CASE fetch.got + 1 > Limit
    BY <1>10, <2>1, <2>2, FetchEndsStep DEF V!ReadChunk, Underway
  <2>3. CASE ~(fetch.got + 1 > Limit)
    <3>1. fetch' = [fetch EXCEPT !.got = @ + 1] /\ UNCHANGED command
      BY <1>10, <2>3 DEF V!ReadChunk
    <3>2. fetch.got + 1 \in 0 .. Limit
      BY <1>1, <2>3 DEF Fetches
    <3>3. fetch' \in Fetches /\ fetch'.pc = "body"
      BY <1>1, <2>1, <3>1, <3>2 DEF Fetches
    <3> QED BY <2>1, <3>1, <3>3, FetchGoesOn DEF FetchOK, Underway
  <2> QED BY <2>2, <2>3
<1>11. ASSUME V!ReadEnd PROVE PayloadInv'
  <2> DEFINE status == V!VerifyCredentialPayload(fetch.body, command.seen.uri, command.tuple)
  <2>1. /\ fetch.pc = "body" /\ fetch.got = V!Size(fetch.body) /\ UNCHANGED V!others /\ V!Judge(status)
        /\ fetch' = [fetch EXCEPT !.pc = "done"]
    BY <1>11 DEF V!ReadEnd
  <2>2. status \in V!Statuses /\ status # "none"
    BY Verdicts DEF V!Statuses
  <2>3. /\ command' \in Verifications /\ command'.pc = "report" /\ command'.payload = status
        /\ command'.mode = command.mode /\ command'.tuple = command.tuple /\ command'.given = command.given /\ command'.seen = command.seen
        /\ command'.schema = command.schema /\ command'.code = command.code
    BY <2>1, <2>2, Judged
  <2>4. fetch' \in Fetches /\ fetch'.pc = "done" /\ fetch'.got = fetch.got /\ fetch'.body = fetch.body
    BY <1>1, <2>1 DEF Fetches
  <2>5. command.mode = "resolve" /\ (command.seen # V!NoCredential => command.seen.tuple = command.tuple)
    BY <2>1 DEF PayloadInv, VerdictOK, Underway
  <2>6. command'.payload = V!VerifyCredentialPayload(fetch'.body, command'.seen.uri, command'.tuple) /\ fetch'.got = V!Size(fetch'.body)
    BY <2>1, <2>3, <2>4
  <2> HIDE DEF status
  <2>7. VerdictOK(command', fetch')
    BY <2>3, <2>4, <2>5, <2>6 DEF VerdictOK, Underway
  <2> QED BY <2>1, <2>4, <2>7 DEF PayloadInv, PayloadAssumption, ArtifactsOK, FetchOK, V!others
<1>12. ASSUME V!DeadlinePasses PROVE PayloadInv'
  <2>1. fetch.pc \in {"lookup", "fetch", "gateway", "body"} /\ UNCHANGED <<V!others, command>>
        /\ fetch' = [fetch EXCEPT !.late = TRUE]
    BY <1>12 DEF V!DeadlinePasses
  <2>2. fetch' \in Fetches /\ fetch'.pc = fetch.pc /\ fetch'.hop = fetch.hop /\ fetch'.pinned = fetch.pinned
    BY <1>1, <2>1 DEF Fetches
  <2> QED BY <1>1, <2>1, <2>2, FetchGoesOn DEF FetchOK, Underway
<1> QED BY <1>2, <1>3, <1>5, <1>6, <1>7, <1>8, <1>9, <1>10, <1>11, <1>12, ResolveStartStep DEF V!Fetch

\* The command reports.
LEMMA VerifyReportStep ==
    ASSUME PayloadInv, V!VerifyReport
    PROVE  PayloadInv'
<1>1. command.pc = "report" /\ command \in Verifications /\ UNCHANGED <<V!others, fetch>>
  BY DEF V!VerifyReport, PayloadInv, VerdictOK
<1> DEFINE code == IF command.seen.state = "active" /\ command.schema /\ command.payload = "valid" THEN 0 ELSE 5
<1>2. command' = [command EXCEPT !.pc = "exited", !.code = code]
  BY DEF V!VerifyReport
<1>3. code \in {0, 5} /\ (code = 0 => command.seen.state = "active" /\ command.schema /\ command.payload = "valid")
  OBVIOUS
<1> HIDE DEF code
<1>4. /\ command' \in Verifications /\ command'.pc = "exited" /\ command'.payload = command.payload
      /\ command'.mode = command.mode /\ command'.tuple = command.tuple /\ command'.given = command.given /\ command'.seen = command.seen
      /\ command'.schema = command.schema /\ command'.code = code
  BY <1>1, <1>2, <1>3 DEF Verifications
<1>5. VerdictOK(command', fetch)
  BY <1>1, <1>3, <1>4 DEF PayloadInv, VerdictOK
<1> QED BY <1>1, <1>5 DEF PayloadInv, PayloadAssumption, ArtifactsOK, FetchOK, V!others

\* DisabledPayloadResolver.
LEMMA ResolveDisabledStep ==
    ASSUME PayloadInv, V!ResolveDisabled
    PROVE  PayloadInv'
BY NoContentJudged DEF V!ResolveDisabled, PayloadInv

-----------------------------------------------------------------------------
(* The theorems.                                                           *)

\* It holds initially, and every step keeps it.
LEMMA InitPayload == PayloadAssumption /\ V!Init => PayloadInv
<1> SUFFICES ASSUME PayloadAssumption, V!Init PROVE PayloadInv
  OBVIOUS
<1>1. ArtifactsOK /\ FetchOK(fetch)
  BY NoFetchOK DEF V!Init, ArtifactsOK
<1>2. VerdictOK(command, fetch)
  BY DEF V!Init, VerdictOK, Verifications, V!NoVerify, V!NoFetch, Underway, V!Statuses
<1> QED BY <1>1, <1>2 DEF PayloadInv

LEMMA NextPayload == PayloadInv /\ [V!Next]_(V!vars) => PayloadInv'
<1>1. ASSUME PayloadInv, UNCHANGED V!vars PROVE PayloadInv'
  BY <1>1 DEF V!vars, PayloadInv, PayloadAssumption, ArtifactsOK, FetchOK, VerdictOK
<1> QED BY <1>1, ArtifactsStep, VerifyStartStep, VerifySnapshotStep, RequestFailsStep, PayloadStatusStep,
           ResolveDisabledStep, FetchStep, VerifyReportStep DEF V!Next

\* The invariant holds in every reachable state of a verification.
THEOREM PayloadInvariant ==
    ASSUME PayloadAssumption
    PROVE  V!Spec => []PayloadInv
BY InitPayload, NextPayload, PTL DEF V!Spec

LEMMA PayloadTypes == PayloadInv => V!TypeOK
BY DEF PayloadInv, ArtifactsOK, FetchOK, VerdictOK, V!TypeOK, OnLedger, Passes, Verifications, Fetches

\* Redirects and chunks stay within their limits (payload-resolver.ts).
THEOREM PayloadTyped ==
    ASSUME PayloadAssumption
    PROVE  V!Spec => []V!TypeOK
BY PayloadTypes, PayloadInvariant, PTL

LEMMA PayloadBound == PayloadInv => V!VerifiedMeansBound
<1> SUFFICES ASSUME PayloadInv, command.pc = "exited", command.code = 0
             PROVE  LET c == IF command.mode = "local" THEN V!CanonicalJson(command.given) ELSE fetch.body
                    IN  /\ command.seen.state = "active" /\ command.schema
                        /\ command.seen.tuple = command.tuple
                        /\ c = command.seen.uri.digest
                        /\ c.tuple = command.tuple /\ c.fits /\ ~c.large
  BY DEF V!VerifiedMeansBound
<1>1. /\ command.seen.state = "active" /\ command.schema /\ command.payload = "valid" /\ command.mode \in Modes \cup {"none"}
      /\ VerdictOK(command, fetch)
  BY DEF PayloadInv, VerdictOK, Verifications
<1>2. command.seen # V!NoCredential
  BY <1>1 DEF V!NoCredential
<1>3. command.mode \in {"local", "resolve"}
  BY <1>1 DEF VerdictOK, PayloadInv, PayloadAssumption
<1>4. CASE command.mode = "local"
  <2>1. V!VerifyCredentialPayload(V!CanonicalJson(command.given), command.seen.uri, command.tuple) = "valid"
    BY <1>1, <1>2, <1>4 DEF VerdictOK
  <2> QED BY <1>1, <1>2, <1>4, <2>1, Verdicts DEF VerdictOK
<1>5. CASE command.mode = "resolve"
  <2>1. V!VerifyCredentialPayload(fetch.body, command.seen.uri, command.tuple) = "valid"
    BY <1>1, <1>5 DEF VerdictOK
  <2> QED BY <1>1, <1>2, <1>5, <2>1, Verdicts DEF VerdictOK
<1> QED BY <1>3, <1>4, <1>5

\* Exit 0 of `xcs verify` means an active credential under a known schema whose payload, sent
\* or fetched, names its tuple, fits the schema and is what the URI on the ledger binds
\* (verification.ts, payload-resolver.ts).
THEOREM VerifiedIsBound ==
    ASSUME PayloadAssumption
    PROVE  V!Spec => []V!VerifiedMeansBound
BY PayloadBound, PayloadInvariant, PTL

LEMMA PayloadPublic == PayloadInv => V!ContactsOnlyPublic
BY DEF PayloadInv, FetchOK, Fetches, V!ContactsOnlyPublic

LEMMA PayloadWhole == PayloadInv => V!JudgedWhole
<1> SUFFICES ASSUME PayloadInv, command.mode = "resolve", command.payload \in {"tampered", "valid"}
             PROVE  /\ fetch.pc = "done" /\ fetch.got = V!Size(fetch.body) /\ fetch.got <= Limit
                    /\ (command.payload = "tampered") = (fetch.body # command.seen.uri.digest)
  BY DEF V!JudgedWhole
<1>1. /\ fetch.pc = "done" /\ fetch.got = V!Size(fetch.body)
      /\ command.payload = V!VerifyCredentialPayload(fetch.body, command.seen.uri, command.tuple)
  BY DEF PayloadInv, VerdictOK
<1>2. fetch.got \in 0 .. Limit /\ Limit \in Nat
  BY DEF PayloadInv, PayloadAssumption, FetchOK, Fetches
<1> QED BY <1>1, <1>2, Verdicts

\* The API connects only to public addresses, whatever names resolve to and servers redirect
\* to, and judges only what it has received to its end (fetchPinned, readLimited).
THEOREM FetchIsContained ==
    ASSUME PayloadAssumption
    PROVE  V!Spec => [](V!ContactsOnlyPublic /\ V!JudgedWhole)
BY PayloadPublic, PayloadWhole, PayloadInvariant, PTL

LEMMA PayloadPredicted == PayloadInv => V!CheckPredictsVerify
<1> SUFFICES ASSUME PayloadInv, command.mode = "local", command.payload # "none", passed # V!NoPass, ~passed.lax,
                    passed.file = command.given, passed.tuple = command.tuple,
                    command.seen # V!NoCredential, command.schema, command.seen.uri.digest = passed.uri.digest
             PROVE  command.payload = "valid"
  BY DEF V!CheckPredictsVerify
<1>1. command.payload = V!VerifyCredentialPayload(V!CanonicalJson(command.given), command.seen.uri, command.tuple)
  BY DEF PayloadInv, VerdictOK
<1>2. /\ command.given \in Contents /\ V!VerifyPayloadIntegrity(command.given, passed.uri)
      /\ V!ParseCredentialPayload(command.given, command.tuple, passed.lax)
  BY DEF PayloadInv, ArtifactsOK, Passes
<1>3. V!CanonicalJson(command.given) = command.given
  <2>1. command.given \in [tuple : {command.given.tuple}, fits : BOOLEAN, canonical : BOOLEAN, large : BOOLEAN]
    BY <1>2 DEF PayloadInv, PayloadAssumption
  <2>2. command.given.canonical = TRUE
    BY <1>2, <2>1 DEF V!ParseCredentialPayload
  <2> QED BY <2>1, <2>2 DEF V!CanonicalJson
<1>4. V!VerifyPayloadIntegrity(command.given, command.seen.uri)
  BY <1>2 DEF V!VerifyPayloadIntegrity
<1> QED BY <1>1, <1>2, <1>3, <1>4 DEF V!VerifyCredentialPayload, V!ParseCredentialPayload, V!ParseClaims

\* What `xcs payload check` has accepted for the URI and the tuple of the credential, under
\* the registered schema, is not rejected by the API (parseCredentialPayload).
THEOREM CheckedIsAccepted ==
    ASSUME PayloadAssumption
    PROVE  V!Spec => []V!CheckPredictsVerify
BY PayloadPredicted, PayloadInvariant, PTL

-----------------------------------------------------------------------------
(* The limiter and the way of a request, which share the limiter's state.  *)

(* Positions.                                                              *)

\* The instance of RateLimiter counts with the operator of FiniteSets.
LEMMA SameCardinality == \A S : L!Cardinality(S) = Cardinality(S)
BY DEF Cardinality, L!Cardinality

\* A nonempty set of natural numbers has a least element.
LEMMA LeastElement ==
    ASSUME NEW T \in SUBSET Nat, T # {}
    PROVE  \E x \in T : \A y \in T : x <= y
<1>1. \E x \in T : \A y \in T : ~(<<y, x>> \in OpToRel(<, Nat))
  BY NatLessThanWellFounded, WFMin, Zenon
<1>2. \E x \in T : \A y \in T : ~(<<y, x>> \in {ss \in Nat \X Nat : ss[1] < ss[2]})
  BY <1>1, Zenon DEF OpToRel
<1>3. PICK x \in T : \A y \in T : ~(<<y, x>> \in {ss \in Nat \X Nat : ss[1] < ss[2]})
  BY <1>2
<1>4. \A y \in T : ~(y < x)
  BY <1>3
<1> QED BY <1>4

\* The positions of a set up to one of them.
UpTo(S, i) == {j \in S : j <= i}

LEMMA UpToFinite ==
    ASSUME NEW n \in Nat, NEW S \in SUBSET (1 .. n), NEW i \in Int
    PROVE  /\ IsFiniteSet(S) /\ IsFiniteSet(UpTo(S, i))
           /\ Cardinality(S) \in 0 .. n /\ Cardinality(UpTo(S, i)) \in 0 .. Cardinality(S)
<1>1. IsFiniteSet(1 .. n) /\ Cardinality(1 .. n) = n
  BY FS_Interval
<1>2. IsFiniteSet(S) /\ Cardinality(S) <= n
  BY <1>1, FS_Subset
<1>3. UpTo(S, i) \in SUBSET S
  BY DEF UpTo
<1>4. IsFiniteSet(UpTo(S, i)) /\ Cardinality(UpTo(S, i)) <= Cardinality(S)
  BY <1>2, <1>3, FS_Subset
<1> QED BY <1>2, <1>4, FS_CardinalityType

\* There is a k-th position for every k up to the number of positions.
LEMMA NthExists ==
    ASSUME NEW n \in Nat, NEW S \in SUBSET (1 .. n), NEW k \in 1 .. Cardinality(S)
    PROVE  L!Nth(S, k) \in S /\ Cardinality(UpTo(S, L!Nth(S, k))) = k
<1> DEFINE T == {i \in 0 .. n : Cardinality(UpTo(S, i)) >= k}
<1>0. \A s \in S : s \in Nat /\ 1 <= s /\ s <= n
  OBVIOUS
<1>1. Cardinality(S) \in 0 .. n
  BY UpToFinite
<1>2. UpTo(S, n) = S
  BY <1>0 DEF UpTo
<1>3. n \in T
  BY <1>1, <1>2
<1>4. PICK m \in T : \A y \in T : m <= y
  <2> T \in SUBSET Nat /\ T # {}
    BY <1>3
  <2> QED BY LeastElement
<1>5. UpTo(S, 0) = {}
  <2>1. \A j \in S : ~(j <= 0)
    BY <1>0
  <2> QED BY <2>1 DEF UpTo
<1>6. m # 0
  BY <1>1, <1>4, <1>5, FS_EmptySet
<1>7. m - 1 \in 0 .. n /\ m - 1 \notin T
  BY <1>4, <1>6
<1>8. Cardinality(UpTo(S, m - 1)) < k /\ Cardinality(UpTo(S, m - 1)) \in Nat /\ IsFiniteSet(UpTo(S, m - 1))
  <2>1. Cardinality(UpTo(S, m - 1)) \in 0 .. Cardinality(S) /\ IsFiniteSet(UpTo(S, m - 1))
    <3> m - 1 \in Int
      BY <1>7
    <3> QED BY UpToFinite
  <2> QED BY <1>1, <1>7, <2>1
<1>9. Cardinality(UpTo(S, m)) >= k
  BY <1>4
<1>10. m \in S
  <2> SUFFICES ASSUME m \notin S PROVE FALSE
    OBVIOUS
  <2>1. \A j \in S : j <= m <=> j <= m - 1
    <3> SUFFICES ASSUME NEW j \in S PROVE j <= m <=> j <= m - 1
      OBVIOUS
    <3> j \in Nat /\ j # m /\ m \in Nat
      BY <1>0, <1>4
    <3> QED OBVIOUS
  <2>2. UpTo(S, m) = UpTo(S, m - 1)
    BY <2>1 DEF UpTo
  <2> QED BY <1>8, <1>9, <2>2
<1>11. UpTo(S, m) = UpTo(S, m - 1) \cup {m} /\ m \notin UpTo(S, m - 1)
  <2>1. \A j \in S : (j <= m <=> j <= m - 1 \/ j = m) /\ ~(m <= m - 1)
    <3> SUFFICES ASSUME NEW j \in S PROVE (j <= m <=> j <= m - 1 \/ j = m) /\ ~(m <= m - 1)
      OBVIOUS
    <3> j \in Nat /\ m \in Nat
      BY <1>0, <1>4
    <3> QED OBVIOUS
  <2> QED BY <1>10, <2>1 DEF UpTo
<1>12. Cardinality(UpTo(S, m)) = k
  <2>1. Cardinality(UpTo(S, m)) = Cardinality(UpTo(S, m - 1)) + 1
    BY <1>8, <1>11, FS_AddElement
  <2> QED BY <1>8, <1>9, <2>1
<1> HIDE DEF T
<1>13. \E i \in S : Cardinality({j \in S : j <= i}) = k
  BY <1>10, <1>12 DEF UpTo
<1>14. L!Nth(S, k) \in S /\ Cardinality({j \in S : j <= L!Nth(S, k)}) = k
  <2>1. \E i \in S : L!Cardinality({j \in S : j <= i}) = k
    BY <1>13, SameCardinality
  <2>2. L!Nth(S, k) \in S /\ L!Cardinality({j \in S : j <= L!Nth(S, k)}) = k
    BY <2>1 DEF L!Nth
  <2> QED BY <2>2, SameCardinality
<1> QED BY <1>14 DEF UpTo

\* A position of a set is the k-th for its rank k.
LEMMA NthRank ==
    ASSUME NEW n \in Nat, NEW S \in SUBSET (1 .. n), NEW i \in S
    PROVE  \E k \in 1 .. Cardinality(S) : L!Nth(S, k) = i
<1> DEFINE k == Cardinality(UpTo(S, i))
<1>0. \A s \in S : s \in Nat
  OBVIOUS
<1>1. IsFiniteSet(S) /\ IsFiniteSet(UpTo(S, i)) /\ k \in 0 .. Cardinality(S) /\ Cardinality(S) \in Nat
  BY <1>0, UpToFinite
<1>2. i \in UpTo(S, i)
  BY <1>0 DEF UpTo
<1>3. k # 0
  BY <1>1, <1>2, FS_EmptySet
<1>4. k \in 1 .. Cardinality(S)
  BY <1>1, <1>3
<1> HIDE DEF k
<1>5. L!Nth(S, k) \in S /\ Cardinality(UpTo(S, L!Nth(S, k))) = k
  BY <1>4, NthExists
<1> DEFINE m == L!Nth(S, k)
<1>6. m \in Int /\ IsFiniteSet(UpTo(S, m))
  <2>1. m \in Int
    <3> m \in S
      BY <1>5
    <3> HIDE DEF m
    <3> QED BY <1>0
  <2> HIDE DEF m
  <2> QED BY <2>1, UpToFinite
<1>7. m = i
  <2>1. ASSUME NEW a \in S, NEW b \in S, a < b, Cardinality(UpTo(S, a)) = Cardinality(UpTo(S, b)),
               IsFiniteSet(UpTo(S, b))
        PROVE  FALSE
    <3>1. UpTo(S, a) \in SUBSET UpTo(S, b) /\ b \in UpTo(S, b) /\ b \notin UpTo(S, a)
      <4>1. a \in Nat /\ b \in Nat /\ a < b
        BY <1>0, <2>1
      <4>2. \A j \in S : j <= a => j <= b
        <5> SUFFICES ASSUME NEW j \in S, j <= a PROVE j <= b
          OBVIOUS
        <5> j \in Nat
          BY <1>0
        <5> QED BY <4>1
      <4>3. b <= b /\ ~(b <= a)
        BY <4>1
      <4> QED BY <2>1, <4>2, <4>3 DEF UpTo
    <3> QED BY <2>1, <3>1, FS_Subset
  <2>2. Cardinality(UpTo(S, m)) = Cardinality(UpTo(S, i))
    BY <1>5 DEF k
  <2>3. m \in Int /\ i \in Int /\ m \in S
    BY <1>0, <1>5, <1>6
  <2> HIDE DEF m
  <2> QED BY <1>1, <1>6, <2>1, <2>2, <2>3
<1> QED BY <1>4, <1>7

-----------------------------------------------------------------------------
(* The Map.                                                                *)

Unique(ws) == \A i, j \in DOMAIN ws : ws[i].key = ws[j].key => i = j

\* Every entry of ws is one of zs.
Within(ws, zs) == \A i \in DOMAIN ws : \E j \in DOMAIN zs : ws[i] = zs[j]

\* Forgetting drops entries that are more than an hour old, and only those.
LEMMA RecentOK ==
    ASSUME LimiterAssumption, NEW ws \in Seq(L!Entries), Unique(ws)
    PROVE  /\ L!Recent(ws) \in Seq(L!Entries) /\ Len(L!Recent(ws)) <= Len(ws) /\ Unique(L!Recent(ws))
           /\ Within(L!Recent(ws), ws)
           /\ \A i \in DOMAIN ws : ~L!Forgotten(ws[i]) => \E j \in DOMAIN L!Recent(ws) : L!Recent(ws)[j] = ws[i]
<1> DEFINE kept == {i \in DOMAIN ws : ~L!Forgotten(ws[i])}
<1>1. Len(ws) \in Nat /\ kept \in SUBSET (1 .. Len(ws)) /\ kept \subseteq DOMAIN ws
  OBVIOUS
<1>2. Cardinality(kept) \in 0 .. Len(ws)
  <2> HIDE DEF kept
  <2> QED BY <1>1, UpToFinite
<1>3. L!Recent(ws) = [k \in 1 .. Cardinality(kept) |-> ws[L!Nth(kept, k)]]
  BY SameCardinality DEF L!Recent
<1>4. \A k \in 1 .. Cardinality(kept) : L!Nth(kept, k) \in kept
  <2> HIDE DEF kept
  <2> QED BY <1>1, NthExists
<1>5. \A k, l \in 1 .. Cardinality(kept) : L!Nth(kept, k) = L!Nth(kept, l) => k = l
  <2> HIDE DEF kept
  <2> SUFFICES ASSUME NEW k \in 1 .. Cardinality(kept), NEW l \in 1 .. Cardinality(kept),
                      L!Nth(kept, k) = L!Nth(kept, l)
               PROVE  k = l
    OBVIOUS
  <2>1. Cardinality(UpTo(kept, L!Nth(kept, k))) = k /\ Cardinality(UpTo(kept, L!Nth(kept, l))) = l
    BY <1>1, NthExists
  <2> QED BY <2>1
<1>6. \A i \in kept : \E k \in 1 .. Cardinality(kept) : L!Nth(kept, k) = i
  <2> HIDE DEF kept
  <2> QED BY <1>1, NthRank
<1>7. \A i \in DOMAIN ws : ~L!Forgotten(ws[i]) => i \in kept
  OBVIOUS
<1> HIDE DEF kept
<1>8. \A k \in 1 .. Cardinality(kept) : L!Nth(kept, k) \in DOMAIN ws /\ ws[L!Nth(kept, k)] \in L!Entries
  BY <1>1, <1>4
<1>9. L!Recent(ws) \in Seq(L!Entries) /\ Len(L!Recent(ws)) = Cardinality(kept)
      /\ DOMAIN L!Recent(ws) = 1 .. Cardinality(kept)
  BY <1>2, <1>3, <1>8
<1>10. Unique(L!Recent(ws))
  BY <1>3, <1>5, <1>8, <1>9 DEF Unique
<1>11. Within(L!Recent(ws), ws)
  BY <1>3, <1>8, <1>9 DEF Within
<1>12. \A i \in DOMAIN ws : ~L!Forgotten(ws[i]) => \E j \in DOMAIN L!Recent(ws) : L!Recent(ws)[j] = ws[i]
  BY <1>3, <1>6, <1>7, <1>9
<1> QED BY <1>2, <1>9, <1>10, <1>11, <1>12

\* Making room leaves entries of the Map, and a place when the Map was full.
LEMMA MakeRoomOK ==
    ASSUME LimiterAssumption, NEW ws \in Seq(L!Entries), Unique(ws), Len(ws) <= MaxWindows
    PROVE  /\ L!MakeRoom(ws) \in Seq(L!Entries) /\ Unique(L!MakeRoom(ws)) /\ Within(L!MakeRoom(ws), ws)
           /\ Len(L!MakeRoom(ws)) < MaxWindows
<1>1. Len(ws) \in Nat /\ MaxWindows \in Nat \ {0}
  BY DEF LimiterAssumption
<1>2. CASE Len(ws) < MaxWindows
  BY <1>2 DEF L!MakeRoom, Within
<1>3. CASE ~(Len(ws) < MaxWindows)
  <2> DEFINE kept == L!Recent(ws)
             surplus == Len(kept) - (MaxWindows - 1)
  <2>1. kept \in Seq(L!Entries) /\ Len(kept) <= Len(ws) /\ Unique(kept) /\ Within(kept, ws)
    BY RecentOK
  <2>2. L!MakeRoom(ws) = IF surplus <= 0 THEN kept ELSE SubSeq(kept, surplus + 1, Len(kept))
    BY <1>3 DEF L!MakeRoom
  <2> HIDE DEF kept
  <2>3. Len(kept) \in Nat
    BY <2>1
  <2>4. CASE surplus <= 0
    BY <1>1, <2>1, <2>2, <2>3, <2>4
  <2>5. CASE ~(surplus <= 0)
    <3> DEFINE rest == SubSeq(kept, surplus + 1, Len(kept))
    <3>1. surplus = 1 /\ Len(kept) = MaxWindows
      BY <1>1, <2>1, <2>3, <2>5
    <3>2. rest = SubSeq(kept, 2, Len(kept))
      BY SMTT(30), <3>1
    <3>3. rest \in Seq(L!Entries) /\ Len(rest) = Len(kept) - 1
          /\ \A i \in 1 .. (Len(kept) - 1) : rest[i] = kept[i + 1]
      <4>1. Len(kept) >= 1
        BY <1>1, <3>1
      <4> HIDE DEF rest
      <4>2. 2 \in Int /\ Len(kept) \in Int /\ \A i \in 2 .. Len(kept) : kept[i] \in L!Entries
        BY <2>1, <2>3
      <4>3. /\ SubSeq(kept, 2, Len(kept)) \in Seq(L!Entries)
            /\ Len(SubSeq(kept, 2, Len(kept))) = IF 2 <= Len(kept) THEN Len(kept) - 2 + 1 ELSE 0
            /\ \A i \in 1 .. (Len(kept) - 2 + 1) : SubSeq(kept, 2, Len(kept))[i] = kept[2 + i - 1]
        BY <4>2, SubSeqProperties
      <4>4. Len(SubSeq(kept, 2, Len(kept))) = Len(kept) - 1
        <5> DEFINE l == Len(SubSeq(kept, 2, Len(kept)))
                   n == Len(kept)
        <5>1. l = (IF 2 <= n THEN n - 2 + 1 ELSE 0) /\ n \in Nat /\ n >= 1
          BY <2>3, <4>1, <4>3
        <5> HIDE DEF l, n
        <5>2. l = n - 1
          BY <5>1
        <5> QED BY <5>2 DEF l, n
      <4>5. \A i \in 1 .. (Len(kept) - 1) : i \in 1 .. (Len(kept) - 2 + 1) /\ 2 + i - 1 = i + 1
        BY <2>3
      <4> QED BY <3>2, <4>3, <4>4, <4>5
    <3> HIDE DEF rest
    <3>4. DOMAIN rest = 1 .. (Len(kept) - 1) /\ DOMAIN kept = 1 .. Len(kept)
      BY <2>1, <2>3, <3>3
    <3>5. Unique(rest)
      <4> SUFFICES ASSUME NEW i \in DOMAIN rest, NEW j \in DOMAIN rest, rest[i].key = rest[j].key
                   PROVE  i = j
        BY DEF Unique
      <4>1. i + 1 \in DOMAIN kept /\ j + 1 \in DOMAIN kept /\ kept[i + 1].key = kept[j + 1].key
        BY SMTT(30), <2>3, <3>3, <3>4
      <4>2. i + 1 = j + 1
        BY <2>1, <4>1 DEF Unique
      <4> QED BY <2>3, <3>4, <4>2
    <3>6. Within(rest, ws)
      <4> SUFFICES ASSUME NEW i \in DOMAIN rest PROVE \E j \in DOMAIN ws : rest[i] = ws[j]
        BY DEF Within
      <4>1. i + 1 \in DOMAIN kept /\ rest[i] = kept[i + 1]
        BY <2>3, <3>3, <3>4
      <4> QED BY <2>1, <4>1 DEF Within
    <3> QED BY <1>1, <2>2, <2>5, <3>1, <3>3, <3>5, <3>6 DEF rest
  <2> QED BY <2>4, <2>5
<1> QED BY <1>2, <1>3

\* Map.set keeps one entry per key: the new one, and those of the other keys.
LEMMA SetEntryOK ==
    ASSUME LimiterAssumption, NEW ws \in Seq(L!Entries), Unique(ws), NEW entry \in L!Entries,
           Len(ws) <= MaxWindows, entry.key \in L!Keys(ws) \/ Len(ws) < MaxWindows
    PROVE  /\ L!SetEntry(ws, entry) \in Seq(L!Entries) /\ Len(L!SetEntry(ws, entry)) <= MaxWindows
           /\ Unique(L!SetEntry(ws, entry))
           /\ \A i \in DOMAIN L!SetEntry(ws, entry) :
                 \/ L!SetEntry(ws, entry)[i] = entry
                 \/ \E j \in DOMAIN ws : L!SetEntry(ws, entry)[i] = ws[j] /\ ws[j].key # entry.key
           /\ \E i \in DOMAIN L!SetEntry(ws, entry) : L!SetEntry(ws, entry)[i] = entry
           /\ \A j \in DOMAIN ws : ws[j].key # entry.key =>
                 \E i \in DOMAIN L!SetEntry(ws, entry) : L!SetEntry(ws, entry)[i] = ws[j]
<1> DEFINE set == L!SetEntry(ws, entry)
<1>1. Len(ws) \in Nat /\ DOMAIN ws = 1 .. Len(ws) /\ MaxWindows \in Nat \ {0}
  BY DEF LimiterAssumption
<1>2. CASE entry.key \in L!Keys(ws)
  <2>1. set = [i \in DOMAIN ws |-> IF ws[i].key = entry.key THEN entry ELSE ws[i]]
    BY <1>2 DEF L!SetEntry
  <2>2. PICK k \in DOMAIN ws : ws[k].key = entry.key
    BY <1>2 DEF L!Keys
  <2> HIDE DEF set
  <2>3. set \in Seq(L!Entries) /\ Len(set) = Len(ws) /\ DOMAIN set = DOMAIN ws
    BY <1>1, <2>1
  <2>4. \A i \in DOMAIN ws : set[i].key = ws[i].key
    BY <2>1
  <2>5. Unique(set)
    BY <2>3, <2>4 DEF Unique
  <2> QED BY <2>1, <2>2, <2>3, <2>5 DEF set
<1>3. CASE entry.key \notin L!Keys(ws)
  <2>1. set = Append(ws, entry)
    BY <1>3 DEF L!SetEntry
  <2> HIDE DEF set
  <2>2. /\ set \in Seq(L!Entries) /\ Len(set) = Len(ws) + 1 /\ DOMAIN set = 1 .. (Len(ws) + 1)
        /\ \A i \in 1 .. Len(ws) : set[i] = ws[i]
        /\ set[Len(ws) + 1] = entry
    BY <1>1, <2>1
  <2>3. \A i \in DOMAIN ws : ws[i].key # entry.key
    BY <1>3 DEF L!Keys
  <2>4. \A i \in DOMAIN set : i \in DOMAIN ws \/ i = Len(ws) + 1
    BY <1>1, <2>2
  <2>5. Unique(set)
    <3> SUFFICES ASSUME NEW i \in DOMAIN set, NEW j \in DOMAIN set, set[i].key = set[j].key
                 PROVE  i = j
      BY DEF Unique
    <3>1. CASE i \in DOMAIN ws /\ j \in DOMAIN ws
      BY <1>1, <2>2, <3>1 DEF Unique
    <3>2. CASE i \in DOMAIN ws /\ j = Len(ws) + 1
      BY <1>1, <2>2, <2>3, <3>2
    <3>3. CASE j \in DOMAIN ws /\ i = Len(ws) + 1
      BY <1>1, <2>2, <2>3, <3>3
    <3> QED BY <2>4, <3>1, <3>2, <3>3
  <2>6. Len(set) <= MaxWindows
    BY <1>1, <1>3, <2>2
  <2>7. \A i \in DOMAIN set : set[i] = entry \/ \E j \in DOMAIN ws : set[i] = ws[j] /\ ws[j].key # entry.key
    BY <1>1, <2>2, <2>3, <2>4
  <2>8. Len(ws) + 1 \in DOMAIN set
    BY <1>1, <2>2
  <2>9. \A j \in DOMAIN ws : j \in DOMAIN set /\ set[j] = ws[j]
    BY <1>1, <2>2
  <2> QED BY <2>2, <2>5, <2>6, <2>7, <2>8, <2>9 DEF set
<1> QED BY <1>2, <1>3

-----------------------------------------------------------------------------
(* The inductive invariant.                                                *)

Decisions == [key : L!Buckets, at : 0 .. MaxTicks, allowed : BOOLEAN, retry : Nat]

\* The requests of a bucket that were granted from a decision on.
Grants(lg, key, p) == {k \in DOMAIN lg : p <= k /\ lg[k].key = key /\ lg[k].allowed}

\* The window was opened with the decision p: it has granted what it counts, up to the
\* budget, and whoever it refused was told to wait for its end.
Opened(w, lg, p) ==
    /\ p \in DOMAIN lg /\ lg[p].key = w.key
    /\ \A k \in DOMAIN lg : p <= k => w.start <= lg[k].at
    /\ Cardinality(Grants(lg, w.key, p)) = IF w.count <= L!MaxOf(w.key) THEN w.count ELSE L!MaxOf(w.key)
    /\ \A k \in DOMAIN lg :
          p <= k /\ lg[k].key = w.key /\ ~lg[k].allowed => w.start + Window <= lg[k].at + lg[k].retry * Second

MapOK ==
    /\ windows \in Seq(L!Entries) /\ Len(windows) <= MaxWindows /\ Unique(windows)
    /\ \A i \in DOMAIN windows : windows[i].start <= tick /\ \E p \in DOMAIN log : Opened(windows[i], log, p)

LogOK ==
    /\ log \in Seq(Decisions)
    /\ \A i \in DOMAIN log : log[i].at <= tick

TimesOK == tick \in 0 .. MaxTicks /\ lastPrune \in 0 .. MaxTicks

LimiterInv ==
    LimiterAssumption /\ TimesOK /\ MapOK /\ LogOK /\ L!DeniedOnlyOverBudget /\ L!RetryAfterKept

-----------------------------------------------------------------------------
(* A decision.                                                             *)

\* The two promises to those who are refused, of any list of decisions.
GrantedIn(lg, key, from, to) ==
    {i \in DOMAIN lg : lg[i].key = key /\ lg[i].allowed /\ lg[i].at > from /\ lg[i].at <= to}

DeniedOK(lg) ==
    \A i \in DOMAIN lg :
        ~lg[i].allowed =>
            Cardinality(GrantedIn(lg, lg[i].key, lg[i].at - Window, lg[i].at)) >= L!MaxOf(lg[i].key)

Between(lg, i, j) == {k \in i .. j : lg[k].key = lg[i].key /\ lg[k].allowed}

RetryOK(lg) ==
    \A i, j \in DOMAIN lg :
        (/\ i < j /\ lg[i].key = lg[j].key /\ ~lg[i].allowed /\ ~lg[j].allowed
         /\ lg[j].at >= lg[i].at + lg[i].retry * Second) =>
            Cardinality(Between(lg, i, j)) >= L!MaxOf(lg[i].key)

LEMMA Promises == (L!DeniedOnlyOverBudget <=> DeniedOK(log)) /\ (L!RetryAfterKept <=> RetryOK(log))
BY SameCardinality DEF L!DeniedOnlyOverBudget, DeniedOK, L!Granted, GrantedIn, L!RetryAfterKept, RetryOK, Between

LEMMA Budgets ==
    ASSUME LimiterAssumption, NEW key
    PROVE  L!MaxOf(key) \in Nat
BY DEF LimiterAssumption, L!MaxOf

\* Sets of decisions are finite.
LEMMA FiniteDecisions ==
    ASSUME NEW lg \in Seq(Decisions), NEW S \in SUBSET DOMAIN lg
    PROVE  IsFiniteSet(S) /\ Cardinality(S) \in Nat
<1>1. DOMAIN lg = 1 .. Len(lg) /\ Len(lg) \in Nat
  OBVIOUS
<1>2. IsFiniteSet(DOMAIN lg)
  BY <1>1, FS_Interval
<1> QED BY <1>2, FS_Subset, FS_CardinalityType

\* One more decision.
LEMMA Longer ==
    ASSUME NEW lg \in Seq(Decisions), NEW d \in Decisions
    PROVE  /\ Append(lg, d) \in Seq(Decisions) /\ Len(lg) \in Nat /\ Len(Append(lg, d)) = Len(lg) + 1
           /\ DOMAIN lg = 1 .. Len(lg) /\ DOMAIN Append(lg, d) = 1 .. (Len(lg) + 1)
           /\ DOMAIN Append(lg, d) = DOMAIN lg \cup {Len(lg) + 1} /\ Len(lg) + 1 \notin DOMAIN lg
           /\ \A k \in DOMAIN lg : Append(lg, d)[k] = lg[k] /\ k \in Nat /\ k < Len(lg) + 1
           /\ Append(lg, d)[Len(lg) + 1] = d
OBVIOUS

\* RetryAfter rounds up: waiting that long outlasts the window.
LEMMA WaitOK ==
    ASSUME LimiterAssumption, tick \in 0 .. MaxTicks, NEW entry \in L!Entries, entry.start <= tick,
           tick - entry.start < Window
    PROVE  /\ L!RetryAfter(entry) \in Nat
           /\ entry.start + Window <= tick + L!RetryAfter(entry) * Second
<1> DEFINE left == Window - (tick - entry.start)
<1>1. /\ Window \in Nat /\ Second \in Nat \ {0} /\ tick \in Nat /\ entry.start \in Nat
  BY DEF LimiterAssumption, L!Entries
<1>2. left \in Nat /\ entry.start + Window = tick + left
  BY <1>1
<1>3. L!RetryAfter(entry) = IF left < Second THEN 1 ELSE (left + Second - 1) \div Second
  BY DEF L!RetryAfter
<1> HIDE DEF left
<1>4. CASE left < Second
  <2>1. 1 * Second = Second
    BY <1>1
  <2> QED BY <1>1, <1>2, <1>3, <1>4, <2>1
<1>5. CASE ~(left < Second)
  <2>1. (left + Second - 1) \div Second \in Nat /\ ((left + Second - 1) \div Second) * Second >= left
    BY <1>1, <1>2
  <2> DEFINE q == (left + Second - 1) \div Second
  <2>2. q \in Nat /\ q * Second \in Int /\ q * Second >= left /\ L!RetryAfter(entry) = q
    BY <1>1, <1>3, <1>5, <2>1
  <2> HIDE DEF q
  <2> QED BY <1>1, <1>2, <2>2
<1> QED BY <1>4, <1>5

\* A decision about another bucket leaves a window as it is.
LEMMA OtherOpened ==
    ASSUME LimiterAssumption, NEW lg \in Seq(Decisions), NEW d \in Decisions, NEW w \in L!Entries,
           NEW p \in DOMAIN lg, Opened(w, lg, p), w.start <= d.at, d.key # w.key
    PROVE  Opened(w, Append(lg, d), p)
<1> DEFINE lh == Append(lg, d)
<1>1. /\ DOMAIN lh = DOMAIN lg \cup {Len(lg) + 1} /\ lh[Len(lg) + 1] = d
      /\ \A k \in DOMAIN lg : lh[k] = lg[k]
  BY Longer
<1> HIDE DEF lh
<1>2. Grants(lh, w.key, p) = Grants(lg, w.key, p)
  BY <1>1 DEF Grants
<1>3. Opened(w, lh, p)
  BY <1>1, <1>2 DEF Opened
<1> QED BY <1>3 DEF lh

\* A decision about the bucket of a window is counted in it.
LEMMA SameOpened ==
    ASSUME LimiterAssumption, NEW lg \in Seq(Decisions), NEW d \in Decisions,
           NEW w \in L!Entries, NEW e \in L!Entries, NEW p \in DOMAIN lg, Opened(w, lg, p),
           w.key = d.key, e.key = d.key, e.start = w.start, e.count = w.count + 1, e.start <= d.at,
           d.allowed <=> e.count <= L!MaxOf(d.key),
           ~d.allowed => e.start + Window <= d.at + d.retry * Second
    PROVE  Opened(e, Append(lg, d), p)
<1> DEFINE lh == Append(lg, d)
           n == Len(lg) + 1
<1>1. /\ DOMAIN lh = DOMAIN lg \cup {n} /\ lh[n] = d /\ n \notin DOMAIN lg
      /\ \A k \in DOMAIN lg : lh[k] = lg[k] /\ k \in Nat /\ k < n
      /\ n \in Nat
  BY Longer
<1>2. p <= n
  BY <1>1
<1> HIDE DEF lh, n
<1>3. Grants(lg, d.key, p) \in SUBSET DOMAIN lg /\ n \notin Grants(lg, d.key, p)
  BY <1>1 DEF Grants
<1>4. IsFiniteSet(Grants(lg, d.key, p)) /\ Cardinality(Grants(lg, d.key, p)) \in Nat
  BY <1>3, FiniteDecisions
<1>5. /\ L!MaxOf(d.key) \in Nat /\ w.count \in Nat
      /\ Cardinality(Grants(lg, d.key, p)) = IF w.count <= L!MaxOf(d.key) THEN w.count ELSE L!MaxOf(d.key)
  BY Budgets DEF Opened, L!Entries
<1>6. Cardinality(Grants(lh, d.key, p)) = IF e.count <= L!MaxOf(d.key) THEN e.count ELSE L!MaxOf(d.key)
  <2>1. CASE d.allowed
    <3>1. Grants(lh, d.key, p) = Grants(lg, d.key, p) \cup {n}
      BY <1>1, <1>2, <2>1 DEF Grants
    <3>2. Cardinality(Grants(lh, d.key, p)) = Cardinality(Grants(lg, d.key, p)) + 1
      <4> DEFINE G == Grants(lg, d.key, p)
      <4>1. IsFiniteSet(G) /\ n \notin G
        BY <1>3, <1>4
      <4> HIDE DEF G
      <4>2. Cardinality(G \cup {n}) = Cardinality(G) + 1
        BY <4>1, FS_AddElement
      <4> QED BY <3>1, <4>2 DEF G
    <3> QED BY <1>5, <2>1, <3>2
  <2>2. CASE ~d.allowed
    <3>1. Grants(lh, d.key, p) = Grants(lg, d.key, p)
      BY <1>1, <2>2 DEF Grants
    <3> QED BY <1>5, <2>2, <3>1
  <2> QED BY <2>1, <2>2
<1>7. Opened(e, lh, p)
  BY <1>1, <1>6 DEF Opened
<1> QED BY <1>7 DEF lh

\* The first decision of a window.
LEMMA FreshOpened ==
    ASSUME LimiterAssumption, NEW lg \in Seq(Decisions), NEW d \in Decisions,
           NEW e \in L!Entries, e.key = d.key, e.start = d.at, e.count = 1,
           d.allowed <=> e.count <= L!MaxOf(d.key),
           ~d.allowed => e.start + Window <= d.at + d.retry * Second
    PROVE  Opened(e, Append(lg, d), Len(lg) + 1)
<1> DEFINE lh == Append(lg, d)
           n == Len(lg) + 1
<1>1. /\ DOMAIN lh = DOMAIN lg \cup {n} /\ lh[n] = d
      /\ \A k \in DOMAIN lg : k \in Nat /\ k < n
      /\ n \in Nat
  BY Longer
<1>2. d.at <= d.at /\ n <= n /\ \A k \in DOMAIN lg : ~(n <= k)
  BY <1>1 DEF Decisions
<1> HIDE DEF lh, n
<1>3. L!MaxOf(d.key) \in Nat
  BY Budgets
<1>4. Cardinality(Grants(lh, d.key, n)) = IF e.count <= L!MaxOf(d.key) THEN e.count ELSE L!MaxOf(d.key)
  <2>1. CASE d.allowed
    <3>1. Grants(lh, d.key, n) = {} \cup {n}
      BY <1>1, <1>2, <2>1 DEF Grants
    <3>2. Cardinality(Grants(lh, d.key, n)) = 1
      <4>1. IsFiniteSet({}) /\ Cardinality({}) = 0 /\ n \notin {}
        BY FS_EmptySet
      <4>2. Cardinality({} \cup {n}) = Cardinality({}) + 1
        BY <4>1, FS_AddElement
      <4> QED BY <3>1, <4>1, <4>2
    <3> QED BY <2>1, <3>2
  <2>2. CASE ~d.allowed
    <3>1. Grants(lh, d.key, n) = {}
      BY <1>1, <1>2, <2>2 DEF Grants
    <3>2. Cardinality(Grants(lh, d.key, n)) = 0
      BY <3>1, FS_EmptySet
    <3> QED BY <1>3, <2>2, <3>2
  <2> QED BY <2>1, <2>2
<1>5. Opened(e, lh, n)
  BY <1>1, <1>2, <1>4 DEF Opened
<1> QED BY <1>5 DEF lh, n

\* Whoever is refused has used the budget of its window, and no longer than its length ago.
LEMMA DeniedStep ==
    ASSUME LimiterAssumption, NEW lg \in Seq(Decisions), NEW d \in Decisions, DeniedOK(lg),
           \A k \in DOMAIN lg : lg[k].at <= d.at,
           NEW e \in L!Entries, NEW p \in DOMAIN Append(lg, d), Opened(e, Append(lg, d), p),
           e.key = d.key, d.at - e.start < Window, d.allowed <=> e.count <= L!MaxOf(d.key)
    PROVE  DeniedOK(Append(lg, d))
<1> DEFINE lh == Append(lg, d)
           n == Len(lg) + 1
<1>1. /\ lh \in Seq(Decisions) /\ DOMAIN lh = DOMAIN lg \cup {n} /\ lh[n] = d /\ n \notin DOMAIN lg
      /\ \A k \in DOMAIN lg : lh[k] = lg[k]
  BY Longer
<1>2. d.at \in Nat /\ \A k \in DOMAIN lh : lh[k].at \in Nat /\ lh[k].at <= d.at
  <2>1. \A k \in DOMAIN lh : lh[k] \in Decisions
    BY <1>1
  <2> QED BY SMTT(30), <1>1, <2>1 DEF Decisions
<1> HIDE DEF lh, n
<1> SUFFICES ASSUME NEW i \in DOMAIN lh, ~lh[i].allowed
             PROVE  Cardinality(GrantedIn(lh, lh[i].key, lh[i].at - Window, lh[i].at)) >= L!MaxOf(lh[i].key)
  BY DEF DeniedOK, lh
<1> DEFINE G == GrantedIn(lh, lh[i].key, lh[i].at - Window, lh[i].at)
<1>3. G \in SUBSET DOMAIN lh
  BY DEF GrantedIn
<1>4. IsFiniteSet(G) /\ Cardinality(G) \in Nat
  BY <1>1, <1>3, FiniteDecisions
<1>5. L!MaxOf(lh[i].key) \in Nat
  BY Budgets
<1>6. CASE i = n
  <2> DEFINE P == Grants(lh, d.key, p)
  <2>1. Cardinality(P) = L!MaxOf(d.key)
    <3>1. ~(e.count <= L!MaxOf(d.key))
      BY <1>1, <1>6
    <3> QED BY <3>1 DEF Opened, lh
  <2>2. \A k \in DOMAIN lh : p <= k => lh[k].at > d.at - Window
    <3> SUFFICES ASSUME NEW k \in DOMAIN lh, p <= k PROVE lh[k].at > d.at - Window
      OBVIOUS
    <3>1. e.start <= lh[k].at /\ e.start \in Nat
      BY DEF Opened, lh, L!Entries
    <3>2. Window \in Nat /\ lh[k].at \in Nat
      BY <1>2 DEF LimiterAssumption
    <3> QED BY <1>2, <3>1, <3>2
  <2>3. P \in SUBSET G
    BY <1>1, <1>2, <1>6, <2>2 DEF Grants, GrantedIn
  <2>4. Cardinality(P) <= Cardinality(G)
    BY <1>4, <2>3, FS_Subset
  <2> QED BY <1>1, <1>6, <2>1, <2>4
<1>7. CASE i \in DOMAIN lg
  <2> DEFINE O == GrantedIn(lg, lg[i].key, lg[i].at - Window, lg[i].at)
  <2>1. Cardinality(O) >= L!MaxOf(lg[i].key)
    BY <1>1, <1>7 DEF DeniedOK
  <2>2. O \in SUBSET G
    BY <1>1, <1>7 DEF GrantedIn
  <2>3. Cardinality(O) <= Cardinality(G) /\ IsFiniteSet(O)
    BY <1>4, <2>2, FS_Subset
  <2>4. Cardinality(O) \in Nat /\ lh[i] = lg[i]
    BY <1>1, <1>7, <2>3, FS_CardinalityType
  <2> HIDE DEF O, G
  <2>5. Cardinality(G) >= L!MaxOf(lh[i].key)
    BY <1>4, <1>5, <2>1, <2>3, <2>4
  <2> QED BY <2>5 DEF G
<1> QED BY <1>1, <1>6, <1>7

\* Whoever is refused again although it has waited has been granted a budget in between.
LEMMA RetryStep ==
    ASSUME LimiterAssumption, NEW lg \in Seq(Decisions), NEW d \in Decisions, RetryOK(lg),
           NEW e \in L!Entries, NEW p \in DOMAIN Append(lg, d), Opened(e, Append(lg, d), p),
           e.key = d.key, d.at - e.start < Window, d.allowed <=> e.count <= L!MaxOf(d.key)
    PROVE  RetryOK(Append(lg, d))
<1> DEFINE lh == Append(lg, d)
           n == Len(lg) + 1
<1>1. /\ lh \in Seq(Decisions) /\ DOMAIN lh = DOMAIN lg \cup {n} /\ lh[n] = d /\ n \notin DOMAIN lg
      /\ DOMAIN lg = 1 .. Len(lg) /\ DOMAIN lh = 1 .. n /\ n \in Nat /\ Len(lg) \in Nat
      /\ \A k \in DOMAIN lg : lh[k] = lg[k] /\ k \in Nat /\ k < n
  BY Longer
<1> HIDE DEF lh, n
<1> SUFFICES ASSUME NEW i \in DOMAIN lh, NEW j \in DOMAIN lh, i < j, lh[i].key = lh[j].key,
                    ~lh[i].allowed, ~lh[j].allowed, lh[j].at >= lh[i].at + lh[i].retry * Second
             PROVE  Cardinality(Between(lh, i, j)) >= L!MaxOf(lh[i].key)
  BY DEF RetryOK, lh
<1>2. i \in DOMAIN lg /\ lh[i] = lg[i]
  BY <1>1
<1>3. CASE j = n
  <2> DEFINE P == Grants(lh, d.key, p)
             B == Between(lh, i, j)
  <2>1. Cardinality(P) = L!MaxOf(d.key)
    <3>1. ~(e.count <= L!MaxOf(d.key))
      BY <1>1, <1>3
    <3> QED BY <3>1 DEF Opened, lh
  <2>2. ~(p <= i)
    <3> SUFFICES ASSUME p <= i PROVE FALSE
      OBVIOUS
    <3>1. e.start + Window <= lh[i].at + lh[i].retry * Second
      BY <1>1, <1>3 DEF Opened, lh
    <3>2. /\ e.start \in Nat /\ Window \in Nat /\ d.at \in Nat /\ lh[i].at \in Nat /\ lh[i].retry \in Nat
          /\ Second \in Nat
      <4>1. lh[i] \in Decisions
        BY <1>1, <1>2
      <4> QED BY <4>1 DEF L!Entries, LimiterAssumption, Decisions
    <3> DEFINE wait == lh[i].retry * Second
    <3>3. wait \in Int
      BY <3>2
    <3>4. e.start + Window <= lh[i].at + wait /\ d.at >= lh[i].at + wait
      BY <1>1, <1>3, <3>1
    <3>5. d.at - e.start < Window
      OBVIOUS
    <3> HIDE DEF wait
    <3>6. lh[i].at + wait \in Int
      BY ONLY <3>2, <3>3
    <3>7. e.start + Window <= d.at
      BY ONLY <3>2, <3>4, <3>6
    <3>8. d.at < e.start + Window
      BY ONLY <3>2, <3>5
    <3> QED BY ONLY <3>2, <3>7, <3>8
  <2>3. \A k \in DOMAIN lh : p <= k => k \in i .. j
    BY <1>1, <1>3, <2>2 DEF lh
  <2>4. P \in SUBSET B
    BY <1>1, <1>3, <2>3 DEF Grants, Between
  <2>5. B \in SUBSET DOMAIN lh
    BY <1>1 DEF Between
  <2>6. IsFiniteSet(B)
    BY <1>1, <2>5, FiniteDecisions
  <2>7. Cardinality(P) <= Cardinality(B)
    BY <2>4, <2>6, FS_Subset
  <2> QED BY <1>1, <1>3, <2>1, <2>7
<1>4. CASE j \in DOMAIN lg
  <2>1. lh[j] = lg[j] /\ \A k \in i .. j : k \in DOMAIN lg /\ lh[k] = lg[k]
    BY SMTT(30), <1>1, <1>2, <1>4
  <2>2. Between(lh, i, j) = Between(lg, i, j)
    BY <1>2, <2>1 DEF Between
  <2>3. Cardinality(Between(lg, i, j)) >= L!MaxOf(lg[i].key)
    BY <1>2, <1>4, <2>1 DEF RetryOK
  <2> QED BY <1>2, <2>2, <2>3
<1> QED BY <1>1, <1>3, <1>4

-----------------------------------------------------------------------------
(* The steps.                                                              *)

LEMMA WithinTransitive ==
    ASSUME NEW us, NEW ws, NEW zs, Within(us, ws), Within(ws, zs)
    PROVE  Within(us, zs)
BY DEF Within

\* Pruning, and making room, leave entries of the Map.
LEMMA PrunedOK ==
    ASSUME LimiterAssumption, MapOK
    PROVE  /\ L!Pruned \in Seq(L!Entries) /\ Unique(L!Pruned) /\ Within(L!Pruned, windows)
           /\ Len(L!Pruned) <= MaxWindows
           /\ \A i \in DOMAIN windows : ~L!Forgotten(windows[i]) => \E j \in DOMAIN L!Pruned : L!Pruned[j] = windows[i]
<1>1. L!Recent(windows) \in Seq(L!Entries) /\ Len(L!Recent(windows)) <= Len(windows) /\ Unique(L!Recent(windows))
      /\ Within(L!Recent(windows), windows)
      /\ \A i \in DOMAIN windows : ~L!Forgotten(windows[i]) =>
            \E j \in DOMAIN L!Recent(windows) : L!Recent(windows)[j] = windows[i]
  BY RecentOK DEF MapOK
<1>2. Len(L!Recent(windows)) \in Nat /\ Len(windows) \in Nat /\ MaxWindows \in Nat /\ Len(windows) <= MaxWindows
  BY <1>1 DEF LimiterAssumption, MapOK
<1>3. Within(windows, windows) /\ windows \in Seq(L!Entries) /\ Unique(windows)
  BY DEF Within, MapOK
<1>4. CASE tick - lastPrune > Forget
  <2>1. L!Pruned = L!Recent(windows)
    BY <1>4 DEF L!Pruned
  <2> QED BY <1>1, <1>2, <2>1
<1>5. CASE ~(tick - lastPrune > Forget)
  <2>1. L!Pruned = windows
    BY <1>5 DEF L!Pruned
  <2> QED BY <1>2, <1>3, <2>1
<1> QED BY <1>4, <1>5

LEMMA AfterRoomOK ==
    ASSUME LimiterAssumption, MapOK, NEW key
    PROVE  /\ L!AfterRoom(key) \in Seq(L!Entries) /\ Unique(L!AfterRoom(key)) /\ Within(L!AfterRoom(key), windows)
           /\ Len(L!AfterRoom(key)) <= MaxWindows
           /\ key \in L!Keys(L!AfterRoom(key)) \/ Len(L!AfterRoom(key)) < MaxWindows
<1>1. CASE key \in L!Keys(L!Pruned)
  BY <1>1, PrunedOK DEF L!AfterRoom
<1>2. CASE key \notin L!Keys(L!Pruned)
  <2>1. L!AfterRoom(key) = L!MakeRoom(L!Pruned)
    BY <1>2 DEF L!AfterRoom
  <2>2. /\ L!MakeRoom(L!Pruned) \in Seq(L!Entries) /\ Unique(L!MakeRoom(L!Pruned)) /\ Within(L!MakeRoom(L!Pruned), L!Pruned)
        /\ Len(L!MakeRoom(L!Pruned)) < MaxWindows
    BY PrunedOK, MakeRoomOK
  <2>3. Within(L!MakeRoom(L!Pruned), windows)
    BY <2>2, PrunedOK, WithinTransitive
  <2>4. Len(L!MakeRoom(L!Pruned)) <= MaxWindows
    <3> Len(L!MakeRoom(L!Pruned)) \in Nat /\ MaxWindows \in Nat
      BY <2>2 DEF LimiterAssumption
    <3> QED BY <2>2
  <2> QED BY <2>1, <2>2, <2>3, <2>4
<1> QED BY <1>1, <1>2

\* A request opens a window of its own, or is counted in the open one of its bucket.
LEMMA CountedOK ==
    ASSUME LimiterAssumption, MapOK, TimesOK, NEW key \in L!Buckets
    PROVE  LET e == L!Counted(L!Pruned, key)
           IN  /\ e \in L!Entries /\ e.key = key /\ e.start <= tick /\ tick - e.start < Window
               /\ \/ /\ e.start = tick /\ e.count = 1
                     /\ \A i \in DOMAIN windows : windows[i].key = key => tick - windows[i].start >= Window
                  \/ \E i \in DOMAIN windows :
                        /\ windows[i].key = key /\ e.start = windows[i].start
                        /\ e.count = windows[i].count + 1
<1> DEFINE e == L!Counted(L!Pruned, key)
           old == L!EntryOf(L!Pruned, key)
<1>1. Window \in Nat \ {0} /\ tick \in 0 .. MaxTicks /\ MaxTicks \in Nat
  BY DEF LimiterAssumption, TimesOK
<1>2. CASE key \notin L!Keys(L!Pruned) \/ tick - old.start >= Window
  <2>1. e = [key |-> key, count |-> 1, start |-> tick]
    BY <1>2 DEF L!Counted
  <2>2. e \in L!Entries
    BY <1>1, <2>1 DEF L!Entries
  <2>3. tick <= tick /\ tick - tick < Window
    BY <1>1
  <2>4. ASSUME NEW i \in DOMAIN windows, windows[i].key = key PROVE tick - windows[i].start >= Window
    <3>1. windows[i].start \in Int /\ Forget \in Nat /\ Window <= Forget
      <4>1. windows[i] \in L!Entries
        BY DEF MapOK
      <4> QED BY <4>1 DEF L!Entries, LimiterAssumption
    <3>2. CASE L!Forgotten(windows[i])
      BY <1>1, <3>1, <3>2 DEF L!Forgotten
    <3>3. CASE ~L!Forgotten(windows[i])
      <4>1. PICK j \in DOMAIN L!Pruned : L!Pruned[j] = windows[i]
        BY <3>3, PrunedOK
      <4>2. key \in L!Keys(L!Pruned) /\ L!EntryOf(L!Pruned, key) = L!Pruned[j]
        BY <2>4, <4>1, PrunedOK DEF L!Keys, L!EntryOf, Unique
      <4> QED BY <1>2, <4>1, <4>2
    <3> QED BY <3>2, <3>3
  <2> QED BY <2>1, <2>2, <2>3, <2>4
<1>3. CASE ~(key \notin L!Keys(L!Pruned) \/ tick - old.start >= Window)
  <2>1. e = [old EXCEPT !.count = @ + 1]
    BY <1>3 DEF L!Counted
  <2>2. \E j \in DOMAIN L!Pruned : L!Pruned[j].key = key
    BY <1>3 DEF L!Keys
  <2>3. \E j \in DOMAIN L!Pruned : old = L!Pruned[j] /\ L!Pruned[j].key = key
    BY <2>2 DEF L!EntryOf
  <2>4. PICK i \in DOMAIN windows : old = windows[i] /\ windows[i].key = key
    BY <2>3, PrunedOK DEF Within
  <2> HIDE DEF old
  <2>5. old \in L!Entries /\ old.start <= tick
    BY <2>4 DEF MapOK
  <2>6. e \in L!Entries /\ e.key = old.key /\ e.start = old.start /\ e.count = old.count + 1
    BY <2>1, <2>5 DEF L!Entries
  <2>7. tick - old.start < Window
    <3>1. old.start \in Int
      BY <2>5 DEF L!Entries
    <3> QED BY <1>1, <1>3, <3>1 DEF old
  <2> QED BY <2>4, <2>5, <2>6, <2>7
<1> QED BY <1>2, <1>3

\* What a request does: it is decided on, and its entry goes into the Map.
LEMMA HitDecides ==
    ASSUME LimiterInv, NEW key \in L!Buckets, L!Hit(key)
    PROVE  \E e \in L!Entries, d \in Decisions :
              /\ windows' = L!SetEntry(L!AfterRoom(key), e) /\ log' = Append(log, d)
              /\ e.key = key /\ e.start <= tick /\ tick - e.start < Window
              /\ \/ /\ e.start = tick /\ e.count = 1
                    /\ \A i \in DOMAIN windows : windows[i].key = key => tick - windows[i].start >= Window
                 \/ \E i \in DOMAIN windows :
                       /\ windows[i].key = key /\ e.start = windows[i].start
                       /\ e.count = windows[i].count + 1
              /\ d.key = key /\ d.at = tick /\ (d.allowed <=> e.count <= L!MaxOf(d.key))
              /\ ~d.allowed => e.start + Window <= d.at + d.retry * Second
<1> DEFINE e == L!Counted(L!Pruned, key)
           d == [key |-> key, at |-> tick, allowed |-> e.count <= L!MaxOf(key),
                 retry |-> IF e.count <= L!MaxOf(key) THEN 0 ELSE L!RetryAfter(e)]
<1>1. LimiterAssumption /\ MapOK /\ TimesOK
  BY DEF LimiterInv
<1>2. windows' = L!SetEntry(L!AfterRoom(key), e) /\ log' = Append(log, d)
  BY DEF L!Hit
<1>3. /\ e \in L!Entries /\ e.key = key /\ e.start <= tick /\ tick - e.start < Window
      /\ \/ /\ e.start = tick /\ e.count = 1
            /\ \A i \in DOMAIN windows : windows[i].key = key => tick - windows[i].start >= Window
         \/ \E i \in DOMAIN windows :
               /\ windows[i].key = key /\ e.start = windows[i].start
               /\ e.count = windows[i].count + 1
  BY <1>1, CountedOK
<1> HIDE DEF e
<1>5. L!RetryAfter(e) \in Nat /\ e.start + Window <= tick + L!RetryAfter(e) * Second
  BY <1>1, <1>3, WaitOK DEF TimesOK
<1>6. /\ d \in Decisions /\ d.key = key /\ d.at = tick /\ (d.allowed <=> e.count <= L!MaxOf(d.key))
      /\ ~d.allowed => e.start + Window <= d.at + d.retry * Second
  <2>1. (IF e.count <= L!MaxOf(key) THEN 0 ELSE L!RetryAfter(e)) \in Nat
    BY <1>5
  <2>2. (e.count <= L!MaxOf(key)) \in BOOLEAN /\ tick \in 0 .. MaxTicks
    BY <1>1 DEF TimesOK
  <2>3. d \in Decisions
    BY <2>1, <2>2 DEF Decisions
  <2>4. d.key = key /\ d.at = tick /\ (d.allowed <=> e.count <= L!MaxOf(key))
    OBVIOUS
  <2>5. ~d.allowed => d.retry = L!RetryAfter(e)
    OBVIOUS
  <2> HIDE DEF d
  <2> QED BY <1>5, <2>3, <2>4, <2>5
<1> HIDE DEF d
<1> QED BY <1>2, <1>3, <1>6

\* The Map and the log after a request.
LEMMA HitStep ==
    ASSUME LimiterInv, NEW key \in L!Buckets, L!Hit(key), UNCHANGED tick
    PROVE  LimiterInv'
<1> DEFINE ws == L!AfterRoom(key)
<1>1. LimiterAssumption /\ MapOK /\ TimesOK /\ LogOK /\ DeniedOK(log) /\ RetryOK(log)
  BY Promises DEF LimiterInv
<1>2. PICK e \in L!Entries, d \in Decisions :
              /\ windows' = L!SetEntry(ws, e) /\ log' = Append(log, d)
              /\ e.key = key /\ e.start <= tick /\ tick - e.start < Window
              /\ \/ e.start = tick /\ e.count = 1
                 \/ \E i \in DOMAIN windows :
                       /\ windows[i].key = key /\ e.start = windows[i].start
                       /\ e.count = windows[i].count + 1
              /\ d.key = key /\ d.at = tick /\ (d.allowed <=> e.count <= L!MaxOf(d.key))
              /\ ~d.allowed => e.start + Window <= d.at + d.retry * Second
  BY HitDecides
<1>3. e.key = key /\ e.start <= tick /\ tick - e.start < Window
  BY <1>2
<1>4. /\ ws \in Seq(L!Entries) /\ Unique(ws) /\ Within(ws, windows) /\ Len(ws) <= MaxWindows
      /\ key \in L!Keys(ws) \/ Len(ws) < MaxWindows
  BY <1>1, AfterRoomOK
<1>6. /\ d.key = key /\ d.at = tick /\ (d.allowed <=> e.count <= L!MaxOf(d.key))
      /\ ~d.allowed => e.start + Window <= d.at + d.retry * Second
  BY <1>2
<1> HIDE DEF ws
<1>7. log \in Seq(Decisions) /\ \A k \in DOMAIN log : log[k].at <= d.at
  BY <1>1, <1>6 DEF LogOK
<1>8. /\ log' \in Seq(Decisions) /\ DOMAIN log' = DOMAIN log \cup {Len(log) + 1}
      /\ \A k \in DOMAIN log : log'[k] = log[k]
      /\ log'[Len(log) + 1] = d
  BY <1>2, <1>7, Longer
<1>9. PICK p \in DOMAIN log' : Opened(e, log', p)
  <2>1. CASE e.start = tick /\ e.count = 1
    <3>1. Opened(e, Append(log, d), Len(log) + 1)
      BY <1>1, <1>3, <1>6, <1>7, <2>1, FreshOpened
    <3> QED BY <1>2, <1>8, <3>1
  <2>2. CASE \E i \in DOMAIN windows :
               /\ windows[i].key = key /\ e.start = windows[i].start
               /\ e.count = windows[i].count + 1
    <3>1. PICK i \in DOMAIN windows :
               /\ windows[i].key = key /\ e.start = windows[i].start
               /\ e.count = windows[i].count + 1
      BY <2>2
    <3>2. windows[i] \in L!Entries /\ windows[i].start <= tick /\ \E q \in DOMAIN log : Opened(windows[i], log, q)
      BY <1>1 DEF MapOK
    <3>3. PICK q \in DOMAIN log : Opened(windows[i], log, q)
      BY <3>2
    <3>4. Opened(e, Append(log, d), q)
      BY <1>1, <1>3, <1>6, <1>7, <3>1, <3>2, <3>3, SameOpened
    <3> QED BY <1>2, <1>8, <3>4
  <2> QED BY <1>2, <2>1, <2>2
<1>10. DeniedOK(log') /\ RetryOK(log')
  <2>1. d.at - e.start < Window /\ p \in DOMAIN Append(log, d) /\ Opened(e, Append(log, d), p) /\ e.key = d.key
    BY <1>2, <1>3, <1>6, <1>9
  <2>2. DeniedOK(Append(log, d))
    BY <1>1, <1>3, <1>6, <1>7, <2>1, DeniedStep
  <2>3. RetryOK(Append(log, d))
    BY <1>1, <1>3, <1>6, <1>7, <2>1, RetryStep
  <2> QED BY <1>2, <2>2, <2>3
<1>11. MapOK'
  <2>1. /\ windows' \in Seq(L!Entries) /\ Len(windows') <= MaxWindows /\ Unique(windows')
        /\ \A i \in DOMAIN windows' :
              \/ windows'[i] = e
              \/ \E j \in DOMAIN ws : windows'[i] = ws[j] /\ ws[j].key # e.key
    <3>1. e.key \in L!Keys(ws) \/ Len(ws) < MaxWindows
      BY <1>3, <1>4
    <3>2. /\ L!SetEntry(ws, e) \in Seq(L!Entries) /\ Len(L!SetEntry(ws, e)) <= MaxWindows
          /\ Unique(L!SetEntry(ws, e))
          /\ \A i \in DOMAIN L!SetEntry(ws, e) :
                \/ L!SetEntry(ws, e)[i] = e
                \/ \E j \in DOMAIN ws : L!SetEntry(ws, e)[i] = ws[j] /\ ws[j].key # e.key
      BY <1>1, <1>3, <1>4, <3>1, SetEntryOK
    <3> QED BY <1>2, <3>2
  <2>2. ASSUME NEW i \in DOMAIN windows'
        PROVE  windows'[i].start <= tick /\ \E q \in DOMAIN log' : Opened(windows'[i], log', q)
    <3>1. CASE windows'[i] = e
      BY <1>3, <1>9, <3>1
    <3>2. CASE \E j \in DOMAIN ws : windows'[i] = ws[j] /\ ws[j].key # e.key
      <4>1. PICK j \in DOMAIN windows : windows'[i] = windows[j] /\ windows[j].key # e.key
        BY <1>4, <3>2 DEF Within
      <4>2. windows[j] \in L!Entries /\ windows[j].start <= tick /\ \E q \in DOMAIN log : Opened(windows[j], log, q)
        BY <1>1 DEF MapOK
      <4>3. PICK q \in DOMAIN log : Opened(windows[j], log, q)
        BY <4>2
      <4>4. windows[j].start <= d.at /\ d.key # windows[j].key
        BY <1>3, <1>6, <4>1, <4>2
      <4>5. Opened(windows[j], Append(log, d), q)
        BY <1>1, <1>6, <1>7, <4>2, <4>3, <4>4, OtherOpened
      <4> QED BY <1>2, <1>8, <4>1, <4>2, <4>5
    <3> QED BY <2>1, <3>1, <3>2
  <2> QED BY <2>1, <2>2 DEF MapOK
<1>12. LogOK'
  <2>1. \A k \in DOMAIN log' : log'[k].at <= tick
    <3>1. tick <= tick
      BY <1>1 DEF TimesOK
    <3> QED BY <1>1, <1>6, <1>8, <3>1 DEF LogOK
  <2> QED BY <1>8, <2>1 DEF LogOK
<1>13. TimesOK'
  BY <1>1 DEF TimesOK, L!Hit
<1>14. LimiterAssumption'
  BY <1>1 DEF LimiterAssumption
<1>15. (L!DeniedOnlyOverBudget <=> DeniedOK(log))' /\ (L!RetryAfterKept <=> RetryOK(log))'
  BY Promises, PTL
<1> QED BY <1>10, <1>11, <1>12, <1>13, <1>14, <1>15 DEF LimiterInv

\* Time passes.
LEMMA TickStep ==
    ASSUME LimiterInv, L!Tick
    PROVE  LimiterInv'
<1>1. /\ tick \in 0 .. MaxTicks /\ MaxTicks \in Nat /\ tick' = tick + 1 /\ tick < MaxTicks
      /\ UNCHANGED <<windows, lastPrune, log>>
  BY DEF L!Tick, L!limiterVars, LimiterInv, TimesOK, LimiterAssumption
<1>2. MapOK'
  <2>1. \A i \in DOMAIN windows : windows[i].start <= tick'
    <3> SUFFICES ASSUME NEW i \in DOMAIN windows PROVE windows[i].start <= tick'
      OBVIOUS
    <3>1. windows[i] \in L!Entries /\ windows[i].start <= tick
      BY DEF LimiterInv, MapOK
    <3>2. windows[i].start \in Nat
      BY <3>1 DEF L!Entries
    <3> QED BY <1>1, <3>1, <3>2
  <2>2. \A i \in DOMAIN windows : \E p \in DOMAIN log : Opened(windows[i], log, p)
    BY DEF LimiterInv, MapOK
  <2>3. windows' = windows /\ log' = log
    BY <1>1
  <2> QED BY <2>1, <2>2, <2>3 DEF LimiterInv, MapOK
<1>3. LogOK'
  <2>1. \A i \in DOMAIN log : log[i].at <= tick'
    <3> SUFFICES ASSUME NEW i \in DOMAIN log PROVE log[i].at <= tick'
      OBVIOUS
    <3>1. log[i] \in Decisions /\ log[i].at <= tick
      BY DEF LimiterInv, LogOK
    <3>2. log[i].at \in Nat
      BY <3>1 DEF Decisions
    <3> QED BY <1>1, <3>1, <3>2
  <2> QED BY <1>1, <2>1 DEF LimiterInv, LogOK
<1>4. L!DeniedOnlyOverBudget' /\ L!RetryAfterKept'
  BY <1>1 DEF LimiterInv, L!DeniedOnlyOverBudget, L!RetryAfterKept, L!Granted
<1>5. TimesOK'
  BY <1>1 DEF LimiterInv, TimesOK
<1> QED BY <1>2, <1>3, <1>4, <1>5 DEF LimiterInv, LimiterAssumption

-----------------------------------------------------------------------------
(* While there is room for every bucket, a budget is a budget.             *)

KeysOf(lg) == {lg[i].key : i \in DOMAIN lg}
FewBuckets(lg) == Cardinality(KeysOf(lg)) <= MaxWindows

\* The keys of a sequence of entries or decisions, and how many there are.
LEMMA CountKeys ==
    ASSUME NEW s, NEW n \in Nat, DOMAIN s = 1 .. n
    PROVE  /\ IsFiniteSet(KeysOf(s))
           /\ (\A i, j \in DOMAIN s : s[i].key = s[j].key => i = j) => Cardinality(KeysOf(s)) = n
<1> DEFINE M == [i \in 1 .. n |-> s[i].key]
<1>1. IsFiniteSet(1 .. n) /\ Cardinality(1 .. n) = n
  BY FS_Interval
<1>2. KeysOf(s) = {s[i].key : i \in 1 .. n}
  BY DEF KeysOf
<1>3. M \in Surjection(1 .. n, KeysOf(s))
  BY <1>2 DEF Surjection
<1>4. (\A i, j \in DOMAIN s : s[i].key = s[j].key => i = j) => M \in Injection(1 .. n, KeysOf(s))
  BY <1>2 DEF Injection, IsInjective
<1> HIDE DEF M
<1>5. IsFiniteSet(KeysOf(s)) /\ (Cardinality(KeysOf(s)) = n <=> M \in Injection(1 .. n, KeysOf(s)))
  BY <1>1, <1>3, FS_Surjection
<1> QED BY <1>4, <1>5

\* The requests of a bucket that were granted from p until before q.
Middle(lg, key, p, q) == {k \in DOMAIN lg : p <= k /\ k < q /\ lg[k].key = key /\ lg[k].allowed}

\* The current window of a bucket began with decision q at time t, the one before it with
\* decision p, and neither has granted more than the budget.
Phases(key, lg, ws, now, p, q, t) ==
    /\ p \in Nat /\ q \in 0 .. (Len(lg) + 1) /\ t \in Int /\ t <= now
    /\ Cardinality(Grants(lg, key, q)) <= L!MaxOf(key)
    /\ Cardinality(Middle(lg, key, p, q)) <= L!MaxOf(key)
    /\ \A k \in DOMAIN lg : k < p /\ lg[k].key = key => lg[k].at <= t - Window
    /\ \A k \in DOMAIN lg : k < q /\ lg[k].key = key => lg[k].at <= t
    /\ \/ \E i \in DOMAIN ws : ws[i].key = key /\ ws[i].start = t /\ Opened(ws[i], lg, q)
       \/ /\ \A i \in DOMAIN ws : ws[i].key # key
          /\ (\A k \in DOMAIN lg : lg[k].key # key) \/ now >= t + Window

AllPhases(lg, ws, now) ==
    \A key \in L!Buckets : \E p, q \in Nat : \E t \in Int : Phases(key, lg, ws, now, p, q, t)

BudgetOK(lg) ==
    \A i \in DOMAIN lg :
        Cardinality(GrantedIn(lg, lg[i].key, lg[i].at - Window, lg[i].at)) <= 2 * L!MaxOf(lg[i].key)

BudgetInv == FewBuckets(log) => AllPhases(log, windows, tick) /\ BudgetOK(log)

LEMMA BudgetPromise == L!BudgetHolds <=> (FewBuckets(log) => BudgetOK(log))
BY SameCardinality DEF L!BudgetHolds, FewBuckets, KeysOf, BudgetOK, L!Granted, GrantedIn

\* At any time the last two windows hold everything that was granted within timeWindowMs.
LEMMA BudgetNow ==
    ASSUME LimiterAssumption, NEW lg \in Seq(Decisions), NEW ws, NEW now \in Nat, NEW key,
           NEW p, NEW q, NEW t, Phases(key, lg, ws, now, p, q, t)
    PROVE  Cardinality(GrantedIn(lg, key, now - Window, now)) <= 2 * L!MaxOf(key)
<1> DEFINE G == GrantedIn(lg, key, now - Window, now)
           A == Middle(lg, key, p, q)
           B == Grants(lg, key, q)
<1>1. /\ p \in Nat /\ q \in Nat /\ t \in Int /\ t <= now /\ Window \in Nat /\ L!MaxOf(key) \in Nat
      /\ DOMAIN lg \subseteq Nat
  BY Budgets DEF Phases, LimiterAssumption
<1>2. A \in SUBSET DOMAIN lg /\ B \in SUBSET DOMAIN lg
  BY DEF Middle, Grants
<1>3. IsFiniteSet(A) /\ IsFiniteSet(B)
  BY <1>2, FiniteDecisions
<1>4. G \in SUBSET (A \cup B)
  <2> SUFFICES ASSUME NEW k \in G PROVE k \in A \cup B
    OBVIOUS
  <2>1. k \in DOMAIN lg /\ lg[k].key = key /\ lg[k].allowed /\ lg[k].at > now - Window
    BY DEF GrantedIn
  <2>2. k \in Nat /\ lg[k].at \in Nat
    <3>1. lg[k] \in Decisions
      BY <2>1
    <3> QED BY <1>1, <2>1, <3>1 DEF Decisions
  <2>3. ~(k < p)
    <3> SUFFICES ASSUME k < p PROVE FALSE
      OBVIOUS
    <3>1. lg[k].at <= t - Window
      BY <2>1 DEF Phases
    <3> QED BY <1>1, <2>1, <2>2, <3>1
  <2>4. p <= k /\ (q <= k \/ k < q)
    BY <1>1, <2>2, <2>3
  <2> QED BY <2>1, <2>4 DEF Middle, Grants
<1>5. Cardinality(A) <= L!MaxOf(key) /\ Cardinality(B) <= L!MaxOf(key)
  BY DEF Phases
<1> HIDE DEF A, B, G
<1>6. IsFiniteSet(A \cup B) /\ Cardinality(A \cup B) = Cardinality(A) + Cardinality(B) - Cardinality(A \cap B)
  BY <1>3, FS_Union
<1>7. IsFiniteSet(A \cap B)
  <2>1. A \cap B \in SUBSET A
    OBVIOUS
  <2> QED BY <1>3, <2>1, FS_Subset
<1>8. /\ Cardinality(A) \in Nat /\ Cardinality(B) \in Nat /\ Cardinality(A \cap B) \in Nat
      /\ Cardinality(A \cup B) \in Nat
  BY <1>3, <1>6, <1>7, FS_CardinalityType
<1>9. IsFiniteSet(G) /\ Cardinality(G) <= Cardinality(A \cup B)
  BY <1>4, <1>6, FS_Subset
<1>10. Cardinality(G) \in Nat
  BY <1>9, FS_CardinalityType
<1>11. Cardinality(G) <= 2 * L!MaxOf(key)
  BY SMTT(30), <1>1, <1>5, <1>6, <1>8, <1>9, <1>10
<1> QED BY <1>11 DEF G

\* What has passed is as it was, and what is within timeWindowMs is within two windows.
LEMMA BudgetStep ==
    ASSUME LimiterAssumption, NEW lg \in Seq(Decisions), NEW d \in Decisions, BudgetOK(lg), NEW ws,
           \A k \in DOMAIN lg : lg[k].at <= d.at, AllPhases(Append(lg, d), ws, d.at)
    PROVE  BudgetOK(Append(lg, d))
<1> DEFINE lh == Append(lg, d)
           n == Len(lg) + 1
<1>1. /\ lh \in Seq(Decisions) /\ DOMAIN lh = DOMAIN lg \cup {n} /\ lh[n] = d /\ n \notin DOMAIN lg
      /\ \A k \in DOMAIN lg : lh[k] = lg[k]
  BY Longer
<1> HIDE DEF lh, n
<1>2. d.at \in Nat
  BY DEF Decisions
<1> SUFFICES ASSUME NEW i \in DOMAIN lh
             PROVE  Cardinality(GrantedIn(lh, lh[i].key, lh[i].at - Window, lh[i].at)) <= 2 * L!MaxOf(lh[i].key)
  BY DEF BudgetOK, lh
<1>3. lh[i] \in Decisions /\ lh[i].at \in Nat /\ lh[i].key \in L!Buckets
  <2>1. lh[i] \in Decisions
    BY <1>1
  <2> QED BY <2>1 DEF Decisions
<1>4. CASE lh[i].at = d.at
  <2>1. PICK p \in Nat, q \in Nat, t \in Int : Phases(lh[i].key, lh, ws, d.at, p, q, t)
    BY <1>3 DEF AllPhases, lh
  <2> QED BY <1>1, <1>2, <1>4, <2>1, BudgetNow
<1>5. CASE lh[i].at # d.at
  <2>1. i \in DOMAIN lg /\ lh[i] = lg[i] /\ ~(d.at <= lh[i].at)
    BY <1>1, <1>2, <1>3, <1>5
  <2>2. GrantedIn(lh, lh[i].key, lh[i].at - Window, lh[i].at) = GrantedIn(lg, lg[i].key, lg[i].at - Window, lg[i].at)
    BY <1>1, <2>1 DEF GrantedIn
  <2> QED BY <2>1, <2>2 DEF BudgetOK
<1> QED BY <1>4, <1>5

\* While there is room for every bucket, nothing is dropped to make room.
LEMMA RoomEnough ==
    ASSUME LimiterInv, NEW key \in L!Buckets, FewBuckets(log'), KeysOf(log') = KeysOf(log) \cup {key}
    PROVE  L!AfterRoom(key) = L!Pruned
<1> SUFFICES ASSUME key \notin L!Keys(L!Pruned) PROVE Len(L!Pruned) < MaxWindows
  BY DEF L!AfterRoom, L!MakeRoom
<1>1. LimiterAssumption /\ MapOK /\ LogOK /\ MaxWindows \in Nat
  BY DEF LimiterInv, LimiterAssumption
<1>2. L!Pruned \in Seq(L!Entries) /\ Unique(L!Pruned) /\ Within(L!Pruned, windows) /\ Len(L!Pruned) \in Nat
      /\ DOMAIN L!Pruned = 1 .. Len(L!Pruned)
  BY <1>1, PrunedOK
<1>3. IsFiniteSet(KeysOf(L!Pruned)) /\ Cardinality(KeysOf(L!Pruned)) = Len(L!Pruned)
  BY <1>2, CountKeys DEF Unique
<1>4. KeysOf(L!Pruned) \subseteq KeysOf(log)
  <2> SUFFICES ASSUME NEW i \in DOMAIN L!Pruned PROVE L!Pruned[i].key \in KeysOf(log)
    BY DEF KeysOf
  <2>1. PICK j \in DOMAIN windows : L!Pruned[i] = windows[j]
    BY <1>2 DEF Within
  <2>2. PICK p \in DOMAIN log : Opened(windows[j], log, p)
    BY <1>1 DEF MapOK
  <2> QED BY <2>1, <2>2 DEF Opened, KeysOf
<1>5. IsFiniteSet(KeysOf(log))
  <2> log \in Seq(Decisions) /\ Len(log) \in Nat /\ DOMAIN log = 1 .. Len(log)
    BY <1>1 DEF LogOK
  <2> QED BY CountKeys
<1>6. IsFiniteSet(KeysOf(log'))
  BY <1>5, FS_AddElement
<1>7. key \notin KeysOf(L!Pruned)
  BY DEF L!Keys, KeysOf
<1> DEFINE K == KeysOf(L!Pruned) \cup {key}
<1>8. K \in SUBSET KeysOf(log')
  BY <1>4
<1>9. Cardinality(K) <= Cardinality(KeysOf(log'))
  BY <1>6, <1>8, FS_Subset
<1>10. Cardinality(K) = Len(L!Pruned) + 1
  BY <1>3, <1>7, FS_AddElement
<1>11. Cardinality(KeysOf(log')) \in Nat /\ Cardinality(KeysOf(log')) <= MaxWindows
  BY <1>6, FS_CardinalityType DEF FewBuckets
<1> HIDE DEF K
<1> QED BY <1>1, <1>2, <1>9, <1>10, <1>11

\* A bucket that is not asked for: its window stays, or has ended and is forgotten.
LEMMA OtherPhases ==
    ASSUME LimiterInv, NEW d \in Decisions, d.at = tick, log' = Append(log, d),
           NEW key \in L!Buckets, key # d.key, NEW ws,
           \* what is left in the Map of another bucket was there, and is there unless forgotten
           \A i \in DOMAIN ws : ws[i].key = key => \E j \in DOMAIN windows : ws[i] = windows[j],
           \A j \in DOMAIN windows :
              windows[j].key = key /\ ~L!Forgotten(windows[j]) => \E i \in DOMAIN ws : ws[i] = windows[j],
           NEW p \in Nat, NEW q \in Nat, NEW t \in Int, Phases(key, log, windows, tick, p, q, t)
    PROVE  Phases(key, log', ws, tick, p, q, t)
<1> DEFINE n == Len(log) + 1
<1>1. LimiterAssumption /\ MapOK /\ log \in Seq(Decisions) /\ tick \in Nat
  BY DEF LimiterInv, LogOK, TimesOK, LimiterAssumption
<1>2. /\ DOMAIN log' = DOMAIN log \cup {n} /\ log'[n] = d
      /\ \A k \in DOMAIN log : log'[k] = log[k]
  BY <1>1, Longer
<1> HIDE DEF n
<1>3. Grants(log', key, q) = Grants(log, key, q) /\ Middle(log', key, p, q) = Middle(log, key, p, q)
  BY <1>2 DEF Grants, Middle
<1>4. \/ \E i \in DOMAIN ws : ws[i].key = key /\ ws[i].start = t /\ Opened(ws[i], log', q)
      \/ /\ \A i \in DOMAIN ws : ws[i].key # key
         /\ (\A k \in DOMAIN log' : log'[k].key # key) \/ tick >= t + Window
  <2>1. CASE \E i \in DOMAIN windows : windows[i].key = key /\ windows[i].start = t /\ Opened(windows[i], log, q)
    <3>1. PICK i \in DOMAIN windows : windows[i].key = key /\ windows[i].start = t /\ Opened(windows[i], log, q)
      BY <2>1
    <3>2. windows[i] \in L!Entries /\ windows[i].start <= d.at /\ q \in DOMAIN log
      BY <1>1, <3>1 DEF MapOK, Opened
    <3>3. Opened(windows[i], log', q)
      BY <1>1, <3>1, <3>2, OtherOpened
    <3>4. CASE \E j \in DOMAIN ws : ws[j] = windows[i]
      BY <3>1, <3>3, <3>4
    <3>5. CASE ~\E j \in DOMAIN ws : ws[j] = windows[i]
      <4>1. L!Forgotten(windows[i])
        BY <3>1, <3>5
      <4>2. tick >= t + Window
        <5>1. /\ tick - t > Forget /\ Window <= Forget /\ Window \in Nat /\ Forget \in Nat
          BY <1>1, <3>1, <4>1 DEF L!Forgotten, LimiterAssumption
        <5> QED BY <1>1, <5>1
      <4>3. \A j \in DOMAIN ws : ws[j].key # key
        <5> SUFFICES ASSUME NEW j \in DOMAIN ws, ws[j].key = key PROVE FALSE
          OBVIOUS
        <5>1. PICK l \in DOMAIN windows : ws[j] = windows[l]
          OBVIOUS
        <5>2. l = i
          BY <1>1, <3>1, <5>1 DEF MapOK, Unique
        <5> QED BY <3>5, <5>1, <5>2
      <4> QED BY <4>2, <4>3
    <3> QED BY <3>4, <3>5
  <2>2. CASE /\ \A i \in DOMAIN windows : windows[i].key # key
             /\ (\A k \in DOMAIN log : log[k].key # key) \/ tick >= t + Window
    <3>1. \A i \in DOMAIN ws : ws[i].key # key
      BY <2>2
    <3>2. (\A k \in DOMAIN log : log[k].key # key) => \A k \in DOMAIN log' : log'[k].key # key
      BY <1>2
    <3> QED BY <2>2, <3>1, <3>2
  <2> QED BY <2>1, <2>2 DEF Phases
<1>5. /\ \A k \in DOMAIN log' : k < p /\ log'[k].key = key => log'[k].at <= t - Window
      /\ \A k \in DOMAIN log' : k < q /\ log'[k].key = key => log'[k].at <= t
  BY <1>2 DEF Phases
<1>6. q \in 0 .. (Len(log') + 1)
  BY <1>1, Longer DEF Phases
<1> QED BY <1>3, <1>4, <1>5, <1>6 DEF Phases

\* A bucket that is counted in its open window.
LEMMA CountedPhases ==
    ASSUME LimiterInv, NEW d \in Decisions, d.at = tick, log' = Append(log, d),
           NEW ws, NEW e \in L!Entries, \E i \in DOMAIN ws : ws[i] = e,
           NEW j \in DOMAIN windows, windows[j].key = d.key, e.key = d.key,
           e.start = windows[j].start, e.count = windows[j].count + 1, e.start <= d.at,
           d.allowed <=> e.count <= L!MaxOf(d.key),
           ~d.allowed => e.start + Window <= d.at + d.retry * Second,
           NEW p \in Nat, NEW q \in Nat, NEW t \in Int, Phases(d.key, log, windows, tick, p, q, t)
    PROVE  Phases(d.key, log', ws, tick, p, q, t)
<1> DEFINE n == Len(log) + 1
<1>1. LimiterAssumption /\ MapOK /\ log \in Seq(Decisions)
  BY DEF LimiterInv, LogOK
<1>2. /\ DOMAIN log' = DOMAIN log \cup {n} /\ log'[n] = d /\ DOMAIN log \subseteq Nat
      /\ \A k \in DOMAIN log : log'[k] = log[k] /\ k < n
  BY <1>1, Longer
<1>3. PICK i \in DOMAIN windows : windows[i].key = d.key /\ windows[i].start = t /\ Opened(windows[i], log, q)
  BY DEF Phases
<1>4. i = j
  BY <1>1, <1>3 DEF MapOK, Unique
<1>5. q \in DOMAIN log /\ windows[j] \in L!Entries
  BY <1>1, <1>3 DEF Opened, MapOK
<1>6. Opened(e, log', q)
  BY <1>1, <1>3, <1>4, <1>5, SameOpened
<1>7. n \in Nat /\ ~(n < q) /\ q < n
  BY <1>1, <1>2, <1>5
<1>8. ~(n < p) \/ d.at <= t - Window
  <2> SUFFICES ASSUME n < p PROVE FALSE
    OBVIOUS
  <2>1. q < p
    BY <1>5, <1>7
  <2>2. log[q].at <= t - Window /\ t <= log[q].at
    BY <1>3, <1>5, <2>1 DEF Phases, Opened
  <2>3. log[q].at \in Nat /\ Window \in Nat \ {0}
    <3>1. log[q] \in Decisions
      BY <1>1, <1>5
    <3> QED BY <1>1, <3>1 DEF Decisions, LimiterAssumption
  <2> QED BY <2>2, <2>3
<1> HIDE DEF n
<1>9. Middle(log', d.key, p, q) = Middle(log, d.key, p, q)
  BY <1>2, <1>7 DEF Middle
<1>10. /\ \A k \in DOMAIN log' : k < p /\ log'[k].key = d.key => log'[k].at <= t - Window
       /\ \A k \in DOMAIN log' : k < q /\ log'[k].key = d.key => log'[k].at <= t
  BY <1>2, <1>7, <1>8 DEF Phases
<1>11. Cardinality(Grants(log', d.key, q)) <= L!MaxOf(d.key)
  <2>1. Cardinality(Grants(log', d.key, q)) = IF e.count <= L!MaxOf(d.key) THEN e.count ELSE L!MaxOf(d.key)
    BY <1>6 DEF Opened
  <2>2. L!MaxOf(d.key) \in Nat /\ e.count \in Nat
    BY <1>1, Budgets DEF L!Entries
  <2> QED BY <2>1, <2>2
<1>12. \E l \in DOMAIN ws : ws[l].key = d.key /\ ws[l].start = t /\ Opened(ws[l], log', q)
  BY <1>3, <1>4, <1>6
<1>13. q \in 0 .. (Len(log') + 1)
  BY <1>1, Longer DEF Phases
<1> QED BY <1>9, <1>10, <1>11, <1>12, <1>13 DEF Phases

\* A bucket that opens a window.
LEMMA FreshPhases ==
    ASSUME LimiterInv, NEW d \in Decisions, d.at = tick, log' = Append(log, d),
           NEW ws, NEW e \in L!Entries, \E i \in DOMAIN ws : ws[i] = e,
           e.key = d.key, e.start = d.at, e.count = 1,
           \A i \in DOMAIN windows : windows[i].key = d.key => tick - windows[i].start >= Window,
           d.allowed <=> e.count <= L!MaxOf(d.key),
           ~d.allowed => e.start + Window <= d.at + d.retry * Second,
           NEW p \in Nat, NEW q \in Nat, NEW t \in Int, Phases(d.key, log, windows, tick, p, q, t)
    PROVE  Phases(d.key, log', ws, tick, q, Len(log) + 1, tick)
<1> DEFINE n == Len(log) + 1
<1>1. LimiterAssumption /\ MapOK /\ LogOK /\ log \in Seq(Decisions) /\ tick \in Nat
  BY DEF LimiterInv, LogOK, TimesOK, LimiterAssumption
<1>2. /\ DOMAIN log' = DOMAIN log \cup {n} /\ log'[n] = d /\ n \in Nat /\ DOMAIN log \subseteq Nat
      /\ \A k \in DOMAIN log : log'[k] = log[k] /\ k < n
  BY <1>1, Longer
<1>3. Opened(e, log', n)
  BY <1>1, FreshOpened
<1>4. (\A k \in DOMAIN log : log[k].key # d.key) \/ tick >= t + Window
  <2>1. CASE \E i \in DOMAIN windows : windows[i].key = d.key /\ windows[i].start = t /\ Opened(windows[i], log, q)
    <3>1. tick - t >= Window /\ Window \in Nat
      BY <1>1, <2>1 DEF LimiterAssumption
    <3> QED BY <1>1, <3>1
  <2> QED BY <2>1 DEF Phases
<1>5. \A k \in DOMAIN log : k < q /\ log[k].key = d.key => log[k].at <= tick - Window
  <2> SUFFICES ASSUME NEW k \in DOMAIN log, k < q, log[k].key = d.key PROVE log[k].at <= tick - Window
    OBVIOUS
  <2>1. log[k].at <= t /\ tick >= t + Window
    BY <1>4 DEF Phases
  <2>2. log[k].at \in Nat /\ Window \in Nat
    <3>1. log[k] \in Decisions
      BY <1>1
    <3> QED BY <1>1, <3>1 DEF Decisions, LimiterAssumption
  <2> QED BY SMTT(30), <1>1, <2>1, <2>2
<1>6. ~(n < q) /\ n \in 0 .. (Len(log') + 1)
  <2>1. Len(log') = Len(log) + 1 /\ Len(log) \in Nat
    BY <1>1, Longer
  <2> QED BY <2>1 DEF Phases
<1>7. ~(n < n) /\ tick <= tick /\ tick \in Int
  BY <1>1, <1>2
<1> HIDE DEF n
<1>8. \A k \in DOMAIN log' : k < n => k \in DOMAIN log
  BY <1>2, <1>7
<1>9. Middle(log', d.key, q, n) = Grants(log, d.key, q)
  BY <1>2, <1>7 DEF Middle, Grants
<1>10. \A k \in DOMAIN log' : k < n /\ log'[k].key = d.key => log'[k].at <= tick
  BY <1>1, <1>2, <1>8 DEF LogOK
<1>11. \A k \in DOMAIN log' : k < q /\ log'[k].key = d.key => log'[k].at <= tick - Window
  BY <1>2, <1>5, <1>6
<1>12. Cardinality(Grants(log', d.key, n)) <= L!MaxOf(d.key)
  <2>1. Cardinality(Grants(log', d.key, n)) = IF e.count <= L!MaxOf(d.key) THEN e.count ELSE L!MaxOf(d.key)
    BY <1>3 DEF Opened
  <2>2. L!MaxOf(d.key) \in Nat /\ e.count \in Nat
    BY <1>1, Budgets DEF L!Entries
  <2> QED BY <2>1, <2>2
<1>13. Cardinality(Middle(log', d.key, q, n)) <= L!MaxOf(d.key)
  BY <1>9 DEF Phases
<1>14. \E l \in DOMAIN ws : ws[l].key = d.key /\ ws[l].start = tick /\ Opened(ws[l], log', n)
  BY <1>3
<1>15. Phases(d.key, log', ws, tick, q, n, tick)
  BY <1>6, <1>7, <1>10, <1>11, <1>12, <1>13, <1>14 DEF Phases
<1> QED BY <1>15 DEF n

LEMMA BudgetHit ==
    ASSUME LimiterInv, BudgetInv, NEW key \in L!Buckets, L!Hit(key), UNCHANGED tick
    PROVE  BudgetInv'
<1> SUFFICES ASSUME FewBuckets(log') PROVE AllPhases(log', windows', tick) /\ BudgetOK(log')
  BY DEF BudgetInv
<1>1. LimiterAssumption /\ MapOK /\ LogOK /\ log \in Seq(Decisions) /\ MaxWindows \in Nat
  BY DEF LimiterInv, LogOK, LimiterAssumption
<1>2. PICK e \in L!Entries, d \in Decisions :
              /\ windows' = L!SetEntry(L!AfterRoom(key), e) /\ log' = Append(log, d)
              /\ e.key = key /\ e.start <= tick
              /\ \/ /\ e.start = tick /\ e.count = 1
                    /\ \A i \in DOMAIN windows : windows[i].key = key => tick - windows[i].start >= Window
                 \/ \E i \in DOMAIN windows :
                       /\ windows[i].key = key /\ e.start = windows[i].start
                       /\ e.count = windows[i].count + 1
              /\ d.key = key /\ d.at = tick /\ (d.allowed <=> e.count <= L!MaxOf(d.key))
              /\ ~d.allowed => e.start + Window <= d.at + d.retry * Second
  BY HitDecides
<1>3. KeysOf(log') = KeysOf(log) \cup {key}
  <2>1. /\ DOMAIN log' = DOMAIN log \cup {Len(log) + 1} /\ log'[Len(log) + 1] = d
        /\ \A k \in DOMAIN log : log'[k] = log[k]
    BY <1>1, <1>2, Longer
  <2> QED BY <1>2, <2>1 DEF KeysOf
<1>4. FewBuckets(log)
  <2>1. log' \in Seq(Decisions) /\ Len(log') \in Nat /\ DOMAIN log' = 1 .. Len(log')
    BY <1>1, <1>2, Longer
  <2>2. IsFiniteSet(KeysOf(log'))
    BY <2>1, CountKeys
  <2>3. KeysOf(log) \in SUBSET KeysOf(log')
    BY <1>3
  <2>4. Cardinality(KeysOf(log)) <= Cardinality(KeysOf(log')) /\ IsFiniteSet(KeysOf(log))
    BY <2>2, <2>3, FS_Subset
  <2>5. Cardinality(KeysOf(log)) \in Nat /\ Cardinality(KeysOf(log')) \in Nat
    BY <2>2, <2>4, FS_CardinalityType
  <2> QED BY <1>1, <2>4, <2>5 DEF FewBuckets
<1>5. AllPhases(log, windows, tick) /\ BudgetOK(log)
  BY <1>4 DEF BudgetInv
<1>6. windows' = L!SetEntry(L!Pruned, e)
  BY <1>2, <1>3, RoomEnough
<1>7. /\ L!Pruned \in Seq(L!Entries) /\ Unique(L!Pruned) /\ Within(L!Pruned, windows) /\ Len(L!Pruned) <= MaxWindows
      /\ \A i \in DOMAIN windows : ~L!Forgotten(windows[i]) => \E j \in DOMAIN L!Pruned : L!Pruned[j] = windows[i]
  BY <1>1, PrunedOK
<1>8. /\ \A i \in DOMAIN windows' :
            \/ windows'[i] = e
            \/ \E j \in DOMAIN L!Pruned : windows'[i] = L!Pruned[j] /\ L!Pruned[j].key # e.key
      /\ \E i \in DOMAIN windows' : windows'[i] = e
      /\ \A j \in DOMAIN L!Pruned : L!Pruned[j].key # e.key => \E i \in DOMAIN windows' : windows'[i] = L!Pruned[j]
  <2>1. e.key \in L!Keys(L!Pruned) \/ Len(L!Pruned) < MaxWindows
    <3>1. L!AfterRoom(key) = L!Pruned
      BY <1>3, RoomEnough
    <3> QED BY <1>1, <1>2, <3>1, AfterRoomOK
  <2>2. /\ \A i \in DOMAIN L!SetEntry(L!Pruned, e) :
              \/ L!SetEntry(L!Pruned, e)[i] = e
              \/ \E j \in DOMAIN L!Pruned : L!SetEntry(L!Pruned, e)[i] = L!Pruned[j] /\ L!Pruned[j].key # e.key
        /\ \E i \in DOMAIN L!SetEntry(L!Pruned, e) : L!SetEntry(L!Pruned, e)[i] = e
        /\ \A j \in DOMAIN L!Pruned : L!Pruned[j].key # e.key =>
              \E i \in DOMAIN L!SetEntry(L!Pruned, e) : L!SetEntry(L!Pruned, e)[i] = L!Pruned[j]
    BY <1>1, <1>7, <2>1, SetEntryOK
  <2> QED BY <1>6, <2>2
<1>9. AllPhases(log', windows', tick)
  <2> SUFFICES ASSUME NEW b \in L!Buckets
               PROVE  \E p, q \in Nat : \E t \in Int : Phases(b, log', windows', tick, p, q, t)
    BY DEF AllPhases
  <2>1. PICK p \in Nat, q \in Nat, t \in Int : Phases(b, log, windows, tick, p, q, t)
    BY <1>5 DEF AllPhases
  <2>2. CASE b # key
    <3>1. \A i \in DOMAIN windows' : windows'[i].key = b => \E j \in DOMAIN windows : windows'[i] = windows[j]
      BY <1>2, <1>7, <1>8, <2>2 DEF Within
    <3>2. \A j \in DOMAIN windows :
             windows[j].key = b /\ ~L!Forgotten(windows[j]) => \E i \in DOMAIN windows' : windows'[i] = windows[j]
      BY <1>2, <1>7, <1>8, <2>2
    <3>3. d.at = tick /\ log' = Append(log, d) /\ b # d.key
      BY <1>2, <2>2
    <3>4. Phases(b, log', windows', tick, p, q, t)
      BY <2>1, <3>1, <3>2, <3>3, OtherPhases
    <3> QED BY <3>4
  <2>3. CASE b = key
    <3>1. /\ d.at = tick /\ log' = Append(log, d) /\ b = d.key /\ e.key = d.key /\ e.start <= d.at
          /\ d.allowed <=> e.count <= L!MaxOf(d.key)
          /\ ~d.allowed => e.start + Window <= d.at + d.retry * Second
          /\ \E i \in DOMAIN windows' : windows'[i] = e
          /\ Phases(d.key, log, windows, tick, p, q, t)
      BY <1>2, <1>8, <2>1, <2>3
    <3>2. CASE \E i \in DOMAIN windows :
                  /\ windows[i].key = key /\ e.start = windows[i].start
                  /\ e.count = windows[i].count + 1
      <4>1. PICK i \in DOMAIN windows :
                  /\ windows[i].key = d.key /\ e.start = windows[i].start
                  /\ e.count = windows[i].count + 1
        BY <1>2, <3>2
      <4>2. Phases(d.key, log', windows', tick, p, q, t)
        BY <3>1, <4>1, CountedPhases
      <4> QED BY <3>1, <4>2
    <3>3. CASE /\ e.start = tick /\ e.count = 1
               /\ \A i \in DOMAIN windows : windows[i].key = key => tick - windows[i].start >= Window
      <4>1. /\ e.start = d.at /\ e.count = 1
            /\ \A i \in DOMAIN windows : windows[i].key = d.key => tick - windows[i].start >= Window
        BY <1>2, <3>3
      <4>2. Phases(d.key, log', windows', tick, q, Len(log) + 1, tick)
        BY <3>1, <4>1, FreshPhases
      <4>3. Len(log) + 1 \in Nat /\ tick \in Int
        BY <1>1 DEF LimiterInv, TimesOK
      <4> QED BY <3>1, <4>2, <4>3
    <3> QED BY <1>2, <3>2, <3>3
  <2> QED BY <2>2, <2>3
<1>10. BudgetOK(log')
  <2>1. \A k \in DOMAIN log : log[k].at <= d.at
    BY <1>1, <1>2 DEF LogOK
  <2>2. AllPhases(Append(log, d), windows', d.at)
    BY <1>2, <1>9
  <2>3. BudgetOK(Append(log, d))
    BY <1>1, <1>5, <2>1, <2>2, BudgetStep
  <2> QED BY <1>2, <2>3
<1> QED BY <1>9, <1>10

\* Time passes.
LEMMA BudgetTick ==
    ASSUME LimiterInv, BudgetInv, L!Tick
    PROVE  BudgetInv'
<1>1. /\ tick \in Nat /\ tick' = tick + 1 /\ windows' = windows /\ log' = log /\ Window \in Nat
  BY DEF L!Tick, L!limiterVars, LimiterInv, TimesOK, LimiterAssumption
<1> SUFFICES ASSUME FewBuckets(log) PROVE AllPhases(log, windows, tick') /\ BudgetOK(log)
  BY <1>1 DEF BudgetInv
<1>2. AllPhases(log, windows, tick) /\ BudgetOK(log)
  BY DEF BudgetInv
<1>3. ASSUME NEW key \in L!Buckets, NEW p \in Nat, NEW q \in Nat, NEW t \in Int,
             Phases(key, log, windows, tick, p, q, t)
      PROVE  Phases(key, log, windows, tick', p, q, t)
  <2>1. t <= tick' /\ (tick >= t + Window => tick' >= t + Window)
    <3>1. t <= tick
      BY <1>3 DEF Phases
    <3> QED BY <1>1, <3>1
  <2> QED BY <1>3, <2>1 DEF Phases
<1>4. AllPhases(log, windows, tick')
  BY <1>2, <1>3 DEF AllPhases
<1> QED BY <1>2, <1>4

-----------------------------------------------------------------------------
(* The theorems.                                                           *)

\* It holds initially, and every step keeps it.
LEMMA InitLimiter == LimiterAssumption /\ L!Init => LimiterInv
BY DEF L!Init, LimiterInv, LimiterAssumption, TimesOK, MapOK, LogOK, Unique, L!DeniedOnlyOverBudget, L!RetryAfterKept

LEMMA NextLimiter == LimiterInv /\ [L!Next]_(L!vars) => LimiterInv'
<1>1. ASSUME LimiterInv, UNCHANGED L!vars PROVE LimiterInv'
  BY SMTT(30), <1>1 DEF L!vars, L!limiterVars, LimiterInv, LimiterAssumption, TimesOK, MapOK, LogOK, Unique, Opened,
              L!DeniedOnlyOverBudget, L!RetryAfterKept, L!Granted
<1> QED BY <1>1, HitStep, TickStep DEF L!Next

\* The invariant holds in every reachable state of the limiter.
THEOREM LimiterInvariant ==
    ASSUME LimiterAssumption
    PROVE  L!Spec => []LimiterInv
BY InitLimiter, NextLimiter, PTL DEF L!Spec

LEMMA LimiterTypes == LimiterInv => L!TypeOK
BY DEF LimiterInv, TimesOK, MapOK, Unique, L!TypeOK

\* The Map holds a key once and never more than maxWindows entries (rate-limit.ts makeRoom).
THEOREM LimiterTyped ==
    ASSUME LimiterAssumption
    PROVE  L!Spec => []L!TypeOK
BY LimiterTypes, LimiterInvariant, PTL

LEMMA LimiterRefuses == LimiterInv => L!DeniedOnlyOverBudget /\ L!RetryAfterKept
BY DEF LimiterInv

\* Whoever is refused has been granted its whole budget within the last window, and one that
\* is refused again after the wait it was told has been granted its budget in the meantime,
\* whoever else made the limiter drop entries (rate-limit.ts hit).
THEOREM RefusalsAreFair ==
    ASSUME LimiterAssumption
    PROVE  L!Spec => [](L!DeniedOnlyOverBudget /\ L!RetryAfterKept)
BY LimiterRefuses, LimiterInvariant, PTL

LEMMA InitBudget == LimiterAssumption /\ L!Init => BudgetInv
<1> SUFFICES ASSUME LimiterAssumption, L!Init PROVE AllPhases(log, windows, tick) /\ BudgetOK(log)
  BY DEF BudgetInv
<1>1. log = <<>> /\ windows = <<>> /\ tick = 0 /\ Len(log) = 0 /\ DOMAIN log = {} /\ DOMAIN windows = {}
  BY DEF L!Init
<1>2. BudgetOK(log)
  BY <1>1 DEF BudgetOK
<1>3. ASSUME NEW key \in L!Buckets PROVE Phases(key, log, windows, tick, 0, 0, 0)
  <2>1. Grants(log, key, 0) = {} /\ Middle(log, key, 0, 0) = {}
    BY <1>1 DEF Grants, Middle
  <2>2. Cardinality({}) = 0 /\ L!MaxOf(key) \in Nat
    BY FS_EmptySet, Budgets
  <2> QED BY <1>1, <2>1, <2>2 DEF Phases
<1>4. AllPhases(log, windows, tick)
  BY <1>3 DEF AllPhases
<1> QED BY <1>2, <1>4

LEMMA NextBudget == LimiterInv /\ BudgetInv /\ [L!Next]_(L!vars) => BudgetInv'
<1>1. ASSUME BudgetInv, UNCHANGED L!vars PROVE BudgetInv'
  BY <1>1 DEF L!vars, L!limiterVars, BudgetInv
<1> QED BY <1>1, BudgetHit, BudgetTick DEF L!Next

LEMMA BudgetHeld == BudgetInv => L!BudgetHolds
BY BudgetPromise DEF BudgetInv

\* While every bucket that ever asked fits into the Map, no interval of timeWindowMs sees more
\* than twice the budget granted to one of them (rate-limit.ts hit, makeRoom).
THEOREM BudgetsAreKept ==
    ASSUME LimiterAssumption
    PROVE  L!Spec => []L!BudgetHolds
BY InitBudget, NextBudget, BudgetHeld, LimiterInvariant, PTL DEF L!Spec

-----------------------------------------------------------------------------
(* Client addresses.                                                       *)

\* Whatever a client claims and however many proxies it passes: the walk back along the list
\* ends at the client, before its own claims, or the list is ignored.
LEMMA AddressResolved ==
    ASSUME GatewayAssumption, NEW client \in Clients, NEW S, NEW claim \in Seq(S), NEW path \in Seq(Proxies)
    PROVE  LET sent == claim \o (IF path = <<>> THEN <<>> ELSE <<client>> \o Gate!Front(path))
               peer == IF path = <<>> THEN client ELSE Gate!Last(path)
           IN  Gate!ResolveClientAddress(peer, sent) \in {client} \cup Gate!ToSet(path)
<1> DEFINE sent == claim \o (IF path = <<>> THEN <<>> ELSE <<client>> \o Gate!Front(path))
           peer == IF path = <<>> THEN client ELSE Gate!Last(path)
           untrusted == {i \in DOMAIN sent : sent[i] \notin Proxies}
<1> SUFFICES Gate!ResolveClientAddress(peer, sent) \in {client} \cup Gate!ToSet(path)
  OBVIOUS
<1>1. CASE path = <<>>
  <2>1. peer = client /\ client \notin Proxies
    BY <1>1 DEF GatewayAssumption
  <2> HIDE DEF sent
  <2> QED BY <2>1 DEF Gate!ResolveClientAddress
<1>2. CASE path # <<>>
  <2> DEFINE n == Len(claim) + 1
             tail == <<client>> \o Gate!Front(path)
  <2>1. peer = Gate!Last(path) /\ Gate!Last(path) \in Gate!ToSet(path)
    BY <1>2 DEF Gate!Last, Gate!ToSet
  <2>2. /\ Gate!Front(path) \in Seq(Proxies) /\ Len(Gate!Front(path)) \in Nat
    BY <1>2 DEF Gate!Front
  <2>3. /\ Len(tail) = Len(Gate!Front(path)) + 1 /\ tail[1] = client
        /\ \A i \in 2 .. (Len(Gate!Front(path)) + 1) : tail[i] \in Proxies
        /\ tail \in Seq(Proxies \cup {client})
    BY <2>2
  <2> HIDE DEF tail
  <2>4. /\ Len(sent) = Len(claim) + Len(tail) /\ DOMAIN sent = 1 .. (Len(claim) + Len(tail))
        /\ \A i \in 1 .. (Len(claim) + Len(tail)) : i > Len(claim) => sent[i] = tail[i - Len(claim)]
    <3>1. sent = claim \o tail
      BY <1>2 DEF tail
    <3>2. claim \in Seq(S \cup Proxies \cup {client}) /\ tail \in Seq(S \cup Proxies \cup {client})
      BY <2>3
    <3> HIDE DEF sent
    <3> QED BY <3>1, <3>2, ConcatProperties
  <2> HIDE DEF sent
  <2>5. n \in DOMAIN sent /\ sent[n] = client
    BY SMTT(30), <2>2, <2>3, <2>4
  <2>6. \A i \in DOMAIN sent : i > n => sent[i] \in Proxies
    <3> SUFFICES ASSUME NEW i \in DOMAIN sent, i > n PROVE sent[i] \in Proxies
      OBVIOUS
    <3>1. i - Len(claim) \in 2 .. (Len(Gate!Front(path)) + 1) /\ sent[i] = tail[i - Len(claim)]
      BY SMTT(30), <2>2, <2>3, <2>4
    <3> QED BY <2>3, <3>1
  <2>7. n \in untrusted /\ \A j \in untrusted : j <= n
    BY <2>4, <2>5, <2>6 DEF GatewayAssumption
  <2>8. untrusted \subseteq Int /\ n \in Int
    BY <2>4, <2>7
  <2> HIDE DEF untrusted, n
  <2>9. (CHOOSE i \in untrusted : \A j \in untrusted : j <= i) = n
    <3>1. \A i \in untrusted : (\A j \in untrusted : j <= i) => i = n
      BY <2>7, <2>8
    <3> QED BY <2>7, <3>1
  <2>10. untrusted # {}
    BY <2>7
  <2>11. sent[CHOOSE i \in untrusted : \A j \in untrusted : j <= i] = client
    BY <2>5, <2>9
  <2> HIDE DEF peer
  <2>12. CASE peer = Gate!Unresolved
    BY <2>1, <2>12 DEF Gate!ResolveClientAddress
  <2>13. CASE peer # Gate!Unresolved /\ (peer \notin Proxies \/ sent = <<>> \/ Junk \in Gate!ToSet(sent))
    BY <2>1, <2>13 DEF Gate!ResolveClientAddress
  <2>14. CASE peer # Gate!Unresolved /\ ~(peer \notin Proxies \/ sent = <<>> \/ Junk \in Gate!ToSet(sent))
    BY <2>10, <2>11, <2>14 DEF Gate!ResolveClientAddress, untrusted
  <2> QED BY <2>12, <2>13, <2>14
<1> QED BY <1>1, <1>2

-----------------------------------------------------------------------------
(* Changes of a request, and its lists of addresses.                      *)

Statuses == {0, 200, 400, 404, 413, 429, 500, 503}

Answered(q, status, cache) == [q EXCEPT !.pc = "replied", !.status = status, !.cache = cache]
Interrupted(q, status, cache) ==
    [q EXCEPT !.pc = "replied", !.status = status, !.cache = cache, !.cut = TRUE]
Begun(q, route, client, hops, address) ==
    [q EXCEPT !.pc = "dispatch", !.route = route, !.origin = client, !.hops = hops, !.address = address]
Rendered(q, route) == [q EXCEPT !.pc = "dispatch", !.route = route, !.inProcess = TRUE]
Marked(q, cut) == [q EXCEPT !.cut = cut]
Inside(q, inProcess) == [q EXCEPT !.inProcess = inProcess]

\* What a change of a request keeps and sets, field by field.
LEMMA MarkedOK ==
    ASSUME NEW q \in Gate!Requests, NEW cut \in BOOLEAN
    PROVE  LET r == Marked(q, cut)
           IN  /\ r \in Gate!Requests
               /\ r.pc = q.pc /\ r.cache = q.cache /\ r.route = q.route /\ r.origin = q.origin
               /\ r.hops = q.hops /\ r.address = q.address /\ r.inProcess = q.inProcess
BY DEF Gate!Requests, Marked

LEMMA InsideOK ==
    ASSUME NEW q \in Gate!Requests, NEW inProcess \in BOOLEAN
    PROVE  LET r == Inside(q, inProcess)
           IN  r \in Gate!Requests /\ r.pc = q.pc /\ r.inProcess = inProcess
BY DEF Gate!Requests, Inside

LEMMA AnsweredOK ==
    ASSUME NEW q \in Gate!Requests, NEW status \in Statuses, NEW cache \in BOOLEAN
    PROVE  LET r == Answered(q, status, cache)
           IN  /\ r \in Gate!Requests
               /\ r.pc = "replied" /\ r.cache = cache
               /\ r.route = q.route /\ r.origin = q.origin /\ r.hops = q.hops
               /\ r.address = q.address /\ r.inProcess = q.inProcess
<1> DEFINE q1 == [q EXCEPT !.pc = "replied"]
           q2 == [q1 EXCEPT !.status = status]
           r == [q2 EXCEPT !.cache = cache]
<1>0. r = Answered(q, status, cache)
  BY DEF Answered
<1>1. q1 \in Gate!Requests 
  BY DEF Gate!Requests
<1>2. /\ q1.route = q.route /\ q1.origin = q.origin /\ q1.hops = q.hops
      /\ q1.address = q.address /\ q1.inProcess = q.inProcess /\ q1.pc = "replied"
  BY DEF Gate!Requests
<1> HIDE DEF q1
<1>3. q2 \in Gate!Requests
  BY <1>1 DEF Gate!Requests, Statuses
<1>4. /\ q2.route = q1.route /\ q2.origin = q1.origin /\ q2.hops = q1.hops
      /\ q2.address = q1.address /\ q2.inProcess = q1.inProcess /\ q2.pc = q1.pc
  BY <1>1 DEF Gate!Requests
<1> HIDE DEF q2
<1>5. r \in Gate!Requests
  BY <1>3 DEF Gate!Requests
<1>6. /\ r.route = q2.route /\ r.origin = q2.origin /\ r.hops = q2.hops
      /\ r.address = q2.address /\ r.inProcess = q2.inProcess /\ r.pc = q2.pc /\ r.cache = cache
  BY <1>3 DEF Gate!Requests
<1> HIDE DEF r
<1> QED BY <1>0, <1>2, <1>4, <1>5, <1>6

LEMMA InterruptedOK ==
    ASSUME NEW q \in Gate!Requests, NEW status \in Statuses, NEW cache \in BOOLEAN
    PROVE  LET r == Interrupted(q, status, cache)
           IN  /\ r \in Gate!Requests
               /\ r.pc = "replied" /\ r.cache = cache
               /\ r.route = q.route /\ r.origin = q.origin /\ r.hops = q.hops
               /\ r.address = q.address /\ r.inProcess = q.inProcess
<1> DEFINE p == Answered(q, status, cache)
<1>1. Interrupted(q, status, cache) = Marked(p, TRUE)
  BY DEF Interrupted, Answered, Marked
<1>2. /\ p \in Gate!Requests
      /\ p.pc = "replied" /\ p.cache = cache
      /\ p.route = q.route /\ p.origin = q.origin /\ p.hops = q.hops
      /\ p.address = q.address /\ p.inProcess = q.inProcess
  BY AnsweredOK
<1> DEFINE r == Marked(p, TRUE)
<1>3. TRUE \in BOOLEAN
  OBVIOUS
<1> HIDE DEF p
<1>4. /\ r \in Gate!Requests
      /\ r.pc = p.pc /\ r.cache = p.cache /\ r.route = p.route /\ r.origin = p.origin
      /\ r.hops = p.hops /\ r.address = p.address /\ r.inProcess = p.inProcess
  BY <1>2, <1>3, MarkedOK
<1> HIDE DEF r
<1> QED BY <1>1, <1>2, <1>4 DEF r

LEMMA BegunOK ==
    ASSUME NEW q \in Gate!Requests, NEW route \in Gate!Routes, NEW client \in Gate!Addresses, NEW hops \in SUBSET Proxies,
           NEW address \in Gate!Addresses
    PROVE  LET r == Begun(q, route, client, hops, address)
           IN  /\ r \in Gate!Requests
               /\ r.pc = "dispatch" /\ r.route = route /\ r.origin = client /\ r.hops = hops
               /\ r.address = address /\ r.inProcess = q.inProcess
<1> DEFINE q1 == [q EXCEPT !.pc = "dispatch"]
           q2 == [q1 EXCEPT !.route = route]
           q3 == [q2 EXCEPT !.origin = client]
           q4 == [q3 EXCEPT !.hops = hops]
           r == [q4 EXCEPT !.address = address]
<1>0. r = Begun(q, route, client, hops, address)
  BY DEF Begun
<1>1. q1 \in Gate!Requests /\ q1.pc = "dispatch" /\ q1.inProcess = q.inProcess
  BY DEF Gate!Requests
<1> HIDE DEF q1
<1>2. q2 \in Gate!Requests /\ q2.pc = q1.pc /\ q2.inProcess = q1.inProcess /\ q2.route = route
  BY <1>1 DEF Gate!Requests
<1> HIDE DEF q2
<1>3. q3 \in Gate!Requests /\ q3.pc = q2.pc /\ q3.inProcess = q2.inProcess /\ q3.route = q2.route /\ q3.origin = client
  BY <1>2 DEF Gate!Requests
<1> HIDE DEF q3
<1>4. q4 \in Gate!Requests /\ q4.pc = q3.pc /\ q4.inProcess = q3.inProcess /\ q4.route = q3.route
      /\ q4.origin = q3.origin /\ q4.hops = hops
  BY <1>3 DEF Gate!Requests
<1> HIDE DEF q4
<1>5. r \in Gate!Requests /\ r.pc = q4.pc /\ r.inProcess = q4.inProcess /\ r.route = q4.route
      /\ r.origin = q4.origin /\ r.hops = q4.hops /\ r.address = address
  BY <1>4 DEF Gate!Requests
<1> HIDE DEF r
<1> QED BY <1>0, <1>1, <1>2, <1>3, <1>4, <1>5

LEMMA RenderedOK ==
    ASSUME NEW q \in Gate!Requests, NEW route \in Gate!Routes
    PROVE  LET r == Rendered(q, route)
           IN  r \in Gate!Requests /\ r.pc = "dispatch" /\ r.inProcess
<1> DEFINE q1 == [q EXCEPT !.pc = "dispatch"]
           q2 == [q1 EXCEPT !.route = route]
<1>1. Rendered(q, route) = Inside(q2, TRUE)
  BY DEF Rendered, Inside
<1>2. q1 \in Gate!Requests /\ q1.pc = "dispatch"
  BY DEF Gate!Requests
<1> HIDE DEF q1
<1>3. q2 \in Gate!Requests /\ q2.pc = q1.pc
  BY <1>2 DEF Gate!Requests
<1> HIDE DEF q2
<1> QED BY <1>1, <1>2, <1>3, InsideOK

\* The lists of addresses that the actions choose from.
LEMMA ListsOK ==
    ASSUME NEW claim \in Gate!Claims, NEW path \in Gate!Paths
    PROVE  claim \in Seq(Clients \cup Proxies \cup {Junk}) /\ path \in Seq(Proxies)
<1>1. claim \in Seq(Clients \cup Proxies \cup {Junk})
  <2>1. CASE claim = <<>>
    BY <2>1
  <2>2. CASE claim \in {<<a>> : a \in Clients \cup Proxies \cup {Junk}}
    <3>1. PICK a \in Clients \cup Proxies \cup {Junk} : claim = <<a>>
      BY <2>2
    <3> QED BY <3>1
  <2> QED BY <2>1, <2>2 DEF Gate!Claims
<1>2. path \in Seq(Proxies)
  <2>1. CASE path = <<>>
    BY <2>1
  <2>2. CASE path \in {<<p>> : p \in Proxies}
    <3>1. PICK p \in Proxies : path = <<p>>
      BY <2>2
    <3> QED BY <3>1
  <2>3. CASE path \in {<<p, q>> : p, q \in Proxies}
    <3>1. PICK p \in Proxies, q \in Proxies : path = <<p, q>>
      BY <2>3
    <3> QED BY <3>1
  <2> QED BY <2>1, <2>2, <2>3 DEF Gate!Paths
<1> QED BY <1>1, <1>2

-----------------------------------------------------------------------------
(* A request.                                                              *)

GatewayInv == GatewayAssumption /\ request \in Gate!Requests /\ Gate!AddressNotChosen /\ Gate!CacheControlAlways

\* A step that only replies, or goes on, keeps whose request it is.
LEMMA GoesOn ==
    ASSUME GatewayInv, NEW q \in Gate!Requests, request' = q, request.pc # "none",
           q.route = request.route, q.origin = request.origin, q.hops = request.hops, q.address = request.address,
           q.inProcess = request.inProcess, q.pc = "replied" => q.cache = Gate!CacheControl(q.route)
    PROVE  GatewayInv'
BY DEF GatewayInv, GatewayAssumption, Gate!AddressNotChosen, Gate!CacheControlAlways

LEMMA RepliedOK ==
    ASSUME GatewayInv, NEW status \in {0, 200, 400, 404, 413, 429, 500, 503}, request.pc # "none",
           Gate!Replied(status, Gate!CacheControl(request.route))
    PROVE  GatewayInv'
<1> DEFINE q == Answered(request, status, Gate!CacheControl(request.route))
<1>1. request \in Gate!Requests /\ Gate!CacheControl(request.route) \in BOOLEAN /\ status \in Statuses
  BY DEF GatewayInv, Gate!CacheControl, Statuses
<1>2. /\ q \in Gate!Requests /\ q.route = request.route /\ q.origin = request.origin /\ q.hops = request.hops
      /\ q.address = request.address /\ q.inProcess = request.inProcess /\ q.cache = Gate!CacheControl(request.route)
  BY <1>1, AnsweredOK
<1>3. request' = q
  BY DEF Gate!Replied, Answered
<1> HIDE DEF q
<1> QED BY <1>2, <1>3, GoesOn

LEMMA InterruptedStep ==
    ASSUME GatewayInv, request.pc # "none", request' = Interrupted(request, 413, Gate!CacheControl(request.route))
    PROVE  GatewayInv'
<1> DEFINE q == Interrupted(request, 413, Gate!CacheControl(request.route))
<1>1. request \in Gate!Requests /\ Gate!CacheControl(request.route) \in BOOLEAN /\ 413 \in Statuses
  BY DEF GatewayInv, Gate!CacheControl, Statuses
<1>2. /\ q \in Gate!Requests /\ q.route = request.route /\ q.origin = request.origin /\ q.hops = request.hops
      /\ q.address = request.address /\ q.inProcess = request.inProcess /\ q.cache = Gate!CacheControl(request.route)
  BY <1>1, InterruptedOK
<1>3. request' = q
  OBVIOUS
<1> HIDE DEF q
<1> QED BY <1>2, <1>3, GoesOn

\* No request, and a request that begins.
LEMMA NoRequestOK ==
    ASSUME GatewayAssumption
    PROVE  Gate!NoRequest \in Gate!Requests
BY DEF GatewayAssumption, Gate!NoRequest, Gate!Requests, Gate!Routes, Gate!Addresses

LEMMA ArriveStep ==
    ASSUME GatewayInv, NEW route \in Gate!Routes, NEW client \in Clients, NEW claim \in Gate!Claims, NEW path \in Gate!Paths,
           Gate!Arrive(route, client, claim, path)
    PROVE  GatewayInv'
<1> DEFINE sent == claim \o (IF path = <<>> THEN <<>> ELSE <<client>> \o Gate!Front(path))
           peer == IF path = <<>> THEN client ELSE Gate!Last(path)
           address == Gate!ResolveClientAddress(peer, sent)
           now == Begun(Gate!NoRequest, route, client, Gate!ToSet(path), address)
           refused == Answered(now, 429, Gate!CacheControl(route))
<1>1. request' \in {now, refused}
  BY DEF Gate!Arrive, Begun, Answered
<1>2. claim \in Seq(Clients \cup Proxies \cup {Junk}) /\ path \in Seq(Proxies)
  BY ListsOK
<1>3. address \in {client} \cup Gate!ToSet(path)
  BY <1>2, AddressResolved DEF GatewayInv
<1>4. Gate!ToSet(path) \subseteq Proxies
  BY <1>2 DEF Gate!ToSet
<1>5. address \in Gate!Addresses
  BY <1>3, <1>4 DEF Gate!Addresses
<1>6. GatewayAssumption /\ Gate!NoRequest \in Gate!Requests /\ client \in Gate!Addresses /\ Gate!NoRequest.inProcess = FALSE
  BY NoRequestOK DEF GatewayInv, Gate!Addresses, Gate!NoRequest
<1> HIDE DEF address
<1>7. /\ now \in Gate!Requests /\ now.pc = "dispatch" /\ now.origin = client /\ now.hops = Gate!ToSet(path)
      /\ now.address = address /\ now.route = route
  BY <1>4, <1>5, <1>6, BegunOK
<1> HIDE DEF now
<1>8. /\ refused \in Gate!Requests /\ refused.pc = "replied" /\ refused.origin = client /\ refused.hops = Gate!ToSet(path)
      /\ refused.address = address /\ refused.route = route /\ refused.cache = Gate!CacheControl(route)
  <2>1. Gate!CacheControl(route) \in BOOLEAN /\ 429 \in Statuses
    BY DEF Gate!CacheControl, Statuses
  <2> QED BY <1>7, <2>1, AnsweredOK
<1> HIDE DEF refused
<1> QED BY <1>1, <1>3, <1>6, <1>7, <1>8 DEF GatewayInv, GatewayAssumption, Gate!AddressNotChosen, Gate!CacheControlAlways

LEMMA ArriveInProcessStep ==
    ASSUME GatewayInv, NEW route \in Gate!Routes, Gate!ArriveInProcess(route)
    PROVE  GatewayInv'
<1>1. GatewayAssumption /\ Gate!NoRequest \in Gate!Requests
  BY NoRequestOK DEF GatewayInv
<1>2. request' = Rendered(Gate!NoRequest, route)
  BY DEF Gate!ArriveInProcess, Rendered
<1>3. request' \in Gate!Requests /\ request'.pc = "dispatch" /\ request'.inProcess
  BY <1>1, <1>2, RenderedOK
<1> QED BY <1>1, <1>3 DEF GatewayInv, GatewayAssumption, Gate!AddressNotChosen, Gate!CacheControlAlways

LEMMA DispatchStep ==
    ASSUME GatewayInv, NEW declared, Gate!Dispatch(declared)
    PROVE  GatewayInv'
<1>1. request \in Gate!Requests /\ request.pc = "dispatch" /\ Gate!CacheControl(request.route) \in BOOLEAN
  BY DEF GatewayInv, Gate!Dispatch, Gate!CacheControl
<1>2. CASE request.route = "unregistered"
  <2>1. Gate!Replied(404, FALSE)
    BY <1>2 DEF Gate!Dispatch
  <2>2. Gate!CacheControl(request.route) = FALSE
    BY <1>2 DEF Gate!CacheControl
  <2>3. Gate!Replied(404, Gate!CacheControl(request.route))
    BY <2>1, <2>2 DEF Gate!Replied
  <2> QED BY <1>1, <2>3, RepliedOK
<1>3. CASE request.route # "unregistered"
  <2> DEFINE cut == Interrupted(request, 413, Gate!CacheControl(request.route))
             reading == [request EXCEPT !.pc = "reading"]
             handling == [request EXCEPT !.pc = "handling"]
  <2>1. request' \in {cut, reading, handling}
    BY <1>3 DEF Gate!Dispatch, Interrupted
  <2>3. \A q \in {reading, handling} :
           /\ q \in Gate!Requests /\ q.route = request.route /\ q.origin = request.origin /\ q.hops = request.hops
           /\ q.address = request.address /\ q.inProcess = request.inProcess /\ q.pc # "replied"
    BY <1>1 DEF Gate!Requests
  <2>4. CASE request' = cut
    BY <1>1, <2>4, InterruptedStep
  <2> HIDE DEF cut, reading, handling
  <2>5. CASE request' \in {reading, handling}
    BY <1>1, <2>3, <2>5, GoesOn
  <2> QED BY <2>1, <2>4, <2>5
<1> QED BY <1>2, <1>3

LEMMA ReadChunkStep ==
    ASSUME GatewayInv, Gate!ReadChunk
    PROVE  GatewayInv'
<1>1. request \in Gate!Requests /\ request.pc = "reading" /\ Gate!CacheControl(request.route) \in BOOLEAN /\ BodyLimit \in Nat
  BY DEF GatewayInv, GatewayAssumption, Gate!ReadChunk, Gate!CacheControl
<1>2. CASE request.read + 1 > BodyLimit
  <2>1. request' = Interrupted(request, 413, Gate!CacheControl(request.route))
    BY <1>2 DEF Gate!ReadChunk, Gate!MapError, Interrupted
  <2> QED BY <1>1, <2>1, InterruptedStep
<1>3. CASE ~(request.read + 1 > BodyLimit)
  <2> DEFINE more == [request EXCEPT !.read = @ + 1]
  <2>1. request' = more
    BY <1>3 DEF Gate!ReadChunk
  <2>2. request.read \in 0 .. BodyLimit /\ request.read + 1 \in 0 .. BodyLimit
    BY <1>1, <1>3 DEF Gate!Requests
  <2>3. /\ more \in Gate!Requests /\ more.route = request.route /\ more.origin = request.origin /\ more.hops = request.hops
        /\ more.address = request.address /\ more.inProcess = request.inProcess /\ more.pc # "replied"
    BY <1>1, <2>2 DEF Gate!Requests
  <2> HIDE DEF more
  <2> QED BY <1>1, <2>1, <2>3, GoesOn
<1> QED BY <1>2, <1>3

LEMMA BodyEndsStep ==
    ASSUME GatewayInv, NEW parses \in BOOLEAN, Gate!BodyEnds(parses)
    PROVE  GatewayInv'
<1>1. request \in Gate!Requests /\ request.pc = "reading"
  BY DEF GatewayInv, Gate!BodyEnds
<1>2. CASE request.read > 0 /\ ~parses
  <2>1. Gate!Replied(400, Gate!CacheControl(request.route))
    BY <1>2 DEF Gate!BodyEnds
  <2> QED BY <1>1, <2>1, RepliedOK
<1>3. CASE ~(request.read > 0 /\ ~parses)
  <2> DEFINE handling == [request EXCEPT !.pc = "handling"]
  <2>1. request' = handling
    BY <1>3 DEF Gate!BodyEnds
  <2>2. /\ handling \in Gate!Requests /\ handling.route = request.route /\ handling.origin = request.origin
        /\ handling.hops = request.hops /\ handling.address = request.address
        /\ handling.inProcess = request.inProcess /\ handling.pc # "replied"
    BY <1>1 DEF Gate!Requests
  <2> HIDE DEF handling
  <2> QED BY <1>1, <2>1, <2>2, GoesOn
<1> QED BY <1>2, <1>3

\* The handler, whichever way it ends.
LEMMA HandlerStep ==
    ASSUME GatewayInv,
           \/ Gate!Invalid
           \/ \E error \in Gate!Errors : Gate!HandlerThrows(error)
           \/ \E status \in {200, 400, 404, 503} : Gate!HandlerReturns(status)
    PROVE  GatewayInv'
<1>1. CASE Gate!Invalid
  BY <1>1, RepliedOK DEF Gate!Invalid
<1>2. ASSUME NEW error \in Gate!Errors, Gate!HandlerThrows(error) PROVE GatewayInv'
  <2>1. Gate!MapError(error) \in {400, 404, 413, 500, 503}
    BY DEF Gate!MapError
  <2> QED BY <1>2, <2>1, RepliedOK DEF Gate!HandlerThrows
<1>3. ASSUME NEW status \in {200, 400, 404, 503}, Gate!HandlerReturns(status) PROVE GatewayInv'
  BY <1>3, RepliedOK DEF Gate!HandlerReturns
<1> QED BY <1>1, <1>2, <1>3

LEMMA FlushStep ==
    ASSUME GatewayInv, Gate!Flush
    PROVE  GatewayInv'
<1>1. request' = Gate!NoRequest /\ Gate!NoRequest \in Gate!Requests /\ Gate!NoRequest.pc = "none"
  BY NoRequestOK DEF GatewayInv, Gate!Flush, Gate!NoRequest
<1> QED BY <1>1 DEF GatewayInv, GatewayAssumption, Gate!AddressNotChosen, Gate!CacheControlAlways

LEMMA InitGateway == GatewayAssumption /\ Gate!Init => GatewayInv
BY NoRequestOK DEF Gate!Init, GatewayInv, Gate!AddressNotChosen, Gate!CacheControlAlways, Gate!NoRequest

LEMMA NextGateway == GatewayInv /\ [Gate!Next]_(Gate!vars) => GatewayInv'
<1>1. ASSUME GatewayInv, UNCHANGED request PROVE GatewayInv'
  BY <1>1 DEF GatewayInv, GatewayAssumption, Gate!AddressNotChosen, Gate!CacheControlAlways
<1>2. ASSUME GatewayInv, UNCHANGED Gate!vars \/ Gate!Tick PROVE GatewayInv'
  BY <1>1, <1>2 DEF Gate!vars, Gate!Tick
<1> QED BY <1>2, ArriveStep, ArriveInProcessStep, DispatchStep, ReadChunkStep, BodyEndsStep,
           HandlerStep, FlushStep DEF Gate!Next

LEMMA GatewayHeld == GatewayInv => request \in Gate!Requests /\ Gate!AddressNotChosen /\ Gate!CacheControlAlways
BY DEF GatewayInv

\* A client does not choose the bucket it is counted in, whatever it writes into its header,
\* a body stays within its limit, and every reply, of whichever layer, carries the caching
\* rule of its route (clientAddress.ts, body-limit.ts, dispatch.ts).
THEOREM GatewayIsSafe ==
    ASSUME GatewayAssumption
    PROVE  Gate!Spec => [](request \in Gate!Requests /\ Gate!AddressNotChosen /\ Gate!CacheControlAlways)
BY InitGateway, NextGateway, GatewayHeld, PTL DEF Gate!Spec

-----------------------------------------------------------------------------
(* The API server.                                                         *)

\* The limiter of the gateway is L.
LEMMA SameLimiter ==
    /\ Gate!Limiter!Init <=> L!Init
    /\ Gate!Limiter!TypeOK <=> L!TypeOK
    /\ Gate!Limiter!Tick <=> L!Tick
    /\ \A key : Gate!Limiter!Hit(key) <=> L!Hit(key)
<1>1. \A S : Gate!Limiter!Cardinality(S) = L!Cardinality(S)
  BY DEF Gate!Limiter!Cardinality, L!Cardinality
<1>2. \A S, k : Gate!Limiter!Nth(S, k) = L!Nth(S, k)
  BY <1>1 DEF Gate!Limiter!Nth, L!Nth
<1>3. \A w : Gate!Limiter!Forgotten(w) <=> L!Forgotten(w)
  BY DEF Gate!Limiter!Forgotten, L!Forgotten
<1>4. \A ws : Gate!Limiter!Recent(ws) = L!Recent(ws)
  BY <1>1, <1>2, <1>3 DEF Gate!Limiter!Recent, L!Recent
<1>5. \A ws : Gate!Limiter!MakeRoom(ws) = L!MakeRoom(ws)
  BY <1>4 DEF Gate!Limiter!MakeRoom, L!MakeRoom
<1>6. \A ws : Gate!Limiter!Keys(ws) = L!Keys(ws)
  BY DEF Gate!Limiter!Keys, L!Keys
<1>7. \A ws, key : Gate!Limiter!EntryOf(ws, key) = L!EntryOf(ws, key)
  BY DEF Gate!Limiter!EntryOf, L!EntryOf
<1>8. \A ws, key : Gate!Limiter!Counted(ws, key) = L!Counted(ws, key)
  BY <1>6, <1>7 DEF Gate!Limiter!Counted, L!Counted
<1>9. \A ws, entry : Gate!Limiter!SetEntry(ws, entry) = L!SetEntry(ws, entry)
  BY <1>6 DEF Gate!Limiter!SetEntry, L!SetEntry
<1>10. Gate!Limiter!Pruned = L!Pruned
  BY <1>4 DEF Gate!Limiter!Pruned, L!Pruned
<1>11. \A key : Gate!Limiter!AfterRoom(key) = L!AfterRoom(key)
  BY <1>5, <1>6, <1>10 DEF Gate!Limiter!AfterRoom, L!AfterRoom
<1>12. \A entry : Gate!Limiter!RetryAfter(entry) = L!RetryAfter(entry)
  BY DEF Gate!Limiter!RetryAfter, L!RetryAfter
<1>13. \A key : Gate!Limiter!MaxOf(key) = L!MaxOf(key)
  BY DEF Gate!Limiter!MaxOf, L!MaxOf
<1>14. \A key : Gate!Limiter!Hit(key) <=> L!Hit(key)
  BY <1>8, <1>9, <1>10, <1>11, <1>12, <1>13 DEF Gate!Limiter!Hit, L!Hit
<1>15. Gate!Limiter!Init <=> L!Init
  BY DEF Gate!Limiter!Init, L!Init
<1>16. Gate!Limiter!Tick <=> L!Tick
  BY DEF Gate!Limiter!Tick, L!Tick, Gate!Limiter!limiterVars, L!limiterVars
<1>17. Gate!Limiter!Entries = L!Entries
  BY DEF Gate!Limiter!Entries, L!Entries, Gate!Limiter!Buckets, L!Buckets, Scopes, Addresses
<1>18. Gate!Limiter!TypeOK <=> L!TypeOK
  BY <1>17 DEF Gate!Limiter!TypeOK, L!TypeOK
<1> QED BY <1>14, <1>15, <1>16, <1>18

\* A request meets the limiter at most once, with the bucket of its address.
LEMMA GatewayLimits ==
    ASSUME GatewayInv, Gate!Next
    PROVE  [L!Next]_(L!vars)
<1>1. ASSUME Gate!Unlimited PROVE [L!Next]_(L!vars)
  BY <1>1 DEF Gate!Unlimited, L!vars, L!limiterVars
<1>2. ASSUME NEW route \in Gate!Routes, NEW client \in Clients, NEW claim \in Gate!Claims, NEW path \in Gate!Paths,
             Gate!Arrive(route, client, claim, path)
      PROVE  [L!Next]_(L!vars)
  <2> DEFINE sent == claim \o (IF path = <<>> THEN <<>> ELSE <<client>> \o Gate!Front(path))
             peer == IF path = <<>> THEN client ELSE Gate!Last(path)
             address == Gate!ResolveClientAddress(peer, sent)
             key == Gate!RateLimitBucketKey(route, address)
  <2>1. claim \in Seq(Clients \cup Proxies \cup {Junk}) /\ path \in Seq(Proxies)
    BY ListsOK
  <2>2. address \in {client} \cup Gate!ToSet(path)
    BY <2>1, AddressResolved DEF GatewayInv
  <2>3. Gate!ToSet(path) \subseteq Proxies
    BY <2>1 DEF Gate!ToSet
  <2>4. address \in Addresses
    BY <2>2, <2>3 DEF Addresses, Gate!Addresses
  <2> HIDE DEF address
  <2>5. CASE Gate!RateLimit(route) = "none"
    <3>1. Gate!Unlimited
      BY <1>2, <2>5 DEF Gate!Arrive
    <3> QED BY <1>1, <3>1
  <2>6. CASE Gate!RateLimit(route) # "none"
    <3>1. Gate!Limiter!Hit(key) /\ UNCHANGED tick
      BY <1>2, <2>6 DEF Gate!Arrive, address
    <3>2. (IF Gate!RateLimit(route) = "shared" THEN "default" ELSE route) \in Scopes
      BY <2>6 DEF Gate!RateLimit, Scopes, Gate!Routes
    <3>3. key \in L!Buckets
      BY <2>4, <3>2 DEF Gate!RateLimitBucketKey, L!Buckets
    <3> QED BY <3>1, <3>3, SameLimiter DEF L!Next
  <2> QED BY <2>5, <2>6
<1>3. ASSUME Gate!Tick PROVE [L!Next]_(L!vars)
  BY <1>3, SameLimiter DEF Gate!Tick, L!Next
<1>4. /\ \A route : Gate!ArriveInProcess(route) => Gate!Unlimited
      /\ \A declared : Gate!Dispatch(declared) => Gate!Unlimited
      /\ Gate!ReadChunk \/ Gate!Invalid \/ Gate!Flush => Gate!Unlimited
      /\ \A parses : Gate!BodyEnds(parses) => Gate!Unlimited
      /\ \A error : Gate!HandlerThrows(error) => Gate!Unlimited
      /\ \A status : Gate!HandlerReturns(status) => Gate!Unlimited
  BY Zenon DEF Gate!ArriveInProcess, Gate!Dispatch, Gate!ReadChunk, Gate!Invalid, Gate!Flush, Gate!BodyEnds,
               Gate!HandlerThrows, Gate!HandlerReturns
<1>5. \/ \E route \in Gate!Routes, c \in Clients, claim \in Gate!Claims, path \in Gate!Paths :
            Gate!Arrive(route, c, claim, path)
      \/ Gate!Unlimited
      \/ Gate!Tick
  BY <1>4 DEF Gate!Next
<1> QED BY <1>1, <1>2, <1>3, <1>5

\* The invariants of the parts.
ApiInv ==
    /\ part \in {"limiter", "gateway"} => LimiterInv /\ BudgetInv
    /\ part = "gateway" => GatewayInv
    /\ part = "payloads" => PayloadInv

LEMMA InitApi == ApiInit => ApiInv
<1> SUFFICES ASSUME ApiInit PROVE ApiInv
  OBVIOUS
<1>1. L!Init
  BY SameLimiter DEF ApiInit, Gate!Init
<1> QED BY <1>1, ApiConstants, InitLimiter, InitBudget, InitGateway, InitPayload DEF ApiInit, ApiInv

LEMMA NextApi == ApiInv /\ [ApiNext /\ UNCHANGED part]_allVars => ApiInv'
<1> SUFFICES ASSUME ApiInv, [ApiNext /\ UNCHANGED part]_allVars PROVE ApiInv'
  OBVIOUS
<1>1. part' = part
  BY DEF allVars
<1>2. CASE part = "limiter"
  <2>1. [L!Next]_(L!vars)
    BY <1>2 DEF ApiNext, allVars, limiterVars, L!vars, L!limiterVars
  <2> QED BY <1>1, <1>2, <2>1, NextLimiter, NextBudget DEF ApiInv
<1>3. CASE part = "gateway"
  <2>1. Gate!Next \/ UNCHANGED <<tick, windows, lastPrune, log, request>>
    BY <1>3 DEF ApiNext, allVars, limiterVars
  <2>2. [Gate!Next]_(Gate!vars)
    BY <2>1 DEF Gate!vars
  <2>3. [L!Next]_(L!vars)
    BY <1>3, <2>1, GatewayLimits DEF ApiInv, L!vars, L!limiterVars
  <2> QED BY <1>1, <1>3, <2>2, <2>3, NextLimiter, NextBudget, NextGateway DEF ApiInv
<1>4. CASE part = "payloads"
  <2>1. [V!Next]_(V!vars)
    BY <1>4 DEF ApiNext, allVars, payloadVars, V!vars
  <2> QED BY <1>1, <1>4, <2>1, NextPayload DEF ApiInv
<1> QED BY <1>1, <1>2, <1>3, <1>4 DEF ApiInv

\* The invariants hold in every reachable state of the server, whichever part it is about.
THEOREM ApiInvariance == ApiSpec => []ApiInv
BY InitApi, NextApi, PTL DEF ApiSpec

\* Nobody within its budget is refused and a budget is a budget, also when the requests come
\* through the middleware with whatever headers (rate-limit.ts, 01-rate-limit.ts).
THEOREM LimitsAreFair == ApiSpec => []LimiterFair
<1>1. ApiInv => LimiterFair
  BY LimiterTypes, LimiterRefuses, BudgetHeld DEF ApiInv, LimiterFair
<1> QED BY <1>1, ApiInvariance, PTL

\* A client does not choose its bucket, a body stays within its limit, and every reply
\* carries the caching rule of its route (clientAddress.ts, body-limit.ts, dispatch.ts).
THEOREM RequestsAreSafe == ApiSpec => []GatewaySafe
<1>1. ApiInv => GatewaySafe
  BY GatewayHeld, LimiterTypes, SameLimiter DEF ApiInv, GatewaySafe, Gate!TypeOK
<1> QED BY <1>1, ApiInvariance, PTL

\* Exit 0 of `xcs verify` means a bound payload, sent or fetched, and what `xcs payload check`
\* accepts is not rejected by the API (verification.ts, parseCredentialPayload).
THEOREM VerdictsAreBound == ApiSpec => []VerifiedMeansBound
<1>1. ApiInv => VerifiedMeansBound
  BY PayloadBound, PayloadPredicted DEF ApiInv, VerifiedMeansBound
<1> QED BY <1>1, ApiInvariance, PTL

\* Only public addresses are contacted, only whole bodies judged, and redirects and chunks
\* stay within their limits (fetchPinned, readLimited).
THEOREM FetchesAreContained == ApiSpec => []FetchContained
<1>1. ApiInv => FetchContained
  BY PayloadTypes, PayloadPublic, PayloadWhole DEF ApiInv, FetchContained
<1> QED BY <1>1, ApiInvariance, PTL
=============================================================================
