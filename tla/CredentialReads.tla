--------------------------- MODULE CredentialReads ---------------------------
(***************************************************************************)
(* The API's credential endpoints, on the tables CredentialProjection      *)
(* writes: a generation and its timeline, a tuple and its history, one     *)
(* event, a transaction and its pages, search by hash, and the statistics. *)
(*                                                                         *)
(* log is credential_events with the columns the endpoints check; its rows *)
(* are the events of CredentialProjection. The endpoints change nothing,   *)
(* so they are operators on the state, and a fault of the storage is a     *)
(* change of the rows an operator is given. A check that fails is the      *)
(* reply 503, INDEXER_EVIDENCE_INVALID.                                    *)
(***************************************************************************)
EXTENDS CredentialProjection, Sequences

CONSTANTS
    HistoryLimit,    \* CREDENTIAL_EVENT_HISTORY_LIMIT
    TimelineLimit,   \* CREDENTIAL_GENERATION_TIMELINE_LIMIT
    PageLimit        \* limit of a page of a transaction

\* A timeline has room for an event of each type.
ASSUME ReadConstants ==
    /\ HistoryLimit \in Nat \ {0} /\ PageLimit \in Nat \ {0}
    /\ TimelineLimit \in Nat /\ TimelineLimit >= Cardinality(EventTypes)

VARIABLE log

readVars == <<vars, log>>

-----------------------------------------------------------------------------
(* The rows of credential_events.                                          *)

\* The row of an event: flag and expiration are those of the affected node.
EventRow(e, node) ==
    [tx |-> e.tx, key |-> e.key, generation |-> e.generation, type |-> e.type,
     ledger |-> ledgerIndex, txIndex |-> txIndex, node |-> node,
     accepted |-> IF e.type = "deleted" THEN object[e.key].accepted ELSE object'[e.key].accepted,
     expiration |-> IF e.type = "deleted" THEN object[e.key].expiration
                    ELSE object'[e.key].expiration,
     cause |-> IF e.type = "deleted" THEN generation'[e.generation].cause ELSE "none"]

\* The index of a node in AffectedNodes: in any order, after one other node.
Numberings(new) ==
    {f \in [new -> 1 .. Cardinality(new)] : \A a, b \in new : a # b => f[a] # f[b]}

ReadInit == Init /\ log = {}

ReadNext ==
    /\ Next
    /\ LET new == events' \ events
       IN \E node \in Numberings(new) : log' = log \cup {EventRow(e, node[e]) : e \in new}

ReadSpec == ReadInit /\ [][ReadNext]_readVars

-----------------------------------------------------------------------------
(* Queries and checks.                                                     *)

\* ORDER BY ledger_index, transaction_index, node_index.
Earlier(a, b) ==
    \/ a.ledger < b.ledger
    \/ a.ledger = b.ledger /\ a.txIndex < b.txIndex
    \/ a.ledger = b.ledger /\ a.txIndex = b.txIndex /\ a.node < b.node

\* LIMIT n
Limited(rows, n) == SubSeq(rows, 1, IF Len(rows) < n THEN Len(rows) ELSE n)

\* The place of a row among others, from 0, and all of them in their places.
Place(r, rows) == Cardinality({s \in rows : Earlier(s, r)})
EventRows(rows) ==
    [i \in 1 .. Cardinality(rows) |-> CHOOSE r \in rows : Place(r, rows) = i - 1]

\* getCredentialEventsByGeneration, getCredentialEvents
EventsOfGeneration(g) == {r \in log : r.generation = g}
Timeline(rows) == Limited(EventRows(rows), TimelineLimit + 1)
TimelineOf(g) == Timeline(EventsOfGeneration(g))
HistoryOf(k) == Limited(EventRows({r \in log : r.key = k}), HistoryLimit + 1)

\* assertCredentialGenerationEvidence; the checkpoint is the current ledger.
AssertGeneration(row) ==
    /\ row.created <= ledgerIndex
    /\ row.last \in row.created .. ledgerIndex
    /\ \/ row.deleted = 0 /\ row.cause = "none"
       \/ row.deleted \in row.created .. ledgerIndex /\ row.cause \in Causes /\ row.deleted = row.last

\* publicCredentialEvent
PublicEvent(r) ==
    /\ IF r.type = "deleted" THEN r.cause \in Causes ELSE r.cause = "none"
    /\ r.type = "created" => r.generation = r.tx /\ r.accepted = (r.key.issuer = r.key.subject)
    /\ r.type = "accepted" => r.accepted

OfType(rows, type) == {i \in DOMAIN rows : rows[i].type = type}

\* Mutant: the flag of the row is not compared with the events.
PublicTimelineUnflagged(rows, row, g) ==
    /\ Len(rows) \in 1 .. TimelineLimit
    /\ \A i \in DOMAIN rows : /\ PublicEvent(rows[i])
                              /\ rows[i].key = row.key /\ rows[i].generation = g
    /\ rows[1].type = "created" /\ Cardinality(OfType(rows, "created")) = 1
    /\ Cardinality(OfType(rows, "accepted")) <= 1 /\ Cardinality(OfType(rows, "deleted")) <= 1

\* publicCredentialTimeline
PublicTimeline(rows, row, g) ==
    LET created == OfType(rows, "created")
        accepted == OfType(rows, "accepted")
        deleted == OfType(rows, "deleted")
        first == rows[1]
        last == rows[Len(rows)]
    IN /\ Len(rows) \in 1 .. TimelineLimit
       /\ \A i \in DOMAIN rows :
             /\ PublicEvent(rows[i]) /\ rows[i].key = row.key /\ rows[i].generation = g
             /\ rows[i].expiration = row.expiration
             /\ i > 1 => Earlier(rows[i - 1], rows[i])
       /\ Cardinality(created) = 1 /\ first.type = "created" /\ first.tx = g
       /\ first.ledger = row.created /\ first.txIndex = row.createdTx
       /\ Cardinality(accepted) <= 1 /\ Cardinality(deleted) <= 1
       /\ \A i \in deleted : rows[i].accepted = row.accepted
       /\ last.ledger = row.last
       /\ row.accepted = (first.accepted \/ Cardinality(accepted) = 1)
       /\ IF row.deleted = 0 THEN deleted = {}
          ELSE /\ Cardinality(deleted) = 1 /\ last.type = "deleted"
               /\ last.ledger = row.deleted /\ last.cause = row.cause

-----------------------------------------------------------------------------
(* Endpoints.                                                              *)

\* GET credential-generations/:generationId, for these rows: the state it shows.
GenerationPage(row, rows, g) ==
    IF row = NoRow THEN "CREDENTIAL_GENERATION_NOT_FOUND"
    ELSE IF AssertGeneration(row) /\ PublicTimeline(rows, row, g) THEN CredentialLifecycle(row)
    ELSE "INDEXER_EVIDENCE_INVALID"

\* GET credentials/:issuer/:subject/:schemaUid
CredentialPage(k) ==
    IF RowsOf(k) = {} THEN "CREDENTIAL_NOT_FOUND"
    ELSE IF AssertGeneration(generation[GetCredential(k)])
         THEN CredentialLifecycle(generation[GetCredential(k)])
    ELSE "INDEXER_EVIDENCE_INVALID"

\* GET .../events: <<>> stands for the replies 413 and 503 as well.
HistoryServed(k) ==
    LET rows == HistoryOf(k)
    IN Len(rows) <= HistoryLimit /\ \A i \in DOMAIN rows : PublicEvent(rows[i])

\* GET .../events/:transactionHash reads two rows, EXACT_CREDENTIAL_EVENT_QUERY_LIMIT.
ExactEvent(k, tx) ==
    LET rows == Limited(EventRows({r \in log : r.tx = tx /\ r.key = k}), 2)
    IN IF Len(rows) > 1 THEN "CREDENTIAL_EVENT_AMBIGUOUS"
       ELSE IF rows = <<>> THEN "null"
       ELSE IF PublicEvent(rows[1]) THEN rows[1].type ELSE "INDEXER_EVIDENCE_INVALID"

\* publicTransactionProjection of getTransactionProjectionSummary: the number
\* of events of a transaction, the coordinates taken from the first one.
TransactionEvents(tx) == EventRows({r \in log : r.tx = tx})

SameTransaction(r, first) == r.ledger = first.ledger /\ r.txIndex = first.txIndex

\* getCredentialEventsByTransactionPage: rows after a node index.
PageRows(tx, after) == Limited(EventRows({r \in log : r.tx = tx /\ r.node > after}), PageLimit + 1)

\* GET transactions/:transactionHash, followed from the first page to the last:
\* the cursor is the node of the last event shown.
Pages(tx) ==
    LET next[after \in {-1} \cup {r.node : r \in log}] ==
          LET rows == PageRows(tx, after)
              shown == SubSeq(rows, 1, PageLimit)
          IN IF Len(rows) <= PageLimit THEN rows ELSE shown \o next[shown[PageLimit].node]
    IN next[-1]

TransactionServed(tx) ==
    LET rows == TransactionEvents(tx)
    IN \A i \in DOMAIN rows : PublicEvent(rows[i]) /\ SameTransaction(rows[i], rows[1])

Generations == {i \in TxIds : generation[i] # NoRow}

\* The CASE expressions of getDiscoveryStats.
Bucket(row) ==
    CASE row.deleted # 0 -> "deleted"
      [] row.deleted = 0 /\ (row.expiration = NoExpiration \/ row.expiration > closeTime)
           -> (IF row.accepted THEN "active" ELSE "pending")
      [] OTHER -> "expired"

Count(bucket) == Cardinality({i \in Generations : Bucket(generation[i]) = bucket})

\* publicDiscoveryStats
StatsServed ==
    /\ \A i \in Generations : LET row == generation[i]
                              IN row.last >= row.created /\ (row.deleted # 0 => row.deleted = row.last)
    /\ Count("pending") + Count("active") + Count("expired") + Count("deleted")
         = Cardinality(Generations)

\* GET search?q=<hash>: what the hash of a transaction finds.
SearchByHash(tx) ==
    (IF generation[tx] # NoRow THEN {"credential_generation"} ELSE {})
        \cup (IF TransactionEvents(tx) # <<>> THEN {"transaction"} ELSE {})

-----------------------------------------------------------------------------
(* Properties.                                                             *)

\* The log has one row per event, numbered within its transaction.
LogTypeOK ==
    /\ {[tx |-> r.tx, key |-> r.key, generation |-> r.generation, type |-> r.type] : r \in log} = events
    /\ \A r, s \in log : r # s => Earlier(r, s) \/ Earlier(s, r)

\* No check of the API refuses what the indexer wrote: every generation, event,
\* transaction and the statistics are served, and no event is ambiguous.
ReadsServed ==
    /\ \A i \in Generations : GenerationPage(generation[i], TimelineOf(i), i) # "INDEXER_EVIDENCE_INVALID"
    /\ \A k \in {r.key : r \in log} :
          /\ CredentialPage(k) # "INDEXER_EVIDENCE_INVALID"
          /\ Len(HistoryOf(k)) <= HistoryLimit => HistoryServed(k)
    /\ \A tx \in {r.tx : r \in log} : \A k \in {r.key : r \in log} :
          ExactEvent(k, tx) \notin {"CREDENTIAL_EVENT_AMBIGUOUS", "INDEXER_EVIDENCE_INVALID"}
    /\ \A tx \in {r.tx : r \in log} : TransactionServed(tx)
    /\ StatsServed

\* One attribute of a row that is not what was written.
FaultyRows(row) ==
    {[row EXCEPT !.accepted = ~@], [row EXCEPT !.deleted = 0, !.cause = "none"]}
        \cup {[row EXCEPT !.key = k] : k \in Keys}
        \cup {[row EXCEPT !.expiration = e] : e \in Expirations \cup {NoExpiration}}
        \cup {[row EXCEPT !.created = n] : n \in 1 .. MaxLedger}
        \cup {[row EXCEPT !.createdTx = n] : n \in 0 .. MaxTxs}
        \cup {[row EXCEPT !.last = n] : n \in 1 .. MaxLedger}
        \cup {[row EXCEPT !.deleted = n] : n \in 0 .. MaxLedger}
        \cup {[row EXCEPT !.cause = c] : c \in Causes \cup {"none"}}

\* The events of a generation, of which one is lost, or has another flag or expiration.
FaultyEvents(rows) ==
    {rows \ {r} : r \in rows}
        \cup {(rows \ {r}) \cup {[r EXCEPT !.accepted = ~@]} : r \in rows}
        \cup {(rows \ {r}) \cup {[r EXCEPT !.expiration = e]} :
                r \in rows, e \in Expirations \cup {NoExpiration}}

\* The timeline is evidence for its generation, and the row for its timeline: with one
\* fault in the row, or one event lost or changed, the page is refused.
StateProved ==
    \A i \in Generations :
        LET row == generation[i]
            written == EventsOfGeneration(i)
        IN /\ \A f \in FaultyRows(row) \ {row} :
                GenerationPage(f, Timeline(written), i) = "INDEXER_EVIDENCE_INVALID"
           /\ \A rows \in FaultyEvents(written) \ {written} :
                GenerationPage(row, Timeline(rows), i) = "INDEXER_EVIDENCE_INVALID"

\* The endpoints agree with each other: the credential of a tuple is in the state
\* its history ends with, also if it was deleted and issued again within a ledger,
\* and the statistics count each generation under the state its page shows.
EndpointsAgree ==
    /\ \A k \in {r.key : r \in log} : HistoryServed(k) =>
          LET history == HistoryOf(k)
          IN (CredentialPage(k) = "deleted") <=> (history[Len(history)].type = "deleted")
    /\ \A i \in Generations :
          Bucket(generation[i]) = GenerationPage(generation[i], TimelineOf(i), i)

\* Following the pages of a transaction shows each of its events once, in the
\* order of its nodes, and a hash finds what it identifies.
PagesComplete ==
    \A tx \in 1 .. txs : /\ Pages(tx) = TransactionEvents(tx)
                      /\ "credential_generation" \in SearchByHash(tx) =>
                           "transaction" \in SearchByHash(tx)

\* Every endpoint serves all that the indexer writes, on all its pages; they agree with
\* one another and with the ledger on the state of a credential; and with a faulty row or
\* event none shows what the others do not prove.
ReadsTrue ==
    /\ TypeOK /\ LogTypeOK
    /\ ReadsServed
    /\ PagesComplete
    /\ ReportedState
    /\ EndpointsAgree
    /\ StateProved

=============================================================================
