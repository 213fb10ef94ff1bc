---------------------------- MODULE SchemaCatalog ----------------------------
(***************************************************************************)
(* Schemas: their registration by transactions of the ledger, their        *)
(* resolution and projection by the indexer, and what the API makes of the *)
(* projected rows.                                                         *)
(*                                                                         *)
(* ledger is the chain itself: the registration transactions in order. The *)
(* position of a transaction stands for its ledger index and transaction   *)
(* index, for its hash and, if it is accepted, for the UID of its schema,  *)
(* which is a hash of position, publisher and definition. Of a definition  *)
(* the names of its fields and its two relations are kept.                 *)
(*                                                                         *)
(* A fault of the storage may change one attribute of one row; it happens  *)
(* after the last write and when no client pages through a list.           *)
(***************************************************************************)
EXTENDS Integers, Sequences, FiniteSets, SequencesExt

CONSTANTS
    Publishers,
    Names,          \* field names
    MaxFields,      \* MAX_SCHEMA_FIELDS
    MaxDepth,       \* MAX_SCHEMA_DEPTH; MAX_INHERITANCE_LINEAGE is one less
    MaxEntries,     \* MAX_SCHEMA_CATALOG_ENTRIES
    PageLimit,      \* limit of a page
    MaxLedger       \* bound on registrations

None == 0                      \* a relation that is absent
Unknown == MaxLedger + 1       \* a UID that no schema has
Positions == 1 .. MaxLedger
Invalid == [error |-> "invalid"]
NotFound == [error |-> "SCHEMA_NOT_FOUND"]

VARIABLES
    ledger,    \* registration transactions
    events,    \* table schema_events, by position
    schemas,   \* table schemas, by UID
    corrupt,   \* the fault has happened
    page       \* a client that pages through a list

vars == <<ledger, events, schemas, corrupt, page>>

Definitions == [fields : (SUBSET Names) \ {{}}, extends : Positions \cup {None, Unknown},
                supersedes : Positions \cup {None, Unknown}]

\* The envelope of a registration, as extractRegistrationEnvelope sees it.
Envelopes == {"lookalike", "memo_rejected", "not_canonical", "candidate"}

-----------------------------------------------------------------------------
(* Resolution, in the indexer.                                             *)

\* parseSchema: what it refuses of a definition that has fields at all.
ParseSchema(d) ==
    /\ Cardinality(d.fields) <= MaxFields
    /\ ~(d.extends # None /\ d.extends = d.supersedes)

\* requireReference
Referenced(catalog, uid, at) == uid \in DOMAIN catalog /\ catalog[uid].at < at

\* What resolve has of the ancestors of a schema that extends nothing.
Root == [fields |-> {}, lineage |-> <<>>]

\* Only the publisher of a schema may supersede it.
Follows(row, catalog) ==
    LET previous == row.definition.supersedes
    IN previous # None => /\ Referenced(catalog, previous, row.at)
                          /\ catalog[previous].publisher = row.publisher

\* Mutant: an inherited field may be redefined.
MergeShadowing(row, catalog, parent) ==
    LET d == row.definition
        fields == parent.fields \cup d.fields
    IN IF parent # Invalid /\ Cardinality(fields) <= MaxFields /\ Follows(row, catalog)
       THEN [definition |-> d, fields |-> fields,
             lineage |-> IF d.extends = None THEN <<>> ELSE Append(parent.lineage, d.extends)]
       ELSE Invalid

\* resolve, once the parent is resolved: its fields and the definition's own, which
\* must be new, and the ancestors from the root on.
Merge(row, catalog, parent) ==
    LET d == row.definition
        fields == parent.fields \cup d.fields
    IN IF /\ parent # Invalid /\ parent.fields \cap d.fields = {}
          /\ Cardinality(fields) <= MaxFields /\ Follows(row, catalog)
       THEN [definition |-> d, fields |-> fields,
             lineage |-> IF d.extends = None THEN <<>> ELSE Append(parent.lineage, d.extends)]
       ELSE Invalid

\* The recursive call of resolve; visiting holds the schemas that are being resolved.
Parent(row, catalog, visiting, ancestor) ==
    LET uid == row.definition.extends
    IN IF uid = None THEN Root
       ELSE IF /\ Cardinality(visiting) < MaxDepth - 1 /\ uid \notin visiting
               /\ Referenced(catalog, uid, row.at)
       THEN ancestor[uid][visiting \cup {uid}] ELSE Invalid

\* resolveSchema
Resolve(row, catalog) ==
    LET ancestor[uid \in DOMAIN catalog] ==
          [visiting \in SUBSET DOMAIN catalog |->
              Merge(catalog[uid], catalog, Parent(catalog[uid], catalog, visiting, ancestor))]
    IN Merge(row, catalog, Parent(row, catalog, {}, ancestor))

\* interpretSchemaRegistration for the transaction at a position.
Interpret(t, at, catalog) ==
    LET resolved == Resolve([definition |-> t.definition, publisher |-> t.publisher, at |-> at], catalog)
    IN CASE t.envelope = "lookalike" -> [status |-> "none"]
         [] t.envelope = "memo_rejected" -> [status |-> "rejected", reason |-> "REGISTRATION_MEMO"]
         [] t.envelope = "not_canonical" ->
              [status |-> "rejected", reason |-> "REGISTRATION_NOT_CANONICAL"]
         [] OTHER ->
              IF ~ParseSchema(t.definition) THEN [status |-> "rejected", reason |-> "INVALID_SCHEMA"]
              ELSE IF resolved = Invalid
                   THEN [status |-> "rejected", reason |-> "INVALID_SCHEMA_REFERENCE"]
              ELSE [status |-> "accepted", resolved |-> resolved]

-----------------------------------------------------------------------------
(* Projection, in the indexer: projectLedger and persistLedger.            *)

EventRow(t, at, status) ==
    [at |-> at, publisher |-> t.publisher, status |-> status,
     uid |-> IF status = "accepted" THEN at ELSE None, memo |-> t.definition]

SchemaRow(t, at, resolved) ==
    [uid |-> at, publisher |-> t.publisher, parent |-> t.definition.extends,
     supersedes |-> t.definition.supersedes, definition |-> t.definition,
     resolved |-> resolved, tx |-> at, at |-> at]

With(f, x, v) == [y \in DOMAIN f \cup {x} |-> IF y = x THEN v ELSE f[y]]

NoPage == [kind |-> "none", cursor |-> None, seen |-> <<>>, from |-> 0]

Init ==
    /\ ledger = <<>> /\ events = <<>> /\ schemas = <<>>
    /\ corrupt = FALSE /\ page = NoPage

\* The bounded ledger takes another transaction, and the tables are as they were written.
Open == Len(ledger) < MaxLedger /\ ~corrupt

\* A transaction is validated and projected.
Register(t) ==
    LET at == Len(ledger) + 1
        result == Interpret(t, at, schemas)
    IN /\ Open
       /\ ledger' = Append(ledger, t)
       /\ events' = IF result.status = "none" THEN events
                    ELSE With(events, at, EventRow(t, at, result.status))
       /\ schemas' = IF result.status = "accepted"
                     THEN With(schemas, at, SchemaRow(t, at, result.resolved)) ELSE schemas
       /\ UNCHANGED <<corrupt, page>>

\* Bound: the fault is explored where every registration was accepted.
Faulty == ~corrupt /\ page.kind = "none" /\ DOMAIN schemas = DOMAIN ledger

\* One attribute of one row of schemas, or of one event, is not what was written.
CorruptSchema(uid, row) ==
    /\ Faulty /\ uid \in DOMAIN schemas /\ row # schemas[uid]
    /\ corrupt' = TRUE /\ schemas' = [schemas EXCEPT ![uid] = row]
    /\ UNCHANGED <<ledger, events, page>>

CorruptEvent(at, row) ==
    /\ Faulty /\ at \in DOMAIN events /\ row # events[at]
    /\ corrupt' = TRUE /\ events' = [events EXCEPT ![at] = row]
    /\ UNCHANGED <<ledger, schemas, page>>

Corruptions(row) ==
    {[row EXCEPT !.publisher = p] : p \in Publishers}
        \cup {[row EXCEPT !.parent = u] : u \in DOMAIN schemas \cup {None}}
        \cup {[row EXCEPT !.supersedes = u] : u \in DOMAIN schemas \cup {None}}
        \cup {[row EXCEPT !.at = u] : u \in Positions}
        \cup {[row EXCEPT !.tx = u] : u \in DOMAIN events}
        \cup {[row EXCEPT !.definition.fields = n] : n \in (SUBSET Names) \ {{}}}
        \cup {[row EXCEPT !.resolved.fields = n] : n \in SUBSET Names}
        \cup {[row EXCEPT !.resolved.lineage = l] : l \in {<<>>} \cup {<<u>> : u \in DOMAIN schemas}}

EventCorruptions(row) ==
    {[row EXCEPT !.publisher = p] : p \in Publishers}
        \cup {[row EXCEPT !.at = u] : u \in Positions}
        \cup {[row EXCEPT !.status = "rejected"]}
        \cup {[row EXCEPT !.uid = u] : u \in DOMAIN schemas}
        \cup {[row EXCEPT !.memo.fields = n] : n \in (SUBSET Names) \ {{}}}
        \cup {[row EXCEPT !.memo.extends = u] : u \in DOMAIN schemas \cup {None}}

-----------------------------------------------------------------------------
(* The API on the rows it reads. A check that fails is the reply 503.      *)

\* computeSchemaUid: the hash is that of the chain for its own input only.
ComputeSchemaUid(at, publisher, memo) ==
    IF /\ at \in DOMAIN ledger
       /\ ledger[at].publisher = publisher /\ ledger[at].definition = memo
    THEN at ELSE Unknown

\* storedResolvedSchema with assertDefinitionMetadata
StoredResolvedSchema(row) ==
    LET r == row.resolved
    IN /\ ParseSchema(row.definition)
       /\ row.parent = row.definition.extends /\ row.supersedes = row.definition.supersedes
       /\ r.definition = row.definition
       /\ r.fields # {} /\ Cardinality(r.fields) <= MaxFields
       /\ Len(r.lineage) <= MaxDepth - 1
       /\ \A i, j \in DOMAIN r.lineage : r.lineage[i] = r.lineage[j] => i = j
       /\ row.uid \notin ToSet(r.lineage)
       /\ IF row.definition.extends = None THEN r.lineage = <<>>
          ELSE r.lineage # <<>> /\ Last(r.lineage) = row.definition.extends

\* validateEvidenceRow; the query joins the schema with the event of its tx.
ValidateEvidenceRow(row) ==
    /\ StoredResolvedSchema(row)
    /\ row.tx \in DOMAIN events
    /\ LET e == events[row.tx]
       IN /\ e.at = row.at /\ row.tx = row.at /\ e.publisher = row.publisher
          /\ e.status = "accepted" /\ e.uid = row.uid
          /\ ParseSchema(e.memo) /\ e.memo = row.definition
          /\ ComputeSchemaUid(e.at, e.publisher, e.memo) = row.uid

\* Mutant: the stored resolution is believed.
AuthoritativeUnmerged(row, evidence) ==
    LET uids == Append(row.resolved.lineage, row.uid)
    IN IF StoredResolvedSchema(row) /\ \A i \in DOMAIN uids :
             uids[i] \in evidence /\ uids[i] \in DOMAIN schemas /\ ValidateEvidenceRow(schemas[uids[i]])
       THEN row.resolved ELSE Invalid

\* authoritativeResolvedSchema: the row must be the merge of its ancestors'
\* definitions, each with the evidence of its registration.
AuthoritativeResolvedSchema(row, evidence) ==
    LET uids == Append(row.resolved.lineage, row.uid)
        chain(i) == schemas[uids[i]]
        merged(i) == UNION {chain(j).definition.fields : j \in 1 .. i}
    IN IF /\ StoredResolvedSchema(row)
          /\ \A i \in DOMAIN uids : uids[i] \in evidence /\ uids[i] \in DOMAIN schemas
          /\ \A i \in DOMAIN uids : ValidateEvidenceRow(chain(i))
          /\ schemas[row.uid] = row
          /\ \A i \in DOMAIN uids :
                /\ chain(i).definition.extends = IF i = 1 THEN None ELSE uids[i - 1]
                /\ i > 1 => chain(i - 1).at < chain(i).at
                /\ i > 1 => merged(i - 1) \cap chain(i).definition.fields = {}
                /\ chain(i).resolved = [definition |-> chain(i).definition, fields |-> merged(i),
                                        lineage |-> SubSeq(uids, 1, i - 1)]
       THEN row.resolved ELSE Invalid

\* schemaProjectionEvidenceUids and getSchemaProjectionEvidence
Evidence(rows) ==
    (UNION {{r.uid} \cup ToSet(r.resolved.lineage) : r \in rows}) \cap DOMAIN schemas

\* GET schemas/:uid
GetSchema(uid) ==
    IF uid \notin DOMAIN schemas THEN NotFound
    ELSE IF ~StoredResolvedSchema(schemas[uid]) THEN Invalid
    ELSE AuthoritativeResolvedSchema(schemas[uid], Evidence({schemas[uid]}))

\* getSchemaCatalogEvidence: the least set of schemas that holds these and, with each,
\* its parent and its predecessor.
Closure(uids) ==
    LET closed(set) == \A u \in set :
                          {schemas[u].parent, schemas[u].supersedes} \cap DOMAIN schemas \subseteq set
    IN {u \in DOMAIN schemas :
          \A set \in SUBSET DOMAIN schemas : uids \subseteq set /\ closed(set) => u \in set}

\* Mutant: only the lineage is exported.
CatalogLineageOnly(uid) ==
    LET evidence == Evidence({schemas[uid]})
    IN IF uid \notin DOMAIN schemas THEN {} ELSE evidence

\* GET schemas/:uid/catalog, authoritativeSchemaCatalogBundle: the set of the
\* schemas in the bundle, empty for 404 and 503.
Catalog(uid) ==
    LET evidence == Closure({uid})
    IN IF uid \notin DOMAIN schemas THEN {}
       ELSE IF /\ Cardinality(evidence) <= MaxEntries
               /\ \A u \in evidence : AuthoritativeResolvedSchema(schemas[u], evidence) # Invalid
            THEN evidence ELSE {}

\* publicSchemaRegistration for one event row.
PublicRegistration(e) ==
    \/ e.status = "accepted" /\ e.uid # None /\ ParseSchema(e.memo)
         /\ ComputeSchemaUid(e.at, e.publisher, e.memo) = e.uid
    \/ e.status = "rejected" /\ e.uid = None

\* GET schema-registrations/:transactionHash
GetRegistration(at) ==
    CASE at \notin DOMAIN events -> "null"
      [] OTHER -> IF PublicRegistration(events[at]) THEN events[at].status ELSE "invalid"

-----------------------------------------------------------------------------
(* Lists: pages of at most PageLimit rows, and a cursor when there is one  *)
(* row more. list ascends over schemas, activity descends over events.     *)

\* ORDER BY ledger_index, transaction_index
Rank(r, rows) == Cardinality({s \in rows : s.at < r.at})
Ascending(rows) == [i \in 1 .. Cardinality(rows) |-> CHOOSE r \in rows : Rank(r, rows) = i - 1]

Rows(table) == {table[u] : u \in DOMAIN table}

\* listSchemas
ListRows(cursor) == Ascending({r \in Rows(schemas) : r.at > cursor})

\* listSchemaRegistrations; cursor None is the first page.
ActivityRows(cursor) == Reverse(Ascending({r \in Rows(events) : cursor = None \/ r.at < cursor}))

\* Searching is the descending order over schemas, one page only.
SearchRows(publisher) == Reverse(Ascending({r \in Rows(schemas) : r.publisher = publisher}))

Fetched(rows) == SubSeq(rows, 1, IF Len(rows) < PageLimit + 1 THEN Len(rows) ELSE PageLimit + 1)

\* Every row that was fetched is checked, the one beyond the page too.
PageValid(kind, rows) ==
    LET found == ToSet(rows)
    IN IF kind = "activity" THEN \A row \in found : PublicRegistration(row)
       ELSE \A row \in found : /\ StoredResolvedSchema(row)
                               /\ AuthoritativeResolvedSchema(row, Evidence(found)) # Invalid

\* A client begins to page; a bound: where nothing is superseded.
StartPaging(kind) ==
    /\ page.kind = "none" /\ ~corrupt
    /\ \A i \in DOMAIN ledger : ledger[i].definition.supersedes = None
    /\ page' = [NoPage EXCEPT !.kind = kind, !.from = Len(ledger)]
    /\ UNCHANGED <<ledger, events, schemas, corrupt>>

\* GET schemas, GET activity: the next page of a client. The cursor is the last
\* row it was shown.
NextPage ==
    LET rows == Fetched(IF page.kind = "activity" THEN ActivityRows(page.cursor)
                        ELSE ListRows(page.cursor))
        more == Len(rows) > PageLimit
        shown == SubSeq(rows, 1, IF more THEN PageLimit ELSE Len(rows))
    IN /\ page.kind \in {"list", "activity"} /\ ~corrupt /\ PageValid(page.kind, rows)
       /\ page' = [page EXCEPT !.seen = @ \o [i \in DOMAIN shown |-> shown[i].at],
                               !.cursor = IF more THEN Last(shown).at ELSE @,
                               !.kind = IF more THEN @
                                        ELSE IF @ = "list" THEN "list_done" ELSE "activity_done"]
       /\ UNCHANGED <<ledger, events, schemas, corrupt>>

Transactions ==
    [envelope : {"candidate"}, publisher : Publishers, definition : Definitions]
        \cup [envelope : Envelopes \ {"candidate"}, publisher : Publishers,
              definition : {[fields |-> Names, extends |-> None, supersedes |-> None]}]

\* A transaction that is not a candidate, or names a schema nobody knows.
Odd(t) ==
    t.envelope # "candidate" \/ Unknown \in {t.definition.extends, t.definition.supersedes}

\* Bounds. A UID that does not exist yet is a hash nobody knows. At most one
\* transaction of the bounded ledger is odd; a definition with every field, or with
\* an unknown UID, has at most one relation, and a client pages where nothing is
\* superseded.
Writable(t) ==
    /\ {t.definition.extends, t.definition.supersedes} \subseteq (0 .. Len(ledger)) \cup {Unknown}
    /\ Odd(t) \/ t.definition.fields = Names =>
          None \in {t.definition.extends, t.definition.supersedes}
    /\ Odd(t) => \A i \in DOMAIN ledger : ~Odd(ledger[i])
    /\ page.kind # "none" => t.definition.supersedes = None

Next ==
    \/ Open /\ \E t \in Transactions : Writable(t) /\ Register(t)
    \/ Faulty /\ \E u \in DOMAIN schemas : \E row \in Corruptions(schemas[u]) : CorruptSchema(u, row)
    \/ Faulty /\ \E u \in DOMAIN events : \E row \in EventCorruptions(events[u]) : CorruptEvent(u, row)
    \/ \E kind \in {"list", "activity"} : StartPaging(kind)
    \/ NextPage

Spec == Init /\ [][Next]_vars

-----------------------------------------------------------------------------
(* Properties.                                                             *)

\* The tables: a schema has the event of its registration (the foreign key of
\* schemas), an event has its transaction.
TypeOK ==
    /\ Len(ledger) <= MaxLedger
    /\ DOMAIN schemas \subseteq DOMAIN events /\ DOMAIN events \subseteq DOMAIN ledger
    /\ corrupt \in BOOLEAN
    /\ \A u \in DOMAIN schemas : schemas[u].definition \in Definitions

\* What the chain alone makes of the schemas: its transactions, replayed.
Replayed ==
    LET upTo[n \in 0 .. Len(ledger)] ==
          IF n = 0 THEN <<>>
          ELSE LET before == upTo[n - 1]
                   result == Interpret(ledger[n], n, before)
               IN IF result.status = "accepted"
                  THEN With(before, n, SchemaRow(ledger[n], n, result.resolved)) ELSE before
    IN upTo[Len(ledger)]

\* A schema the API shows is the one the ledger's transactions define, or the
\* API answers 503: no change of a row of its tables, or of an ancestor's, is
\* passed on.
SchemaTrue ==
    LET chain == Replayed
    IN \A u \in DOMAIN schemas : GetSchema(u) \in {Invalid, chain[u].resolved}

\* Nothing the indexer accepts is refused by the API's own checks: its bounds on
\* lineage and fields are those of the resolution.
AcceptedServed ==
    ~corrupt => /\ \A u \in DOMAIN schemas : GetSchema(u) # Invalid
                /\ \A u \in DOMAIN events : GetRegistration(u) # "invalid"
                /\ PageValid("list", ListRows(None)) /\ PageValid("activity", ActivityRows(None))
                /\ \A p \in Publishers : PageValid("search", SearchRows(p))
                /\ \A u \in DOMAIN schemas :
                      Cardinality(Closure({u})) <= MaxEntries => Catalog(u) # {}

\* A catalog is enough to check its target offline: resolving from the bundle
\* alone gives what the chain gives.
CatalogSelfContained ==
    \A u \in DOMAIN schemas :
        LET bundle == [v \in Catalog(u) |-> schemas[v]]
        IN \A v \in Catalog(u) :
              Resolve(schemas[v], bundle) = schemas[v].resolved

\* A client that pages to the end sees every row there was when it began once
\* and in order, whatever is registered between its pages.
PagesComplete ==
    /\ page.kind = "list_done" =>
         /\ \A i, j \in DOMAIN page.seen : i < j => page.seen[i] < page.seen[j]
         /\ {u \in DOMAIN schemas : u <= page.from} \subseteq ToSet(page.seen)
    /\ page.kind = "activity_done" =>
         /\ \A i, j \in DOMAIN page.seen : i < j => page.seen[i] > page.seen[j]
         /\ {u \in DOMAIN events : u <= page.from} \subseteq ToSet(page.seen)

=============================================================================
