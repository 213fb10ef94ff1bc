------------------------ MODULE CredentialProjection ------------------------
(***************************************************************************)
(* How the indexer projects native XRPL Credentials into the tables        *)
(* credential_generations and credential_events, and what the API reads    *)
(* from them.                                                              *)
(*                                                                         *)
(* A step is one validated transaction: the ledger applies it, the indexer *)
(* extracts the mutations of its AffectedNodes against the schemas known   *)
(* so far (projectLedger), and persistLedger writes them. Ledgers are      *)
(* immutable, and IndexerWorker shows that each is projected once, in      *)
(* order and against exactly the earlier registrations, so it does not     *)
(* matter how much later the indexer follows.                              *)
(*                                                                         *)
(* The ledger is external: which transactions create, accept and remove a  *)
(* Credential is modelled from what the code expects in the metadata. An   *)
(* object's ledger id is a hash of its issuer, subject and type, so it is  *)
(* represented by that key.                                                *)
(***************************************************************************)
EXTENDS Integers, FiniteSets

CONSTANTS
    Accounts,       \* classic addresses
    Uids,           \* UIDs that schema registrations will get
    Foreign,        \* a CredentialType that is no schema UID
    Expirations,    \* values of the Expiration field
    NoExpiration,   \* the field is absent
    MaxTime,        \* bound on close times (uint32 in the code)
    MaxLedger,      \* bound on ledgers
    MaxTxs          \* bound on transactions

ASSUME ProjectionConstants ==
    /\ Foreign \notin Uids
    /\ MaxTime \in Nat /\ MaxLedger \in Nat \ {0} /\ MaxTxs \in Nat
    /\ Expirations \subseteq 0 .. MaxTime /\ NoExpiration \notin 0 .. MaxTime

Keys == [issuer : Accounts, subject : Accounts, type : Uids \cup {Foreign}]

\* A transaction is identified by its number; 0 identifies none.
TxIds == 1 .. MaxTxs

VARIABLES
    ledgerIndex, txIndex,         \* position of the next transaction
    parentCloseTime, closeTime,   \* of the ledger it is in
    txs,                          \* transactions so far
    object,                       \* the Credential objects of the ledger
    known,                        \* UIDs in the schema catalog
    announced,                    \* those of earlier ledgers, which anyone may use
    generation,                   \* credential_generations, by generationId
    events,                       \* credential_events
    halted                        \* persistLedger threw

ledgerVars == <<ledgerIndex, txIndex, parentCloseTime, closeTime, txs, object>>
tableVars == <<generation, events, halted>>
vars == <<ledgerVars, known, announced, tableVars>>

NoObject == [exists |-> FALSE, accepted |-> FALSE, expiration |-> NoExpiration,
             conforming |-> FALSE, creator |-> 0]

Objects ==
    [exists : BOOLEAN, accepted : BOOLEAN, expiration : Expirations \cup {NoExpiration},
     conforming : BOOLEAN, creator : 0 .. MaxTxs]

Causes == {"issuer_revoked", "subject_rejected", "subject_removed",
           "expired_cleanup", "account_deleted", "self_deleted"}

\* A row of credential_generations; deleted 0 and cause "none" are NULL.
Rows ==
    [key : Keys, accepted : BOOLEAN, expiration : Expirations \cup {NoExpiration},
     created : 1 .. MaxLedger, createdTx : 0 .. MaxTxs, last : 1 .. MaxLedger,
     deleted : 0 .. MaxLedger, cause : Causes \cup {"none"}]

NoRow == [created |-> 0]

EventTypes == {"created", "accepted", "deleted"}

TypeOK ==
    /\ ledgerIndex \in 1 .. MaxLedger /\ txIndex \in 0 .. MaxTxs /\ txs \in 0 .. MaxTxs
    /\ txIndex <= txs
    /\ parentCloseTime \in 0 .. MaxTime /\ closeTime \in parentCloseTime .. MaxTime
    /\ object \in [Keys -> Objects]
    /\ known \subseteq Uids /\ announced \subseteq known
    /\ generation \in [TxIds -> Rows \cup {NoRow}]
    /\ events \subseteq [tx : TxIds, key : Keys, generation : TxIds, type : EventTypes]
    /\ halted \in BOOLEAN

Init ==
    /\ ledgerIndex = 1 /\ txIndex = 0 /\ txs = 0
    /\ parentCloseTime = 0 /\ closeTime \in 0 .. MaxTime
    /\ object = [k \in Keys |-> NoObject]
    /\ known = {} /\ announced = {}
    /\ generation = [i \in TxIds |-> NoRow]
    /\ events = {} /\ halted = FALSE

-----------------------------------------------------------------------------
(* extractCredentialMutations.                                             *)

\* An affected node with the fields that matter. A created node carries
\* NewFields, the others FinalFields; wasAccepted is PreviousFields.Flags.
Node(kind, k, o, wasAccepted) ==
    [kind |-> kind, key |-> k, accepted |-> o.accepted, expiration |-> o.expiration,
     conforming |-> o.conforming, wasAccepted |-> wasAccepted]

EventType(n) ==
    CASE n.kind = "CreatedNode" -> "created"
      [] n.kind = "DeletedNode" -> "deleted"
      [] n.kind = "ModifiedNode" /\ n.accepted /\ ~n.wasAccepted -> "accepted"
      [] OTHER -> "none"

\* Mutants: an off-by-one at the close time; a cause the table does not allow.
DeletionCauseStrict(txType, actor, n) ==
    CASE txType = "AccountDelete" -> "account_deleted"
      [] txType = "CredentialDelete" /\ actor = n.key.issuer -> "issuer_revoked"
      [] txType = "CredentialDelete" /\ actor # n.key.issuer /\ actor = n.key.subject ->
           (IF n.accepted THEN "subject_removed" ELSE "subject_rejected")
      [] OTHER -> (IF n.expiration # NoExpiration /\ n.expiration < closeTime
                   THEN "expired_cleanup" ELSE "self_deleted")

DeletionCause(txType, actor, n) ==
    CASE txType = "AccountDelete" -> "account_deleted"
      [] txType = "CredentialDelete" /\ actor = n.key.issuer -> "issuer_revoked"
      [] txType = "CredentialDelete" /\ actor # n.key.issuer /\ actor = n.key.subject ->
           (IF n.accepted THEN "subject_removed" ELSE "subject_rejected")
      [] OTHER -> (IF n.expiration # NoExpiration /\ n.expiration <= closeTime
                   THEN "expired_cleanup" ELSE "self_deleted")

\* Mutant: only a created node must have a payload URI that parses.
ExtractedUriAtCreation(nodes) ==
    {n \in nodes : /\ n.key.type \in known /\ EventType(n) # "none"
                   /\ n.kind = "CreatedNode" => n.conforming}

\* The nodes that become mutations: of a known schema, with a payload URI that
\* parses. Other Credential nodes are skipped or counted as malformed.
Extracted(nodes) ==
    {n \in nodes : n.key.type \in known /\ n.conforming /\ EventType(n) # "none"}

-----------------------------------------------------------------------------
(* persistCredentialMutation, for all mutations of a transaction. They are *)
(* about different objects, so their order does not matter.                *)

Live(i) == generation[i].created # 0 /\ generation[i].deleted = 0

LiveOf(k) == {i \in TxIds : Live(i) /\ generation[i].key = k}

\* No unique index is violated and no live generation is missing.
Persistable(id, mutations) ==
    \A n \in mutations :
        IF EventType(n) = "created"
        THEN LiveOf(n.key) = {} /\ generation[id] = NoRow
        ELSE LiveOf(n.key) # {}

Target(id, n) == IF EventType(n) = "created" THEN id ELSE CHOOSE i \in LiveOf(n.key) : TRUE

NewRow(n) ==
    [key |-> n.key, accepted |-> n.accepted, expiration |-> n.expiration,
     created |-> ledgerIndex, createdTx |-> txIndex, last |-> ledgerIndex,
     deleted |-> 0, cause |-> "none"]

Written(txType, actor, row, n) ==
    CASE EventType(n) = "created" -> NewRow(n)
      [] EventType(n) = "accepted" -> [row EXCEPT !.accepted = TRUE, !.last = ledgerIndex]
      [] OTHER -> [row EXCEPT !.last = ledgerIndex, !.deleted = ledgerIndex,
                              !.cause = DeletionCause(txType, actor, n)]

\* Mutant: acceptances are not logged.
LoggedSilently(id, mutations) ==
    {[tx |-> id, key |-> n.key, generation |-> Target(id, n), type |-> EventType(n)]
       : n \in {m \in mutations : EventType(m) # "accepted"}}

\* The rows added to credential_events.
Logged(id, mutations) ==
    {[tx |-> id, key |-> n.key, generation |-> Target(id, n), type |-> EventType(n)]
       : n \in mutations}

Persist(txType, actor, id, mutations) ==
    IF Persistable(id, mutations)
    THEN /\ generation' = [i \in TxIds |->
               IF \E n \in mutations : Target(id, n) = i
               THEN Written(txType, actor, generation[i],
                            CHOOSE n \in mutations : Target(id, n) = i)
               ELSE generation[i]]
         /\ events' = events \cup Logged(id, mutations)
         /\ UNCHANGED halted
    ELSE halted' = TRUE /\ UNCHANGED <<generation, events>>

-----------------------------------------------------------------------------
(* The ledger.                                                             *)

\* Mutant: transactions that did not succeed are not inspected.
TransactionSucceeded(txType, actor, nodes, after) ==
    /\ ~halted /\ txs < MaxTxs
    /\ txs' = txs + 1 /\ txIndex' = txIndex + 1
    /\ object' = after
    /\ Persist(txType, actor, txs + 1, IF txType = "Other" THEN {} ELSE Extracted(nodes))
    /\ UNCHANGED <<ledgerIndex, parentCloseTime, closeTime, known, announced>>

\* A validated transaction that leaves the objects as given.
Transaction(txType, actor, nodes, after) ==
    /\ ~halted /\ txs < MaxTxs
    /\ txs' = txs + 1 /\ txIndex' = txIndex + 1
    /\ object' = after
    /\ Persist(txType, actor, txs + 1, Extracted(nodes))
    /\ UNCHANGED <<ledgerIndex, parentCloseTime, closeTime, known, announced>>

\* Whether the ledger may treat an object as expired, and whether it may still
\* treat it as valid. At the boundary the code takes no side.
MayBeExpired(o) == o.expiration # NoExpiration /\ o.expiration <= parentCloseTime
MayBeValid(o) == o.expiration = NoExpiration \/ o.expiration >= parentCloseTime

Deleted(keys) == {Node("DeletedNode", k, object[k], FALSE) : k \in keys}
Without(keys) == [k \in Keys |-> IF k \in keys THEN NoObject ELSE object[k]]

\* An object that a subject issues to itself is accepted at once. A type is
\* the UID of a schema only if that schema is in an earlier ledger: the UID
\* is a hash of the ledger hash.
CredentialCreate(k, expiration, conforming) ==
    LET o == [exists |-> TRUE, accepted |-> k.issuer = k.subject, expiration |-> expiration,
              conforming |-> conforming, creator |-> txs + 1]
    IN /\ ~object[k].exists /\ k.type \in announced \cup {Foreign}
       /\ MayBeValid(o)
       /\ Transaction("CredentialCreate", k.issuer, {Node("CreatedNode", k, o, FALSE)},
                      [object EXCEPT ![k] = o])

CredentialAccept(k) ==
    LET o == [object[k] EXCEPT !.accepted = TRUE]
    IN /\ object[k].exists /\ ~object[k].accepted /\ MayBeValid(object[k])
       /\ Transaction("CredentialAccept", k.subject,
                      {Node("ModifiedNode", k, o, FALSE)}, [object EXCEPT ![k] = o])

\* By its issuer or its subject, or by anybody once it has expired.
CredentialDelete(k, actor) ==
    /\ object[k].exists
    /\ actor \in {k.issuer, k.subject} \/ MayBeExpired(object[k])
    /\ Transaction("CredentialDelete", actor, Deleted({k}), Without({k}))

\* Removes every Credential the account issued or was issued.
AccountDelete(a) ==
    LET keys == {k \in Keys : object[k].exists /\ a \in {k.issuer, k.subject}}
    IN keys # {} /\ Transaction("AccountDelete", a, Deleted(keys), Without(keys))

\* A transaction that fails with tecEXPIRED removes the Credentials it used.
RemoveExpired(actor, keys) ==
    /\ keys # {} /\ \A k \in keys : object[k].exists /\ MayBeExpired(object[k])
    /\ Transaction("Other", actor, Deleted(keys), Without(keys))

RegisterSchema(u) ==
    /\ ~halted /\ txs < MaxTxs
    /\ u \notin known
    /\ known' = known \cup {u}
    /\ txs' = txs + 1 /\ txIndex' = txIndex + 1
    /\ UNCHANGED <<ledgerIndex, parentCloseTime, closeTime, object, announced, tableVars>>

CloseLedger ==
    /\ ~halted /\ ledgerIndex < MaxLedger
    /\ ledgerIndex' = ledgerIndex + 1 /\ txIndex' = 0
    /\ parentCloseTime' = closeTime /\ closeTime' \in closeTime .. MaxTime
    /\ announced' = known
    /\ UNCHANGED <<txs, object, known, tableVars>>

Next ==
    \/ CloseLedger
    \/ \E u \in Uids : RegisterSchema(u)
    \/ \E k \in Keys :
         \/ \E e \in Expirations \cup {NoExpiration}, c \in BOOLEAN : CredentialCreate(k, e, c)
         \/ CredentialAccept(k)
         \/ \E a \in Accounts : CredentialDelete(k, a)
    \/ \E a \in Accounts : AccountDelete(a)
    \/ \E a \in Accounts, keys \in SUBSET {k \in Keys : object[k].exists} : RemoveExpired(a, keys)

Spec == Init /\ [][Next]_vars

-----------------------------------------------------------------------------
(* What the API reads: getCredential and projectCredentialLifecycle.       *)

RowsOf(k) == {i \in TxIds : generation[i] # NoRow /\ generation[i].key = k}

\* ORDER BY created_ledger_index DESC, created_transaction_index DESC.
NotOlder(i, j) ==
    \/ generation[j].created < generation[i].created
    \/ /\ generation[j].created = generation[i].created
       /\ generation[j].createdTx <= generation[i].createdTx

GetCredential(k) == CHOOSE i \in RowsOf(k) : \A j \in RowsOf(k) : NotOlder(i, j)

Reached(expiration) == expiration # NoExpiration /\ expiration <= closeTime

CredentialLifecycle(r) ==
    CASE r.deleted # 0 -> "deleted"
      [] r.deleted = 0 /\ Reached(r.expiration) -> "expired"
      [] OTHER -> (IF r.accepted THEN "active" ELSE "pending")

OnChainStatus(k) ==
    IF RowsOf(k) = {} THEN "not_found" ELSE CredentialLifecycle(generation[GetCredential(k)])

-----------------------------------------------------------------------------
(* Properties.                                                             *)

\* persistLedger never throws over a credential: it finds a live generation for
\* every acceptance and deletion it extracts, and creates none that exists. An
\* indexer that threw here would halt at this ledger for ever.
NeverHalts == ~halted

IsXcs(k) == k.type \in known /\ object[k].exists /\ object[k].conforming

\* The live generations are exactly the conforming Credential objects of known
\* schemas on the ledger, one each, with their flags and expiration.
Mirror ==
    \A k \in Keys :
        IF IsXcs(k)
        THEN /\ LiveOf(k) = {object[k].creator}
             /\ generation[object[k].creator].accepted = object[k].accepted
             /\ generation[object[k].creator].expiration = object[k].expiration
        ELSE LiveOf(k) = {}

\* What verification reports as onChain is the state of the object on the ledger,
\* also when it was deleted and created again in one ledger.
ReportedState ==
    \A k \in Keys :
        IF IsXcs(k)
        THEN OnChainStatus(k) = IF Reached(object[k].expiration) THEN "expired"
                                ELSE IF object[k].accepted THEN "active" ELSE "pending"
        ELSE OnChainStatus(k) \in {"deleted", "not_found"}

\* The cause of a deletion agrees with what the row says happened before:
\* only an unaccepted Credential is rejected, only an accepted one removed,
\* only an expired one cleaned up, and there is always a known cause.
CausesTruthful ==
    \A i \in TxIds : generation[i] # NoRow =>
        LET r == generation[i] IN
        /\ r.cause = "none" <=> r.deleted = 0
        /\ r.cause # "self_deleted"
        /\ r.cause = "subject_rejected" => ~r.accepted
        /\ r.cause = "subject_removed" => r.accepted
        /\ r.cause \in {"subject_rejected", "subject_removed"} => r.key.issuer # r.key.subject
        /\ r.cause = "expired_cleanup" => Reached(r.expiration)

EventsOf(i, type) == {e \in events : e.generation = i /\ e.type = type}

\* The events of a generation tell its row: created by its own transaction, then
\* accepted at most once, then deleted at most once, in this order.
HistoryReplays ==
    \A i \in TxIds : generation[i] # NoRow =>
        LET r == generation[i] IN
        /\ {e.tx : e \in EventsOf(i, "created")} = {i}
        /\ Cardinality(EventsOf(i, "accepted")) <= 1 /\ Cardinality(EventsOf(i, "deleted")) <= 1
        /\ r.accepted <=> EventsOf(i, "accepted") # {} \/ r.key.issuer = r.key.subject
        /\ r.deleted # 0 <=> EventsOf(i, "deleted") # {}
        /\ \A e \in EventsOf(i, "accepted") : i < e.tx
        /\ \A d \in EventsOf(i, "deleted") :
             i < d.tx /\ \A e \in EventsOf(i, "accepted") : e.tx < d.tx

=============================================================================
