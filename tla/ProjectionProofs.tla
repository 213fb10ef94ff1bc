--------------------------- MODULE ProjectionProofs ---------------------------
(***************************************************************************)
(* Proofs about CredentialProjection, about what the endpoints of          *)
(* CredentialReads serve, and about the schemas of SchemaCatalog, for any  *)
(* accounts, schemas, names of fields, limits and bounds.                  *)
(***************************************************************************)
EXTENDS ProjectionSystem, FiniteSetTheorems, SequenceTheorems, WellFoundedInduction, TLAPS

-----------------------------------------------------------------------------
(* The inductive invariant.                                                *)

\* An object was created by an earlier transaction, and its type is either the
\* UID of a registered schema or of none that will ever be registered.
ObjectsInv ==
    \A k \in Keys : object[k].exists =>
        object[k].creator \in 1 .. txs /\ k.type \in known \cup {Foreign}

\* Rows exist for earlier transactions only.
RowsInv == \A i \in TxIds : generation[i] # NoRow => i <= txs

\* Every XCS object has the live generation its creator made ...
ForwardInv ==
    \A k \in Keys : IsXcs(k) =>
        LET c == object[k].creator IN
        /\ Live(c) /\ generation[c].key = k
        /\ generation[c].accepted = object[k].accepted
        /\ generation[c].expiration = object[k].expiration

\* ... and every live generation is that of an XCS object.
BackwardInv ==
    \A i \in TxIds : Live(i) =>
        /\ generation[i].key \in Keys
        /\ IsXcs(generation[i].key)
        /\ object[generation[i].key].creator = i

IndInv ==
    /\ TypeOK /\ NeverHalts /\ ObjectsInv /\ RowsInv /\ ForwardInv /\ BackwardInv

-----------------------------------------------------------------------------
(* What persistLedger does with the nodes of a transaction.                *)

USE ProjectionConstants

\* The live generations of a key are those of its object.
LEMMA LiveOfIs ==
    ASSUME IndInv, NEW k \in Keys
    PROVE  /\ IsXcs(k) => LiveOf(k) = {object[k].creator} /\ object[k].creator \in TxIds
           /\ ~IsXcs(k) => LiveOf(k) = {}
<1>1. ASSUME IsXcs(k) PROVE LiveOf(k) = {object[k].creator} /\ object[k].creator \in TxIds
  <2>1. object[k].exists
    BY <1>1 DEF IsXcs
  <2>2. object[k].creator \in TxIds
    BY <2>1 DEF IndInv, ObjectsInv, TypeOK, TxIds
  <2>3. Live(object[k].creator) /\ generation[object[k].creator].key = k
    BY <1>1 DEF IndInv, ForwardInv
  <2>4. \A i \in TxIds : Live(i) /\ generation[i].key = k => i = object[k].creator
    BY DEF IndInv, BackwardInv
  <2> QED BY <2>2, <2>3, <2>4 DEF LiveOf
<1>2. ASSUME ~IsXcs(k) PROVE LiveOf(k) = {}
  BY <1>2 DEF LiveOf, IndInv, BackwardInv
<1> QED BY <1>1, <1>2

\* The identifier of the next transaction is free.
LEMMA NextIdFree ==
    ASSUME IndInv, txs < MaxTxs
    PROVE  txs + 1 \in TxIds /\ generation[txs + 1] = NoRow /\ ~Live(txs + 1)
<1>1. txs \in Nat /\ txs + 1 \in TxIds
  BY DEF IndInv, TypeOK, TxIds
<1>2. generation[txs + 1] = NoRow
  BY <1>1 DEF IndInv, RowsInv, TxIds
<1> QED BY <1>1, <1>2 DEF Live, NoRow

\* A transaction without mutations changes no table.
LEMMA NothingExtracted ==
    ASSUME IndInv, NEW t, NEW a, NEW id, NEW ms, ms = {}, Persist(t, a, id, ms)
    PROVE  generation' = generation /\ halted' = halted /\ events' = events
<1>1. Persistable(id, ms)
  BY DEF Persistable
<1>2. generation' = [i \in TxIds |-> generation[i]]
  BY <1>1 DEF Persist
<1>3. Logged(id, ms) = {}
  BY DEF Logged
<1> QED BY <1>1, <1>2, <1>3 DEF Persist, IndInv, TypeOK

\* A created object of a known schema gets a new row, any other none.
LEMMA CreateEffect ==
    ASSUME IndInv, txs < MaxTxs, NEW k \in Keys, NEW o \in Objects, ~object[k].exists,
           NEW t, NEW a,
           Persist(t, a, txs + 1, Extracted({Node("CreatedNode", k, o, FALSE)}))
    PROVE  /\ halted' = halted
           /\ generation' = IF k.type \in known /\ o.conforming
                            THEN [generation EXCEPT ![txs + 1] =
                                    NewRow(Node("CreatedNode", k, o, FALSE))]
                            ELSE generation
<1> DEFINE n == Node("CreatedNode", k, o, FALSE)
<1>0. n.key = k /\ n.conforming = o.conforming /\ EventType(n) = "created"
  BY DEF Node, EventType
<1> HIDE DEF n
<1>1. CASE ~(k.type \in known /\ o.conforming)
  <2>1. Extracted({n}) = {}
    BY <1>0, <1>1 DEF Extracted
  <2> QED BY <1>1, <2>1, NothingExtracted DEF n
<1>2. CASE k.type \in known /\ o.conforming
  <2>1. Extracted({n}) = {n}
    BY <1>0, <1>2 DEF Extracted
  <2>2. LiveOf(k) = {}
    BY LiveOfIs DEF IsXcs
  <2>3. Persistable(txs + 1, {n})
    BY <1>0, <2>2, NextIdFree DEF Persistable
  <2>4. Target(txs + 1, n) = txs + 1
    BY <1>0 DEF Target
  <2>5. Persist(t, a, txs + 1, {n})
    BY <2>1 DEF n
  <2>6. /\ UNCHANGED halted
        /\ generation' = [i \in TxIds |->
               IF \E m \in {n} : Target(txs + 1, m) = i
               THEN Written(t, a, generation[i], CHOOSE m \in {n} : Target(txs + 1, m) = i)
               ELSE generation[i]]
    BY <2>3, <2>5 DEF Persist
  <2>7. \A i \in TxIds : generation'[i] = IF i = txs + 1 THEN NewRow(n) ELSE generation[i]
    <3> TAKE i \in TxIds
    <3>1. CASE i = txs + 1
      <4>1. (CHOOSE m \in {n} : Target(txs + 1, m) = i) = n
        BY <2>4, <3>1
      <4>2. Written(t, a, generation[i], n) = NewRow(n)
        BY <1>0 DEF Written
      <4> QED BY <2>4, <2>6, <3>1, <4>1, <4>2
    <3>2. CASE i # txs + 1
      BY <2>4, <2>6, <3>2
    <3> QED BY <3>1, <3>2
  <2>8. generation \in [TxIds -> Rows \cup {NoRow}] /\ txs + 1 \in TxIds
    BY NextIdFree DEF IndInv, TypeOK
  <2>9. generation' = [generation EXCEPT ![txs + 1] = NewRow(n)]
    BY <2>6, <2>7, <2>8
  <2> QED BY <1>2, <2>6, <2>9 DEF n
<1> QED BY <1>1, <1>2

\* An acceptance marks the live generation of an XCS object.
LEMMA AcceptEffect ==
    ASSUME IndInv, txs < MaxTxs, NEW k \in Keys, NEW o \in Objects, object[k].exists,
           o.accepted, o.conforming = object[k].conforming,
           NEW t, NEW a,
           Persist(t, a, txs + 1, Extracted({Node("ModifiedNode", k, o, FALSE)}))
    PROVE  /\ halted' = halted
           /\ generation' = IF IsXcs(k)
                            THEN [generation EXCEPT ![object[k].creator] =
                                    [generation[object[k].creator] EXCEPT
                                        !.accepted = TRUE, !.last = ledgerIndex]]
                            ELSE generation
<1> DEFINE n == Node("ModifiedNode", k, o, FALSE)
           c == object[k].creator
<1>0. n.key = k /\ n.conforming = o.conforming /\ EventType(n) = "accepted"
  BY DEF Node, EventType
<1> HIDE DEF n
<1>1. CASE ~IsXcs(k)
  <2>1. Extracted({n}) = {}
    BY <1>0, <1>1 DEF Extracted, IsXcs
  <2> QED BY <1>1, <2>1, NothingExtracted DEF n
<1>2. CASE IsXcs(k)
  <2>1. Extracted({n}) = {n}
    BY <1>0, <1>2 DEF Extracted, IsXcs
  <2>2. LiveOf(k) = {c} /\ c \in TxIds
    BY <1>2, LiveOfIs
  <2>3. Persistable(txs + 1, {n})
    BY <1>0, <2>2 DEF Persistable
  <2>4. Target(txs + 1, n) = c
    BY <1>0, <2>2 DEF Target
  <2>5. Persist(t, a, txs + 1, {n})
    BY <2>1 DEF n
  <2>6. /\ UNCHANGED halted
        /\ generation' = [i \in TxIds |->
               IF \E m \in {n} : Target(txs + 1, m) = i
               THEN Written(t, a, generation[i], CHOOSE m \in {n} : Target(txs + 1, m) = i)
               ELSE generation[i]]
    BY <2>3, <2>5 DEF Persist
  <2> DEFINE r == [generation[c] EXCEPT !.accepted = TRUE, !.last = ledgerIndex]
  <2>7. \A i \in TxIds : generation'[i] = IF i = c THEN r ELSE generation[i]
    <3> TAKE i \in TxIds
    <3>1. CASE i = c
      <4>1. (CHOOSE m \in {n} : Target(txs + 1, m) = i) = n
        BY <2>4, <3>1
      <4>2. Written(t, a, generation[i], n) = r
        BY <1>0, <3>1 DEF Written
      <4> QED BY <2>4, <2>6, <3>1, <4>1, <4>2
    <3>2. CASE i # c
      BY <2>4, <2>6, <3>2
    <3> QED BY <3>1, <3>2
  <2> HIDE DEF r
  <2>8. generation \in [TxIds -> Rows \cup {NoRow}]
    BY DEF IndInv, TypeOK
  <2>9. generation' = [generation EXCEPT ![c] = r]
    <3>1. generation' = [i \in TxIds |-> generation'[i]]
      BY <2>6, Zenon
    <3>2. generation' = [i \in TxIds |-> IF i = c THEN r ELSE generation[i]]
      BY <2>7, <3>1, Zenon
    <3> HIDE DEF c
    <3> QED BY <2>2, <3>2, <2>8
  <2> QED BY <1>2, <2>6, <2>9 DEF r
<1> QED BY <1>1, <1>2

\* The row of a generation whose object a transaction removed.
Ended(t, a, i) ==
    [generation[i] EXCEPT !.last = ledgerIndex, !.deleted = ledgerIndex,
        !.cause = DeletionCause(t, a, Node("DeletedNode", generation[i].key,
                                           object[generation[i].key], FALSE))]

\* A deletion ends the live generations of exactly the removed objects.
LEMMA DeleteEffect ==
    ASSUME IndInv, txs < MaxTxs, NEW keys \in SUBSET Keys, \A k \in keys : object[k].exists,
           NEW t, NEW a,
           Persist(t, a, txs + 1, Extracted(Deleted(keys)))
    PROVE  /\ halted' = halted
           /\ generation' = [i \in TxIds |-> IF Live(i) /\ generation[i].key \in keys
                                             THEN Ended(t, a, i) ELSE generation[i]]
<1> DEFINE N(k) == Node("DeletedNode", k, object[k], FALSE)
           ms == Extracted(Deleted(keys))
<1>0. \A k \in Keys : /\ N(k).key = k /\ N(k).conforming = object[k].conforming
                      /\ EventType(N(k)) = "deleted"
  BY DEF Node, EventType
<1> HIDE DEF N
<1>1. ms = {N(k) : k \in {x \in keys : IsXcs(x)}}
  <2>1. Deleted(keys) = {N(k) : k \in keys}
    BY DEF Deleted, N
  <2> QED BY <1>0, <2>1 DEF Extracted, IsXcs
<1> HIDE DEF ms
<1>2. \A k \in keys : IsXcs(k) => /\ LiveOf(k) = {object[k].creator}
                                 /\ object[k].creator \in TxIds
  BY LiveOfIs
<1>3. \A k \in keys : IsXcs(k) => Target(txs + 1, N(k)) = object[k].creator
  BY <1>0, <1>2 DEF Target
<1>4. Persistable(txs + 1, ms)
  BY <1>0, <1>1, <1>2 DEF Persistable
<1>5. /\ UNCHANGED halted
      /\ generation' = [i \in TxIds |->
             IF \E m \in ms : Target(txs + 1, m) = i
             THEN Written(t, a, generation[i], CHOOSE m \in ms : Target(txs + 1, m) = i)
             ELSE generation[i]]
  BY <1>4 DEF Persist, ms
<1>6. ASSUME NEW i \in TxIds
      PROVE  generation'[i] = IF Live(i) /\ generation[i].key \in keys
                              THEN Ended(t, a, i) ELSE generation[i]
  <2>1. CASE Live(i) /\ generation[i].key \in keys
    <3> DEFINE k == generation[i].key
    <3>1. IsXcs(k) /\ object[k].creator = i /\ k \in Keys
      BY <2>1 DEF IndInv, BackwardInv
    <3>2. N(k) \in ms /\ Target(txs + 1, N(k)) = i
      BY <1>1, <1>3, <2>1, <3>1
    <3>3. \A m \in ms : Target(txs + 1, m) = i => m = N(k)
      <4> SUFFICES ASSUME NEW m \in ms, Target(txs + 1, m) = i PROVE m = N(k)
        OBVIOUS
      <4>1. PICK x \in keys : IsXcs(x) /\ m = N(x)
        BY <1>1
      <4>2. object[x].creator = i
        BY <1>3, <4>1
      <4>3. generation[i].key = x
        BY <4>1, <4>2 DEF IndInv, ForwardInv
      <4> QED BY <4>1, <4>3
    <3>4. (CHOOSE m \in ms : Target(txs + 1, m) = i) = N(k)
      BY <3>2, <3>3
    <3>5. generation'[i] = Written(t, a, generation[i], N(k))
      BY <1>5, <3>2, <3>4
    <3>6. Written(t, a, generation[i], N(k)) = Ended(t, a, i)
      BY <1>0, <3>1 DEF Written, Ended, N
    <3> QED BY <2>1, <3>5, <3>6
  <2>2. CASE ~(Live(i) /\ generation[i].key \in keys)
    <3>1. ~ \E m \in ms : Target(txs + 1, m) = i
      <4> SUFFICES ASSUME NEW m \in ms, Target(txs + 1, m) = i PROVE FALSE
        OBVIOUS
      <4>1. PICK x \in keys : IsXcs(x) /\ m = N(x)
        BY <1>1
      <4>2. object[x].creator = i
        BY <1>3, <4>1
      <4>3. Live(i) /\ generation[i].key = x
        BY <4>1, <4>2 DEF IndInv, ForwardInv
      <4> QED BY <2>2, <4>3
    <3> QED BY <1>5, <2>2, <3>1
  <2> QED BY <2>1, <2>2
<1> QED BY <1>5, <1>6

-----------------------------------------------------------------------------
(* The invariant is inductive.                                             *)

\* Whatever is extracted, the rows added to credential_events are well formed.
LEMMA EventsTyped ==
    ASSUME IndInv, txs < MaxTxs, NEW nodes, \A n \in nodes : n.key \in Keys,
           NEW t, NEW a, Persist(t, a, txs + 1, Extracted(nodes))
    PROVE  events' \subseteq [tx : TxIds, key : Keys, generation : TxIds, type : EventTypes]
<1> DEFINE E == [tx : TxIds, key : Keys, generation : TxIds, type : EventTypes]
           ms == Extracted(nodes)
<1>1. events \subseteq E
  BY DEF IndInv, TypeOK
<1>2. CASE ~Persistable(txs + 1, ms)
  BY <1>1, <1>2 DEF Persist
<1>3. CASE Persistable(txs + 1, ms)
  <2>1. ASSUME NEW n \in ms
        PROVE  [tx |-> txs + 1, key |-> n.key, generation |-> Target(txs + 1, n),
                type |-> EventType(n)] \in E
    <3>1. n.key \in Keys /\ EventType(n) \in EventTypes
      BY DEF Extracted, EventType, EventTypes
    <3>2. txs + 1 \in TxIds
      BY NextIdFree
    <3>3. Target(txs + 1, n) \in TxIds
      <4>1. CASE EventType(n) = "created"
        BY <3>2, <4>1 DEF Target
      <4>2. CASE EventType(n) # "created"
        <5>1. LiveOf(n.key) # {}
          BY <1>3, <4>2 DEF Persistable
        <5>2. LiveOf(n.key) \subseteq TxIds
          BY DEF LiveOf
        <5> QED BY <4>2, <5>1, <5>2 DEF Target
      <4> QED BY <4>1, <4>2
    <3> QED BY <3>1, <3>2, <3>3
  <2>2. Logged(txs + 1, ms) \subseteq E
    BY <2>1 DEF Logged
  <2> QED BY <1>1, <1>3, <2>2 DEF Persist
<1> QED BY <1>2, <1>3

\* A transaction keeps the types if its effects on objects and rows do.
LEMMA TransactionTyped ==
    ASSUME IndInv, NEW nodes, \A n \in nodes : n.key \in Keys, NEW t, NEW a, NEW after,
           Transaction(t, a, nodes, after), after \in [Keys -> Objects],
           generation' \in [TxIds -> Rows \cup {NoRow}], halted' = halted
    PROVE  TypeOK' /\ NeverHalts'
<1>1. txs < MaxTxs /\ txs \in Nat /\ txIndex \in Nat /\ txIndex <= txs
  BY DEF Transaction, IndInv, TypeOK
<1>2. txs' \in 0 .. MaxTxs /\ txIndex' \in 0 .. MaxTxs /\ txIndex' <= txs'
  BY <1>1 DEF Transaction
<1>3. events' \subseteq [tx : TxIds, key : Keys, generation : TxIds, type : EventTypes]
  BY <1>1, EventsTyped DEF Transaction
<1>4. /\ ledgerIndex' \in 1 .. MaxLedger /\ parentCloseTime' \in 0 .. MaxTime
      /\ closeTime' \in parentCloseTime' .. MaxTime
      /\ known' \subseteq Uids /\ announced' \subseteq known'
  BY DEF Transaction, IndInv, TypeOK
<1>5. object' \in [Keys -> Objects]
  BY DEF Transaction
<1>6. halted' \in BOOLEAN /\ ~halted'
  BY DEF IndInv, TypeOK, NeverHalts
<1> QED BY <1>2, <1>3, <1>4, <1>5, <1>6 DEF TypeOK, NeverHalts

\* A row that a live generation has is a full row.
LEMMA LiveIsRow ==
    ASSUME IndInv, NEW i \in TxIds, Live(i)
    PROVE  generation[i] \in Rows
BY DEF IndInv, TypeOK, Live, NoRow

\* CredentialCreate preserves the invariant.
LEMMA CreateStep ==
    ASSUME IndInv, NEW k \in Keys, NEW e \in Expirations \cup {NoExpiration}, NEW c \in BOOLEAN,
           CredentialCreate(k, e, c)
    PROVE  IndInv'
<1> DEFINE o == [exists |-> TRUE, accepted |-> k.issuer = k.subject, expiration |-> e,
                 conforming |-> c, creator |-> txs + 1]
           n == Node("CreatedNode", k, o, FALSE)
<1>1. /\ ~object[k].exists /\ k.type \in announced \cup {Foreign}
      /\ Transaction("CredentialCreate", k.issuer, {n}, [object EXCEPT ![k] = o])
  BY DEF CredentialCreate
<1>2. txs < MaxTxs /\ txs \in Nat /\ txs' = txs + 1 /\ txs + 1 \in TxIds
  BY <1>1, NextIdFree DEF Transaction, IndInv, TypeOK
<1>3. o \in Objects
  BY <1>2 DEF Objects, TxIds
<1>4. object' = [object EXCEPT ![k] = o] /\ UNCHANGED <<known, ledgerIndex>>
  BY <1>1 DEF Transaction
<1>5. object \in [Keys -> Objects] /\ generation \in [TxIds -> Rows \cup {NoRow}]
      /\ ledgerIndex \in 1 .. MaxLedger /\ announced \subseteq known
      /\ txIndex \in 0 .. MaxTxs
  BY DEF IndInv, TypeOK
<1>6. n.key = k /\ n.accepted = o.accepted /\ n.expiration = o.expiration
  BY DEF Node
<1>7. Persist("CredentialCreate", k.issuer, txs + 1, Extracted({n}))
  BY <1>1 DEF Transaction
<1> HIDE DEF n
<1>8. /\ halted' = halted
      /\ generation' = IF k.type \in known /\ o.conforming
                       THEN [generation EXCEPT ![txs + 1] = NewRow(n)] ELSE generation
  BY <1>1, <1>2, <1>3, <1>7, CreateEffect DEF n
<1>9. NewRow(n) \in Rows /\ NewRow(n).key = k /\ NewRow(n).accepted = o.accepted
      /\ NewRow(n).expiration = e /\ NewRow(n).created # 0 /\ NewRow(n).deleted = 0
  BY <1>3, <1>5, <1>6 DEF NewRow, Rows, Objects
<1>10. generation' \in [TxIds -> Rows \cup {NoRow}]
  BY <1>2, <1>5, <1>8, <1>9
<1>11. object' \in [Keys -> Objects]
  BY <1>3, <1>4, <1>5
<1>12. TypeOK' /\ NeverHalts'
  BY <1>1, <1>4, <1>6, <1>8, <1>10, <1>11, TransactionTyped
<1>13. \A x \in Keys : object'[x] = IF x = k THEN o ELSE object[x]
  BY <1>4, <1>5
<1>14. ObjectsInv'
  <2> SUFFICES ASSUME NEW x \in Keys, object'[x].exists
               PROVE  object'[x].creator \in 1 .. txs' /\ x.type \in known' \cup {Foreign}
    BY DEF ObjectsInv
  <2>1. CASE x = k
    BY <1>1, <1>2, <1>4, <1>5, <1>13, <2>1
  <2>2. CASE x # k
    BY <1>2, <1>4, <1>13, <2>2 DEF IndInv, ObjectsInv
  <2> QED BY <2>1, <2>2
<1>15. RowsInv'
  BY <1>2, <1>5, <1>8 DEF IndInv, RowsInv, TxIds
<1>16. \A x \in Keys : x # k => (IsXcs(x)' <=> IsXcs(x))
  BY <1>4, <1>13 DEF IsXcs
<1>17. IsXcs(k)' <=> k.type \in known /\ c
  BY <1>4, <1>13 DEF IsXcs
<1>18. ForwardInv'
  <2> SUFFICES ASSUME NEW x \in Keys, IsXcs(x)'
               PROVE  /\ Live(object[x].creator)' /\ generation'[object'[x].creator].key = x
                      /\ generation'[object'[x].creator].accepted = object'[x].accepted
                      /\ generation'[object'[x].creator].expiration = object'[x].expiration
    BY DEF ForwardInv
  <2>1. CASE x = k
    <3>1. generation'[txs + 1] = NewRow(n) /\ object'[x].creator = txs + 1
      BY <1>2, <1>5, <1>8, <1>13, <1>17, <2>1
    <3> QED BY <1>9, <1>13, <2>1, <3>1 DEF Live
  <2>2. CASE x # k
    <3>1. IsXcs(x) /\ object'[x] = object[x]
      BY <1>13, <1>16, <2>2
    <3>2. object[x].creator \in 1 .. txs
      BY <3>1 DEF IndInv, ObjectsInv, IsXcs
    <3>3. generation'[object[x].creator] = generation[object[x].creator]
      BY <1>2, <1>5, <1>8, <3>2 DEF TxIds
    <3> QED BY <3>1, <3>3 DEF IndInv, ForwardInv, Live
  <2> QED BY <2>1, <2>2
<1>19. BackwardInv'
  <2> SUFFICES ASSUME NEW i \in TxIds, Live(i)'
               PROVE  /\ generation'[i].key \in Keys /\ IsXcs(generation[i].key)'
                      /\ object'[generation'[i].key].creator = i
    BY DEF BackwardInv
  <2>1. CASE i = txs + 1 /\ k.type \in known /\ c
    <3>1. generation'[i].key = k
      BY <1>5, <1>8, <1>9, <2>1
    <3> QED BY <1>13, <1>17, <2>1, <3>1
  <2>2. CASE ~(i = txs + 1 /\ k.type \in known /\ c)
    <3>1. generation'[i] = generation[i]
      BY <1>5, <1>8, <2>2
    <3>2. generation[i].key \in Keys /\ IsXcs(generation[i].key)
          /\ object[generation[i].key].creator = i
      BY <3>1 DEF IndInv, BackwardInv, Live
    <3>3. generation[i].key # k
      BY <1>1, <3>2 DEF IsXcs
    <3> QED BY <1>13, <1>16, <3>1, <3>2, <3>3
  <2> QED BY <2>1, <2>2
<1> QED BY <1>12, <1>14, <1>15, <1>18, <1>19 DEF IndInv

\* CredentialAccept preserves the invariant.
LEMMA AcceptStep ==
    ASSUME IndInv, NEW k \in Keys, CredentialAccept(k)
    PROVE  IndInv'
<1> DEFINE o == [object[k] EXCEPT !.accepted = TRUE]
           n == Node("ModifiedNode", k, o, FALSE)
           d == object[k].creator
           r == [generation[d] EXCEPT !.accepted = TRUE, !.last = ledgerIndex]
<1>1. /\ object[k].exists
      /\ Transaction("CredentialAccept", k.subject, {n}, [object EXCEPT ![k] = o])
  BY DEF CredentialAccept
<1>2. txs < MaxTxs /\ txs \in Nat /\ txs' = txs + 1 /\ txs + 1 \in TxIds
  BY <1>1, NextIdFree DEF Transaction, IndInv, TypeOK
<1>3. object \in [Keys -> Objects] /\ generation \in [TxIds -> Rows \cup {NoRow}]
      /\ ledgerIndex \in 1 .. MaxLedger
  BY DEF IndInv, TypeOK
<1>4. /\ o \in Objects /\ o.accepted /\ o.conforming = object[k].conforming
      /\ o.exists = object[k].exists /\ o.creator = d /\ o.expiration = object[k].expiration
      /\ o.accepted = TRUE
  BY <1>3 DEF Objects
<1>5. object' = [object EXCEPT ![k] = o] /\ UNCHANGED known
  BY <1>1 DEF Transaction
<1>6. n.key = k
  BY DEF Node
<1>7. Persist("CredentialAccept", k.subject, txs + 1, Extracted({n}))
  BY <1>1 DEF Transaction
<1> HIDE DEF o
<1>8. halted' = halted /\ generation' = IF IsXcs(k) THEN [generation EXCEPT ![d] = r]
                                                    ELSE generation
  BY <1>1, <1>2, <1>4, <1>7, AcceptEffect
<1>9. ASSUME IsXcs(k)
      PROVE  /\ d \in TxIds /\ d \in 1 .. txs /\ r \in Rows /\ generation[d] # NoRow
             /\ r.created # 0 /\ r.deleted = 0 /\ r.key = k /\ r.accepted = TRUE
             /\ r.expiration = object[k].expiration
  <2>1. d \in TxIds /\ d \in 1 .. txs
    BY <1>1, <1>2 DEF IndInv, ObjectsInv, TxIds
  <2>2. Live(d) /\ generation[d].key = k /\ generation[d].expiration = object[k].expiration
    BY <1>9 DEF IndInv, ForwardInv
  <2>3. generation[d] \in Rows
    BY <2>1, <2>2, LiveIsRow
  <2>4. \A g \in Rows : LET h == [g EXCEPT !.accepted = TRUE, !.last = ledgerIndex] IN
          /\ h \in Rows /\ h.created = g.created /\ h.deleted = g.deleted /\ h.key = g.key
          /\ h.accepted = TRUE /\ h.expiration = g.expiration
    BY <1>3 DEF Rows
  <2>5. generation[d].created # 0 /\ generation[d].deleted = 0 /\ generation[d] # NoRow
    BY <2>2 DEF Live, NoRow
  <2> QED BY <2>1, <2>2, <2>3, <2>4, <2>5
<1> HIDE DEF r, n
<1>10. generation' \in [TxIds -> Rows \cup {NoRow}]
  BY <1>3, <1>8, <1>9
<1>11. TypeOK' /\ NeverHalts'
  <2>1. [object EXCEPT ![k] = o] \in [Keys -> Objects]
    BY <1>3, <1>4
  <2>2. \A m \in {n} : m.key \in Keys
    BY <1>6
  <2> QED BY <1>1, <1>8, <1>10, <2>1, <2>2, TransactionTyped
<1>12. \A x \in Keys : object'[x] = IF x = k THEN o ELSE object[x]
  BY <1>3, <1>5
<1>13. ObjectsInv'
  BY <1>1, <1>2, <1>4, <1>5, <1>12 DEF IndInv, ObjectsInv
<1>14. RowsInv'
  <2> SUFFICES ASSUME NEW i \in TxIds, generation'[i] # NoRow PROVE i <= txs'
    BY DEF RowsInv
  <2>1. generation[i] # NoRow
    BY <1>3, <1>8, <1>9
  <2>2. i <= txs
    BY <2>1 DEF IndInv, RowsInv
  <2> QED BY <1>2, <2>2 DEF TxIds
<1>15. \A x \in Keys : /\ IsXcs(x)' <=> IsXcs(x)
                       /\ object'[x].creator = object[x].creator
                       /\ object'[x].expiration = object[x].expiration
  BY <1>4, <1>5, <1>12 DEF IsXcs
<1>16. \A i \in TxIds : /\ Live(i)' <=> Live(i)
                        /\ Live(i) => generation'[i].key = generation[i].key
  <2> SUFFICES ASSUME NEW i \in TxIds
               PROVE  /\ Live(i)' <=> Live(i)
                      /\ Live(i) => generation'[i].key = generation[i].key
    OBVIOUS
  <2>1. CASE IsXcs(k) /\ i = d
    BY <1>3, <1>8, <1>9, <2>1 DEF IndInv, ForwardInv, Live
  <2>2. CASE ~(IsXcs(k) /\ i = d)
    BY <1>3, <1>8, <2>2 DEF Live
  <2> QED BY <2>1, <2>2
<1>17. ForwardInv'
  <2> SUFFICES ASSUME NEW x \in Keys, IsXcs(x)'
               PROVE  /\ Live(object[x].creator)' /\ generation'[object'[x].creator].key = x
                      /\ generation'[object'[x].creator].accepted = object'[x].accepted
                      /\ generation'[object'[x].creator].expiration = object'[x].expiration
    BY DEF ForwardInv
  <2>1. IsXcs(x) /\ object'[x].creator = object[x].creator
    BY <1>15
  <2>2. CASE x = k
    <3>1. generation'[d] = r
      BY <1>3, <1>8, <1>9, <2>1, <2>2
    <3> QED BY ZenonT(40), <1>4, <1>9, <1>12, <2>1, <2>2, <3>1 DEF Live
  <2>3. CASE x # k
    <3>1. Live(object[x].creator) /\ generation[object[x].creator].key = x
      BY <2>1 DEF IndInv, ForwardInv
    <3>2. IsXcs(k) => d # object[x].creator
      BY <2>3, <3>1 DEF IndInv, ForwardInv
    <3>3. generation'[object[x].creator] = generation[object[x].creator]
      BY <1>3, <1>8, <1>9, <3>2
    <3>4. object'[x] = object[x]
      BY <1>12, <2>3
    <3> QED BY <2>1, <3>3, <3>4 DEF IndInv, ForwardInv, Live
  <2> QED BY <2>2, <2>3
<1>18. BackwardInv'
  BY <1>15, <1>16 DEF IndInv, BackwardInv
<1> QED BY <1>11, <1>13, <1>14, <1>17, <1>18 DEF IndInv

\* A transaction that removes objects preserves the invariant.
LEMMA RemovalStep ==
    ASSUME IndInv, NEW keys \in SUBSET Keys, \A k \in keys : object[k].exists,
           NEW t, NEW a, Transaction(t, a, Deleted(keys), Without(keys))
    PROVE  IndInv'
<1>1. txs < MaxTxs /\ txs \in Nat /\ txs' = txs + 1
  BY NextIdFree DEF Transaction, IndInv, TypeOK
<1>2. object \in [Keys -> Objects] /\ generation \in [TxIds -> Rows \cup {NoRow}]
      /\ ledgerIndex \in 1 .. MaxLedger
  BY DEF IndInv, TypeOK
<1>3. object' = Without(keys) /\ UNCHANGED known
      /\ Persist(t, a, txs + 1, Extracted(Deleted(keys)))
  BY DEF Transaction
<1>4. \A x \in Keys : object'[x] = IF x \in keys THEN NoObject ELSE object[x]
  BY <1>3 DEF Without
<1>5. Without(keys) \in [Keys -> Objects]
  BY <1>2 DEF Without, Objects, NoObject
<1>6. /\ halted' = halted
      /\ generation' = [i \in TxIds |-> IF Live(i) /\ generation[i].key \in keys
                                        THEN Ended(t, a, i) ELSE generation[i]]
  BY <1>1, <1>3, DeleteEffect
<1>7. \A i \in TxIds : generation'[i] = IF Live(i) /\ generation[i].key \in keys
                                        THEN Ended(t, a, i) ELSE generation[i]
  BY <1>6
<1>8. ASSUME NEW i \in TxIds, Live(i)
      PROVE  Ended(t, a, i) \in Rows /\ Ended(t, a, i).deleted # 0
  <2>1. generation[i] \in Rows
    BY <1>8, LiveIsRow
  <2>2. \A n : DeletionCause(t, a, n) \in Causes
    BY DEF DeletionCause, Causes
  <2>3. \A g \in Rows, cause \in Causes :
          LET h == [g EXCEPT !.last = ledgerIndex, !.deleted = ledgerIndex, !.cause = cause] IN
          h \in Rows /\ h.deleted = ledgerIndex
    <3>1. ledgerIndex \in 1 .. MaxLedger /\ ledgerIndex \in 0 .. MaxLedger
      BY <1>2
    <3> QED BY <3>1 DEF Rows
  <2>4. ledgerIndex # 0
    BY <1>2
  <2> QED BY <2>1, <2>2, <2>3, <2>4 DEF Ended
<1>9. generation' \in [TxIds -> Rows \cup {NoRow}]
  BY <1>2, <1>6, <1>8
<1>10. \A n \in Deleted(keys) : n.key \in Keys
  BY DEF Deleted, Node
<1>11. TypeOK' /\ NeverHalts'
  BY <1>5, <1>6, <1>9, <1>10, TransactionTyped
<1>12. ObjectsInv'
  BY <1>1, <1>3, <1>4 DEF IndInv, ObjectsInv, NoObject
<1>13. RowsInv'
  <2> SUFFICES ASSUME NEW i \in TxIds, generation'[i] # NoRow PROVE i <= txs'
    BY DEF RowsInv
  <2>1. generation[i] # NoRow
    BY <1>7 DEF Live, NoRow
  <2> QED BY <1>1, <2>1 DEF IndInv, RowsInv, TxIds
<1>14. \A x \in Keys : IsXcs(x)' <=> IsXcs(x) /\ x \notin keys
  BY <1>3, <1>4 DEF IsXcs, NoObject
<1>15. \A i \in TxIds : /\ Live(i)' <=> Live(i) /\ generation[i].key \notin keys
                        /\ Live(i)' => generation'[i] = generation[i]
  BY <1>7, <1>8 DEF Live
<1>16. ForwardInv'
  <2> SUFFICES ASSUME NEW x \in Keys, IsXcs(x)'
               PROVE  /\ Live(object[x].creator)' /\ generation'[object'[x].creator].key = x
                      /\ generation'[object'[x].creator].accepted = object'[x].accepted
                      /\ generation'[object'[x].creator].expiration = object'[x].expiration
    BY DEF ForwardInv
  <2>1. IsXcs(x) /\ x \notin keys /\ object'[x] = object[x]
    BY <1>4, <1>14
  <2>2. object[x].creator \in TxIds
    BY <2>1, LiveOfIs
  <2>3. Live(object[x].creator) /\ generation[object[x].creator].key = x
    BY <2>1 DEF IndInv, ForwardInv
  <2>4. Live(object[x].creator)' /\ generation'[object[x].creator] = generation[object[x].creator]
    BY <1>7, <2>1, <2>2, <2>3 DEF Live
  <2> QED BY <2>1, <2>4 DEF IndInv, ForwardInv
<1>17. BackwardInv'
  BY <1>4, <1>14, <1>15 DEF IndInv, BackwardInv
<1> QED BY <1>11, <1>12, <1>13, <1>16, <1>17 DEF IndInv

\* RegisterSchema preserves the invariant: no object has the new UID as its type.
LEMMA RegisterStep ==
    ASSUME IndInv, NEW u \in Uids, RegisterSchema(u)
    PROVE  IndInv'
<1>1. /\ txs < MaxTxs /\ txs \in Nat /\ txs' = txs + 1 /\ txIndex' = txIndex + 1
      /\ u \notin known /\ known' = known \cup {u}
      /\ UNCHANGED <<ledgerIndex, parentCloseTime, closeTime, object, announced,
                     generation, events, halted>>
  BY DEF RegisterSchema, tableVars, IndInv, TypeOK
<1>2. TypeOK' /\ NeverHalts'
  BY <1>1 DEF IndInv, TypeOK, NeverHalts
<1>3. ObjectsInv'
  BY <1>1 DEF IndInv, ObjectsInv
<1>4. RowsInv'
  BY <1>1 DEF IndInv, RowsInv, TxIds
<1>5. \A k \in Keys : IsXcs(k)' <=> IsXcs(k)
  BY <1>1 DEF IndInv, ObjectsInv, IsXcs
<1>6. ForwardInv'
  BY <1>1, <1>5 DEF IndInv, ForwardInv, Live
<1>7. BackwardInv'
  BY <1>1, <1>5 DEF IndInv, BackwardInv, Live
<1> QED BY <1>2, <1>3, <1>4, <1>6, <1>7 DEF IndInv

\* CloseLedger preserves the invariant.
LEMMA CloseStep ==
    ASSUME IndInv, CloseLedger
    PROVE  IndInv'
<1>1. /\ ledgerIndex < MaxLedger /\ ledgerIndex' = ledgerIndex + 1 /\ txIndex' = 0
      /\ parentCloseTime' = closeTime /\ closeTime' \in closeTime .. MaxTime
      /\ announced' = known
      /\ UNCHANGED <<txs, object, known, generation, events, halted>>
  BY DEF CloseLedger, tableVars
<1>2. TypeOK' /\ NeverHalts'
  BY <1>1 DEF IndInv, TypeOK, NeverHalts
<1>3. ObjectsInv' /\ RowsInv'
  BY <1>1 DEF IndInv, ObjectsInv, RowsInv
<1>4. ForwardInv' /\ BackwardInv'
  BY <1>1 DEF IndInv, ForwardInv, BackwardInv, IsXcs, Live
<1> QED BY <1>2, <1>3, <1>4 DEF IndInv

\* The initial state satisfies the invariant.
LEMMA IndInit ==
    ASSUME Init
    PROVE  IndInv
<1>1. TypeOK
  <2>1. object \in [Keys -> Objects]
    BY DEF Init, Objects, NoObject
  <2>2. generation \in [TxIds -> Rows \cup {NoRow}]
    BY DEF Init
  <2>3. /\ ledgerIndex \in 1 .. MaxLedger /\ txIndex \in 0 .. MaxTxs /\ txs \in 0 .. MaxTxs
        /\ txIndex <= txs /\ parentCloseTime \in 0 .. MaxTime
        /\ closeTime \in parentCloseTime .. MaxTime
    BY DEF Init
  <2>4. /\ known \subseteq Uids /\ announced \subseteq known /\ halted \in BOOLEAN
        /\ events \subseteq [tx : TxIds, key : Keys, generation : TxIds, type : EventTypes]
    BY DEF Init
  <2> QED BY <2>1, <2>2, <2>3, <2>4 DEF TypeOK
<1>2. \A k \in Keys : ~object[k].exists
  BY DEF Init, NoObject
<1>3. \A i \in TxIds : generation[i] = NoRow /\ ~Live(i)
  BY DEF Init, Live, NoRow
<1> QED BY <1>1, <1>2, <1>3 DEF IndInv, Init, NeverHalts, ObjectsInv, RowsInv,
           ForwardInv, BackwardInv, IsXcs

\* The three removals, as what they have in common.
Removal(t, a, keys) ==
    /\ keys \in SUBSET Keys /\ \A k \in keys : object[k].exists
    /\ Transaction(t, a, Deleted(keys), Without(keys))

\* The steps, by the kind of their effect.
LEMMA NextCases ==
    ASSUME IndInv, [Next]_vars
    PROVE  \/ UNCHANGED vars
           \/ CloseLedger
           \/ \E u \in Uids : RegisterSchema(u)
           \/ \E k \in Keys, e \in Expirations \cup {NoExpiration}, c \in BOOLEAN :
                CredentialCreate(k, e, c)
           \/ \E k \in Keys : CredentialAccept(k)
           \/ \E k \in Keys, a \in Accounts :
                CredentialDelete(k, a) /\ Removal("CredentialDelete", a, {k})
           \/ \E a \in Accounts, keys \in SUBSET Keys :
                AccountDelete(a) /\ Removal("AccountDelete", a, keys)
           \/ \E a \in Accounts, keys \in SUBSET Keys :
                RemoveExpired(a, keys) /\ Removal("Other", a, keys)
<1>1. \A k \in Keys, a \in Accounts :
        CredentialDelete(k, a) => Removal("CredentialDelete", a, {k})
  BY DEF CredentialDelete, Removal
<1>2. \A a \in Accounts :
        AccountDelete(a) => \E keys \in SUBSET Keys : Removal("AccountDelete", a, keys)
  <2> SUFFICES ASSUME NEW a \in Accounts, AccountDelete(a)
               PROVE  \E keys \in SUBSET Keys : Removal("AccountDelete", a, keys)
    OBVIOUS
  <2> DEFINE keys == {k \in Keys : object[k].exists /\ a \in {k.issuer, k.subject}}
  <2> WITNESS keys \in SUBSET Keys
  <2> QED BY DEF AccountDelete, Removal
<1>3. \A a \in Accounts, keys \in SUBSET Keys :
        RemoveExpired(a, keys) => Removal("Other", a, keys)
  BY DEF RemoveExpired, Removal
<1> QED BY <1>1, <1>2, <1>3 DEF Next

\* Every step preserves the invariant.
LEMMA IndStep ==
    ASSUME IndInv, [Next]_vars
    PROVE  IndInv'
<1>1. CASE UNCHANGED vars
  BY <1>1 DEF vars, ledgerVars, tableVars, IndInv, TypeOK, NeverHalts, ObjectsInv, RowsInv,
     ForwardInv, BackwardInv, IsXcs, Live
<1>2. CASE CloseLedger
  BY <1>2, CloseStep
<1>3. ASSUME NEW u \in Uids, RegisterSchema(u) PROVE IndInv'
  BY <1>3, RegisterStep
<1>4. ASSUME NEW k \in Keys, NEW e \in Expirations \cup {NoExpiration}, NEW c \in BOOLEAN,
             CredentialCreate(k, e, c)
      PROVE  IndInv'
  BY <1>4, CreateStep
<1>5. ASSUME NEW k \in Keys, CredentialAccept(k) PROVE IndInv'
  BY <1>5, AcceptStep
<1>6. ASSUME NEW t, NEW a, NEW keys, Removal(t, a, keys) PROVE IndInv'
  BY <1>6, RemovalStep DEF Removal
<1> QED BY <1>1, <1>2, <1>3, <1>4, <1>5, <1>6, NextCases

-----------------------------------------------------------------------------
(* The causes of deletions.                                                *)

\* What CausesTruthful says of one row.
CauseFits(r) ==
    /\ r.cause = "none" <=> r.deleted = 0
    /\ r.cause # "self_deleted"
    /\ r.cause = "subject_rejected" => ~r.accepted
    /\ r.cause = "subject_removed" => r.accepted
    /\ r.cause \in {"subject_rejected", "subject_removed"} => r.key.issuer # r.key.subject
    /\ r.cause = "expired_cleanup" => Reached(r.expiration)

\* CausesTruthful, row by row.
LEMMA CausesByRow == CausesTruthful <=> \A i \in TxIds : generation[i] # NoRow => CauseFits(generation[i])
BY DEF CausesTruthful, CauseFits

\* deletionCause gives a removed object a cause that fits it.
LEMMA CauseOfRemoval ==
    ASSUME IndInv, NEW k \in Keys, object[k].exists, NEW t, NEW a,
           \/ t = "AccountDelete"
           \/ t = "CredentialDelete" /\ (a \in {k.issuer, k.subject} \/ MayBeExpired(object[k]))
           \/ t = "Other" /\ MayBeExpired(object[k])
    PROVE  LET c == DeletionCause(t, a, Node("DeletedNode", k, object[k], FALSE)) IN
           /\ c \notin {"none", "self_deleted"}
           /\ c = "subject_rejected" => ~object[k].accepted
           /\ c = "subject_removed" => object[k].accepted
           /\ c \in {"subject_rejected", "subject_removed"} => k.issuer # k.subject
           /\ c = "expired_cleanup" => Reached(object[k].expiration)
<1> DEFINE n == Node("DeletedNode", k, object[k], FALSE)
<1>1. n.key = k /\ n.accepted = object[k].accepted /\ n.expiration = object[k].expiration
  BY DEF Node
<1> HIDE DEF n
<1>2. MayBeExpired(object[k]) => Reached(object[k].expiration)
  <2>1. parentCloseTime \in Nat /\ closeTime \in Nat /\ parentCloseTime <= closeTime
    BY DEF IndInv, TypeOK
  <2>2. object[k].expiration # NoExpiration => object[k].expiration \in Nat
    <3>1. object[k].expiration \in Expirations \cup {NoExpiration}
      BY DEF IndInv, TypeOK, Objects
    <3>2. \A x \in Expirations : x \in 0 .. MaxTime
      BY ProjectionConstants
    <3>3. 0 .. MaxTime \subseteq Nat
      BY ProjectionConstants
    <3> QED BY <3>1, <3>2, <3>3
  <2> QED BY <2>1, <2>2 DEF MayBeExpired, Reached
<1>3. CASE t = "AccountDelete"
  <2>1. DeletionCause(t, a, n) = "account_deleted"
    BY <1>3 DEF DeletionCause
  <2> QED BY <2>1 DEF n
<1>4. CASE t = "CredentialDelete" /\ a = k.issuer
  <2>1. DeletionCause(t, a, n) = "issuer_revoked"
    BY <1>1, <1>4 DEF DeletionCause
  <2> QED BY <2>1 DEF n
<1>5. CASE t = "CredentialDelete" /\ a # k.issuer /\ a = k.subject
  <2>1. DeletionCause(t, a, n) = IF object[k].accepted THEN "subject_removed"
                                                       ELSE "subject_rejected"
    BY <1>1, <1>5 DEF DeletionCause
  <2> QED BY <1>5, <2>1 DEF n
<1>6. CASE t # "AccountDelete" /\ ~(t = "CredentialDelete" /\ a \in {k.issuer, k.subject})
  <2>1. Reached(object[k].expiration)
    BY <1>2, <1>6
  <2>2. DeletionCause(t, a, n) = "expired_cleanup"
    BY <1>1, <1>6, <2>1 DEF DeletionCause, Reached
  <2> QED BY <2>1, <2>2 DEF n
<1> QED BY <1>3, <1>4, <1>5, <1>6

\* A removal whose causes fit keeps them truthful.
LEMMA RemovalCauses ==
    ASSUME IndInv, CausesTruthful, NEW t, NEW a, NEW keys, Removal(t, a, keys),
           \A k \in keys :
              \/ t = "AccountDelete"
              \/ t = "CredentialDelete" /\ (a \in {k.issuer, k.subject} \/ MayBeExpired(object[k]))
              \/ t = "Other" /\ MayBeExpired(object[k])
    PROVE  CausesTruthful'
<1>1. /\ generation' = [i \in TxIds |-> IF Live(i) /\ generation[i].key \in keys
                                        THEN Ended(t, a, i) ELSE generation[i]]
      /\ closeTime' = closeTime /\ ledgerIndex \in 1 .. MaxLedger
  BY DeleteEffect DEF Removal, Transaction, IndInv, TypeOK
<1>2. \A x : Reached(x)' <=> Reached(x)
  BY <1>1 DEF Reached
<1> SUFFICES ASSUME NEW i \in TxIds, generation'[i] # NoRow
             PROVE  CauseFits(generation[i])'
  BY DEF CausesTruthful, CauseFits
<1>3. CASE ~(Live(i) /\ generation[i].key \in keys)
  <2>1. generation'[i] = generation[i]
    BY <1>1, <1>3
  <2>2. CauseFits(generation[i])
    BY <2>1, CausesByRow
  <2> QED BY <1>2, <2>1, <2>2 DEF CauseFits
<1>4. CASE Live(i) /\ generation[i].key \in keys
  <2> DEFINE k == generation[i].key
             c == DeletionCause(t, a, Node("DeletedNode", k, object[k], FALSE))
  <2>1. k \in Keys /\ IsXcs(k) /\ object[k].creator = i
    BY <1>4 DEF IndInv, BackwardInv
  <2>2. generation[i].accepted = object[k].accepted
        /\ generation[i].expiration = object[k].expiration
    BY <2>1 DEF IndInv, ForwardInv
  <2>3. generation[i] \in Rows
    BY <1>4, LiveIsRow
  <2>4. /\ c \notin {"none", "self_deleted"}
        /\ c = "subject_rejected" => ~object[k].accepted
        /\ c = "subject_removed" => object[k].accepted
        /\ c \in {"subject_rejected", "subject_removed"} => k.issuer # k.subject
        /\ c = "expired_cleanup" => Reached(object[k].expiration)
    <3>1. object[k].exists
      BY <2>1 DEF IsXcs
    <3> QED BY <1>4, <2>1, <3>1, CauseOfRemoval
  <2> HIDE DEF c
  <2>5. \A g \in Rows : LET h == [g EXCEPT !.last = ledgerIndex, !.deleted = ledgerIndex,
                                            !.cause = c] IN
          /\ h.cause = c /\ h.deleted = ledgerIndex /\ h.key = g.key
          /\ h.accepted = g.accepted /\ h.expiration = g.expiration
    BY DEF Rows
  <2>6. generation'[i] = Ended(t, a, i)
    BY <1>1, <1>4
  <2>7. /\ generation'[i].cause = c /\ generation'[i].deleted = ledgerIndex
        /\ generation'[i].key = k /\ generation'[i].accepted = generation[i].accepted
        /\ generation'[i].expiration = generation[i].expiration
    BY <2>3, <2>5, <2>6 DEF Ended, c
  <2>8. ledgerIndex # 0
    BY <1>1
  <2> QED BY <1>2, <2>2, <2>4, <2>7, <2>8 DEF CauseFits
<1> QED BY <1>3, <1>4

\* Every step keeps the causes truthful.
LEMMA CausesStep ==
    ASSUME IndInv, CausesTruthful, [Next]_vars
    PROVE  CausesTruthful'
<1> SUFFICES ASSUME \A i \in TxIds : generation[i] # NoRow => CauseFits(generation[i])
             PROVE  CausesTruthful'
  BY CausesByRow
<1>1. ASSUME \A x : Reached(x) => Reached(x)',
             \A i \in TxIds : generation'[i] # NoRow =>
                \/ generation'[i] = generation[i]
                \/ generation'[i].cause = "none" /\ generation'[i].deleted = 0
      PROVE  CausesTruthful'
  <2> SUFFICES ASSUME NEW i \in TxIds, generation'[i] # NoRow PROVE CauseFits(generation[i])'
    BY DEF CausesTruthful, CauseFits
  <2>1. CASE generation'[i] = generation[i]
    <3>1. CauseFits(generation[i])
      BY <2>1
    <3> QED BY <1>1, <2>1, <3>1 DEF CauseFits
  <2>2. CASE generation'[i].cause = "none" /\ generation'[i].deleted = 0
    BY <2>2 DEF CauseFits
  <2> QED BY <1>1, <2>1, <2>2
<1>2. closeTime' = closeTime => \A x : Reached(x) => Reached(x)'
  BY DEF Reached
<1>3. CASE UNCHANGED vars
  BY <1>1, <1>2, <1>3 DEF vars, ledgerVars, tableVars
<1>4. CASE CloseLedger
  <2>1. /\ closeTime \in 0 .. MaxTime /\ closeTime' \in closeTime .. MaxTime
        /\ generation' = generation
    BY <1>4 DEF CloseLedger, tableVars, IndInv, TypeOK
  <2>2. ASSUME NEW i \in TxIds, generation[i] # NoRow PROVE CauseFits(generation[i])'
    <3>1. CauseFits(generation[i])
      BY <2>2
    <3>2. generation[i].expiration \in Expirations \cup {NoExpiration}
      BY <2>2 DEF IndInv, TypeOK, Rows
    <3>3. \A x \in Expirations : x \in 0 .. MaxTime
      BY ProjectionConstants
    <3>4. generation[i].expiration # NoExpiration => generation[i].expiration \in 0 .. MaxTime
      BY <3>2, <3>3
    <3>5. Reached(generation[i].expiration) => Reached(generation[i].expiration)'
      BY <2>1, <3>4 DEF Reached
    <3> QED BY <2>1, <3>1, <3>5 DEF CauseFits
  <2> QED BY <2>1, <2>2 DEF CausesTruthful, CauseFits
<1>5. ASSUME NEW u \in Uids, RegisterSchema(u) PROVE CausesTruthful'
  BY <1>1, <1>2, <1>5 DEF RegisterSchema, tableVars
<1>6. ASSUME NEW k \in Keys, NEW e \in Expirations \cup {NoExpiration}, NEW c \in BOOLEAN,
             CredentialCreate(k, e, c)
      PROVE  CausesTruthful'
  <2> DEFINE o == [exists |-> TRUE, accepted |-> k.issuer = k.subject, expiration |-> e,
                   conforming |-> c, creator |-> txs + 1]
             n == Node("CreatedNode", k, o, FALSE)
  <2>1. /\ ~object[k].exists
        /\ Transaction("CredentialCreate", k.issuer, {n}, [object EXCEPT ![k] = o])
    BY <1>6 DEF CredentialCreate
  <2>2. txs < MaxTxs /\ txs + 1 \in TxIds /\ closeTime' = closeTime
    BY <2>1, NextIdFree DEF Transaction
  <2>3. o \in Objects
    BY <2>2 DEF Objects, TxIds, IndInv, TypeOK
  <2>4. generation' \in {generation, [generation EXCEPT ![txs + 1] = NewRow(n)]}
    BY <2>1, <2>2, <2>3, CreateEffect DEF Transaction
  <2> HIDE DEF n
  <2>5. NewRow(n).cause = "none" /\ NewRow(n).deleted = 0
    BY DEF NewRow
  <2>6. generation \in [TxIds -> Rows \cup {NoRow}]
    BY DEF IndInv, TypeOK
  <2> QED BY <1>1, <1>2, <2>2, <2>4, <2>5, <2>6
<1>7. ASSUME NEW k \in Keys, CredentialAccept(k) PROVE CausesTruthful'
  <2> DEFINE o == [object[k] EXCEPT !.accepted = TRUE]
             n == Node("ModifiedNode", k, o, FALSE)
             d == object[k].creator
             r == [generation[d] EXCEPT !.accepted = TRUE, !.last = ledgerIndex]
  <2>1. /\ object[k].exists
        /\ Transaction("CredentialAccept", k.subject, {n}, [object EXCEPT ![k] = o])
    BY <1>7 DEF CredentialAccept
  <2>2. txs < MaxTxs /\ closeTime' = closeTime
    BY <2>1 DEF Transaction
  <2>3. o \in Objects /\ o.accepted /\ o.conforming = object[k].conforming
    BY ZenonT(40) DEF Objects, IndInv, TypeOK
  <2>4. generation' = IF IsXcs(k) THEN [generation EXCEPT ![d] = r] ELSE generation
    BY <2>1, <2>2, <2>3, AcceptEffect DEF Transaction
  <2>5. IsXcs(k) => d \in TxIds /\ Live(d) /\ generation[d] \in Rows
    BY LiveOfIs, LiveIsRow DEF IndInv, ForwardInv
  <2>6. \A g \in Rows : LET h == [g EXCEPT !.accepted = TRUE, !.last = ledgerIndex] IN
          h.cause = g.cause /\ h.deleted = g.deleted
    BY DEF Rows
  <2>7. IsXcs(k) => r.cause = "none" /\ r.deleted = 0
    <3>1. IsXcs(k) => generation[d].deleted = 0 /\ generation[d] # NoRow
      BY <2>5 DEF Live, NoRow
    <3>2. IsXcs(k) => generation[d].cause = "none"
      BY <2>5, <3>1 DEF CauseFits
    <3> QED BY <2>5, <2>6, <3>1, <3>2
  <2> HIDE DEF r
  <2>8. generation \in [TxIds -> Rows \cup {NoRow}]
    BY DEF IndInv, TypeOK
  <2> QED BY <1>1, <1>2, <2>2, <2>4, <2>5, <2>7, <2>8
<1>8. ASSUME NEW k \in Keys, NEW a \in Accounts, CredentialDelete(k, a),
             Removal("CredentialDelete", a, {k})
      PROVE  CausesTruthful'
  BY <1>8, RemovalCauses DEF CredentialDelete
<1>9. ASSUME NEW a, NEW keys, Removal("AccountDelete", a, keys) PROVE CausesTruthful'
  BY <1>9, RemovalCauses
<1>10. ASSUME NEW a, NEW keys, RemoveExpired(a, keys), Removal("Other", a, keys)
       PROVE  CausesTruthful'
  BY <1>10, RemovalCauses DEF RemoveExpired
<1> QED BY <1>3, <1>4, <1>5, <1>6, <1>7, <1>8, <1>9, <1>10, NextCases

-----------------------------------------------------------------------------
(* The history of a generation.                                            *)

EvOf(i) == {e \in events : e.generation = i}

\* What HistoryReplays says of a row r and the events E of its generation i.
TellsRow(i, r, E) ==
    /\ \E e \in E : e.type = "created"
    /\ \A e \in E : IF e.type = "created" THEN e.tx = i /\ e.generation = i ELSE i < e.tx
    /\ \A e, f \in E : e.type = f.type /\ e.type # "created" => e = f
    /\ r.accepted <=> (\E e \in E : e.type = "accepted") \/ r.key.issuer = r.key.subject
    /\ r.deleted # 0 <=> \E e \in E : e.type = "deleted"
    /\ \A e, f \in E : e.type = "accepted" /\ f.type = "deleted" => e.tx < f.tx

\* Every event is of an earlier transaction and belongs to a row, and the events
\* of every row tell it.
HistoryInv ==
    /\ \A e \in events : e.tx <= txs /\ generation[e.generation] # NoRow
    /\ \A i \in TxIds : generation[i] # NoRow => TellsRow(i, generation[i], EvOf(i))

\* A transaction that persists its mutations logs them all.
LEMMA EventsLogged ==
    ASSUME IndInv, NEW t, NEW a, NEW id, NEW ms, Persist(t, a, id, ms), halted' = halted
    PROVE  events' = events \cup Logged(id, ms)
<1>1. halted = FALSE
  BY DEF IndInv, TypeOK, NeverHalts
<1> QED BY <1>1 DEF Persist

\* Rows whose accepted flag, deletion and parties stay as they were, with the
\* events they had, keep their story; the others get a new one.
LEMMA HistoryStep ==
    ASSUME IndInv, HistoryInv, txs' \in Nat, txs' >= txs,
           NEW new, events' = events \cup new,
           \A e \in new : e.tx <= txs' /\ generation'[e.generation] # NoRow,
           \A i \in TxIds : generation[i] # NoRow => generation'[i] # NoRow,
           \A i \in TxIds : generation'[i] # NoRow =>
              \/ /\ \A e \in new : e.generation # i
                 /\ generation[i] # NoRow
                 /\ generation'[i].accepted = generation[i].accepted
                 /\ generation'[i].deleted = generation[i].deleted
                 /\ generation'[i].key = generation[i].key
              \/ TellsRow(i, generation'[i], EvOf(i) \cup {e \in new : e.generation = i})
    PROVE  HistoryInv'
<1>1. events \subseteq [tx : TxIds, key : Keys, generation : TxIds, type : EventTypes]
      /\ txs \in Nat
  BY DEF IndInv, TypeOK
<1>2. \A e \in events' : e.tx <= txs' /\ generation'[e.generation] # NoRow
  <2>1. ASSUME NEW e \in events PROVE e.tx <= txs' /\ generation'[e.generation] # NoRow
    <3>1. e.tx \in Nat /\ e.generation \in TxIds
      BY <1>1 DEF TxIds
    <3>2. e.tx <= txs /\ generation[e.generation] # NoRow
      BY DEF HistoryInv
    <3> QED BY <1>1, <3>1, <3>2
  <2> QED BY <2>1
<1>3. ASSUME NEW i \in TxIds, generation'[i] # NoRow
      PROVE  TellsRow(i, generation'[i], EvOf(i)')
  <2>1. EvOf(i)' = EvOf(i) \cup {e \in new : e.generation = i}
    BY DEF EvOf
  <2>2. CASE /\ \A e \in new : e.generation # i
             /\ generation[i] # NoRow
             /\ generation'[i].accepted = generation[i].accepted
             /\ generation'[i].deleted = generation[i].deleted
             /\ generation'[i].key = generation[i].key
    <3>1. EvOf(i)' = EvOf(i)
      BY <2>1, <2>2
    <3>2. TellsRow(i, generation[i], EvOf(i))
      BY <2>2 DEF HistoryInv
    <3> QED BY <2>2, <3>1, <3>2 DEF TellsRow
  <2> QED BY <1>3, <2>1, <2>2
<1> QED BY <1>2, <1>3 DEF HistoryInv, TellsRow

\* A row begins with its creation ...
LEMMA StoryBegins ==
    ASSUME NEW i, NEW r, NEW e, e.type = "created", e.tx = i, e.generation = i,
           r.accepted <=> r.key.issuer = r.key.subject, r.deleted = 0
    PROVE  TellsRow(i, r, {e})
BY DEF TellsRow

\* ... and goes on with an acceptance while it is pending, or a deletion while it
\* is live, of a later transaction.
LEMMA StoryGoesOn ==
    ASSUME NEW i, NEW r, NEW q, NEW E, TellsRow(i, r, E), r.deleted = 0, q.key = r.key,
           NEW e, e.tx \in Nat, i < e.tx, \A f \in E : f.tx \in Nat /\ f.tx < e.tx,
           \/ e.type = "accepted" /\ ~r.accepted /\ q.accepted /\ q.deleted = 0
           \/ e.type = "deleted" /\ (q.accepted <=> r.accepted) /\ q.deleted # 0
    PROVE  TellsRow(i, q, E \cup {e})
<1>1. \A f \in E : f.type # "deleted"
  BY DEF TellsRow
<1>2. e.type = "accepted" => \A f \in E : f.type # "accepted"
  BY DEF TellsRow
<1>3. e.type # "created"
  OBVIOUS
<1>4. \E f \in E \cup {e} : f.type = "created"
  BY DEF TellsRow
<1>5. \A f \in E \cup {e} : IF f.type = "created" THEN f.tx = i /\ f.generation = i
                            ELSE i < f.tx
  BY <1>3 DEF TellsRow
<1>6. \A f, g \in E \cup {e} : f.type = g.type /\ f.type # "created" => f = g
  BY <1>1, <1>2 DEF TellsRow
<1>7. q.accepted <=> (\E f \in E \cup {e} : f.type = "accepted") \/ q.key.issuer = q.key.subject
  BY <1>2 DEF TellsRow
<1>8. q.deleted # 0 <=> \E f \in E \cup {e} : f.type = "deleted"
  BY <1>1
<1>9. \A f, g \in E \cup {e} : f.type = "accepted" /\ g.type = "deleted" => f.tx < g.tx
  BY <1>1
<1> QED BY <1>4, <1>5, <1>6, <1>7, <1>8, <1>9 DEF TellsRow

\* Facts about the events of a row.
LEMMA EventsOfRow ==
    ASSUME IndInv, HistoryInv, NEW i \in TxIds
    PROVE  /\ \A e \in EvOf(i) : e.tx \in Nat /\ e.tx < txs + 1
           /\ generation[i] = NoRow => EvOf(i) = {}
           /\ generation[i] # NoRow => i \in Nat /\ i < txs + 1
<1>1. events \subseteq [tx : TxIds, key : Keys, generation : TxIds, type : EventTypes]
      /\ txs \in Nat
  BY DEF IndInv, TypeOK
<1>2. \A e \in EvOf(i) : e \in events /\ e.tx \in Nat /\ e.tx <= txs /\ e.generation = i
  BY <1>1 DEF EvOf, TxIds, HistoryInv
<1>3. generation[i] = NoRow => EvOf(i) = {}
  BY <1>2 DEF HistoryInv
<1>4. generation[i] # NoRow => i \in Nat /\ i <= txs
  BY DEF IndInv, RowsInv, TxIds
<1> QED BY <1>1, <1>2, <1>3, <1>4

\* A creation keeps the history.
LEMMA CreateHistory ==
    ASSUME IndInv, HistoryInv, NEW k \in Keys, NEW e \in Expirations \cup {NoExpiration},
           NEW c \in BOOLEAN, CredentialCreate(k, e, c)
    PROVE  HistoryInv'
<1> DEFINE o == [exists |-> TRUE, accepted |-> k.issuer = k.subject, expiration |-> e,
                 conforming |-> c, creator |-> txs + 1]
           n == Node("CreatedNode", k, o, FALSE)
<1>1. /\ ~object[k].exists
      /\ Transaction("CredentialCreate", k.issuer, {n}, [object EXCEPT ![k] = o])
  BY DEF CredentialCreate
<1>2. txs < MaxTxs /\ txs \in Nat /\ txs' = txs + 1 /\ txs + 1 \in TxIds
      /\ generation[txs + 1] = NoRow
  BY <1>1, NextIdFree DEF Transaction, IndInv, TypeOK
<1>3. o \in Objects
  BY <1>2 DEF Objects, TxIds
<1>4. n.key = k /\ n.conforming = c /\ n.accepted = (k.issuer = k.subject)
      /\ EventType(n) = "created"
  BY DEF Node, EventType
<1>5. Persist("CredentialCreate", k.issuer, txs + 1, Extracted({n}))
  BY <1>1 DEF Transaction
<1> HIDE DEF n
<1>6. /\ halted' = halted
      /\ generation' = IF k.type \in known /\ o.conforming
                       THEN [generation EXCEPT ![txs + 1] = NewRow(n)] ELSE generation
  BY <1>1, <1>2, <1>3, <1>5, CreateEffect DEF n
<1>7. events' = events \cup Logged(txs + 1, Extracted({n}))
  BY <1>5, <1>6, EventsLogged
<1>8. generation \in [TxIds -> Rows \cup {NoRow}]
  BY DEF IndInv, TypeOK
<1>9. txs' \in Nat /\ txs' >= txs
  BY <1>2
<1>10. CASE ~(k.type \in known /\ c)
  <2>1. Extracted({n}) = {}
    BY <1>4, <1>10 DEF Extracted
  <2>2. Logged(txs + 1, Extracted({n})) = {}
    BY <2>1 DEF Logged
  <2> DEFINE none == {}
  <2>3. generation' = generation /\ events' = events \cup none
    BY <1>6, <1>7, <1>10, <2>2
  <2>4. \A x \in none : x.tx <= txs' /\ generation'[x.generation] # NoRow
    OBVIOUS
  <2>5. \A i \in TxIds : \A x \in none : x.generation # i
    OBVIOUS
  <2> HIDE DEF none
  <2> QED BY <1>9, <2>3, <2>4, <2>5, HistoryStep
<1>11. CASE k.type \in known /\ c
  <2> DEFINE new == [tx |-> txs + 1, key |-> k, generation |-> txs + 1, type |-> "created"]
  <2>1. Extracted({n}) = {n} /\ Target(txs + 1, n) = txs + 1
    BY <1>4, <1>11 DEF Extracted, Target
  <2>2. events' = events \cup {new}
    BY <1>4, <1>7, <2>1 DEF Logged
  <2>3. generation' = [generation EXCEPT ![txs + 1] = NewRow(n)]
    BY <1>6, <1>11
  <2>4. NewRow(n).key = k /\ NewRow(n).deleted = 0 /\ NewRow(n).created = ledgerIndex
        /\ NewRow(n).accepted = (k.issuer = k.subject)
    BY <1>4 DEF NewRow
  <2>5. NewRow(n) # NoRow
    <3>1. NewRow(n).created # 0
      BY <2>4 DEF IndInv, TypeOK
    <3> QED BY <3>1 DEF NoRow
  <2>6. new.tx = txs + 1 /\ new.generation = txs + 1 /\ new.type = "created"
    OBVIOUS
  <2> HIDE DEF new
  <2>7. ASSUME NEW i \in TxIds, i = txs + 1
        PROVE  TellsRow(i, generation'[i], EvOf(i) \cup {x \in {new} : x.generation = i})
    <3>1. EvOf(i) = {} /\ generation'[i] = NewRow(n)
      BY <1>2, <1>8, <2>3, <2>7, EventsOfRow
    <3>2. EvOf(i) \cup {x \in {new} : x.generation = i} = {new}
      BY <2>6, <2>7, <3>1
    <3>3. NewRow(n).accepted <=> NewRow(n).key.issuer = NewRow(n).key.subject
      BY <2>4
    <3>4. TellsRow(i, NewRow(n), {new})
      BY <2>4, <2>6, <2>7, <3>3, StoryBegins
    <3> QED BY <3>1, <3>2, <3>4
  <2>8. \A i \in TxIds : i # txs + 1 =>
            generation'[i] = generation[i] /\ \A x \in {new} : x.generation # i
    BY <1>8, <2>3, <2>6
  <2>9. \A x \in {new} : x.tx <= txs' /\ generation'[x.generation] # NoRow
    BY <1>2, <1>8, <2>3, <2>5, <2>6
  <2>10. \A i \in TxIds : generation[i] # NoRow => generation'[i] # NoRow
    BY <1>2, <2>8
  <2>11. \A i \in TxIds : generation'[i] # NoRow =>
            \/ /\ \A x \in {new} : x.generation # i
               /\ generation[i] # NoRow
               /\ generation'[i].accepted = generation[i].accepted
               /\ generation'[i].deleted = generation[i].deleted
               /\ generation'[i].key = generation[i].key
            \/ TellsRow(i, generation'[i], EvOf(i) \cup {x \in {new} : x.generation = i})
    <3> TAKE i \in TxIds
    <3>1. CASE i = txs + 1
      BY <2>7, <3>1
    <3>2. CASE i # txs + 1
      BY <2>8, <3>2
    <3> QED BY <3>1, <3>2
  <2> QED BY <1>9, <2>2, <2>9, <2>10, <2>11, HistoryStep
<1> QED BY <1>10, <1>11

\* So does an acceptance.
LEMMA AcceptHistory ==
    ASSUME IndInv, HistoryInv, NEW k \in Keys, CredentialAccept(k)
    PROVE  HistoryInv'
<1> DEFINE o == [object[k] EXCEPT !.accepted = TRUE]
           n == Node("ModifiedNode", k, o, FALSE)
           d == object[k].creator
           r == [generation[d] EXCEPT !.accepted = TRUE, !.last = ledgerIndex]
<1>1. /\ object[k].exists /\ ~object[k].accepted
      /\ Transaction("CredentialAccept", k.subject, {n}, [object EXCEPT ![k] = o])
  BY DEF CredentialAccept
<1>2. txs < MaxTxs /\ txs \in Nat /\ txs' = txs + 1
  BY <1>1 DEF Transaction, IndInv, TypeOK
<1>3. o \in Objects /\ o.accepted /\ o.conforming = object[k].conforming
  BY ZenonT(40) DEF Objects, IndInv, TypeOK
<1>4. n.key = k /\ n.conforming = o.conforming /\ EventType(n) = "accepted"
  BY <1>3 DEF Node, EventType
<1>5. Persist("CredentialAccept", k.subject, txs + 1, Extracted({n}))
  BY <1>1, <1>2 DEF Transaction
<1>6. /\ halted' = halted
      /\ generation' = IF IsXcs(k) THEN [generation EXCEPT ![d] = r] ELSE generation
  BY <1>1, <1>2, <1>3, <1>5, AcceptEffect
<1> HIDE DEF n
<1>7. events' = events \cup Logged(txs + 1, Extracted({n}))
  BY <1>5, <1>6, EventsLogged
<1>8. generation \in [TxIds -> Rows \cup {NoRow}]
  BY DEF IndInv, TypeOK
<1>9. txs' \in Nat /\ txs' >= txs
  BY <1>2
<1>10. CASE ~IsXcs(k)
  <2>1. Extracted({n}) = {}
    BY <1>1, <1>3, <1>4, <1>10 DEF Extracted, IsXcs
  <2>2. Logged(txs + 1, Extracted({n})) = {}
    BY <2>1 DEF Logged
  <2> DEFINE none == {}
  <2>3. generation' = generation /\ events' = events \cup none
    BY <1>6, <1>7, <1>10, <2>2
  <2>4. \A x \in none : x.tx <= txs' /\ generation'[x.generation] # NoRow
    OBVIOUS
  <2>5. \A i \in TxIds : \A x \in none : x.generation # i
    OBVIOUS
  <2> HIDE DEF none
  <2> QED BY <1>9, <2>3, <2>4, <2>5, HistoryStep
<1>11. CASE IsXcs(k)
  <2> DEFINE new == [tx |-> txs + 1, key |-> k, generation |-> d, type |-> "accepted"]
  <2>1. LiveOf(k) = {d} /\ d \in TxIds
    BY <1>11, LiveOfIs
  <2>2. Extracted({n}) = {n} /\ Target(txs + 1, n) = d
    BY <1>3, <1>4, <1>11, <2>1 DEF Extracted, IsXcs, Target
  <2>3. events' = events \cup {new}
    BY <1>4, <1>7, <2>2 DEF Logged
  <2>4. generation' = [generation EXCEPT ![d] = r]
    BY <1>6, <1>11
  <2>5. Live(d) /\ generation[d] \in Rows /\ generation[d].accepted = object[k].accepted
    BY <1>11, <2>1, LiveIsRow DEF IndInv, ForwardInv
  <2>6. generation[d].deleted = 0 /\ generation[d] # NoRow /\ ~generation[d].accepted
    BY <1>1, <2>5 DEF Live, NoRow
  <2>7. r.accepted /\ r.deleted = 0 /\ r.key = generation[d].key /\ r.created = generation[d].created
    BY <2>5, <2>6 DEF Rows
  <2>8. r # NoRow
    BY <2>5, <2>7 DEF Live, NoRow
  <2> HIDE DEF r, d
  <2>9. new.tx = txs + 1 /\ new.generation = d /\ new.type = "accepted"
    OBVIOUS
  <2> HIDE DEF new
  <2>10. TellsRow(d, generation'[d], EvOf(d) \cup {x \in {new} : x.generation = d})
    <3>1. generation'[d] = r /\ {x \in {new} : x.generation = d} = {new}
      BY <1>8, <2>1, <2>4, <2>9
    <3>2. TellsRow(d, generation[d], EvOf(d))
      BY <2>1, <2>6 DEF HistoryInv
    <3>3. /\ new.tx \in Nat /\ d < new.tx
          /\ \A f \in EvOf(d) : f.tx \in Nat /\ f.tx < new.tx
      BY <1>2, <2>1, <2>6, <2>9, EventsOfRow
    <3>4. TellsRow(d, r, EvOf(d) \cup {new})
      BY <2>6, <2>7, <2>9, <3>2, <3>3, StoryGoesOn
    <3> QED BY <3>1, <3>4
  <2>11. \A i \in TxIds : i # d =>
             generation'[i] = generation[i] /\ \A x \in {new} : x.generation # i
    BY <1>8, <2>4, <2>9
  <2>12. generation'[d] # NoRow
    BY <1>8, <2>1, <2>4, <2>8
  <2>13. \A x \in {new} : x.tx <= txs' /\ generation'[x.generation] # NoRow
    BY <1>2, <2>9, <2>12
  <2>14. \A i \in TxIds : generation[i] # NoRow => generation'[i] # NoRow
    BY <2>11, <2>12
  <2>15. \A i \in TxIds : generation'[i] # NoRow =>
            \/ /\ \A x \in {new} : x.generation # i
               /\ generation[i] # NoRow
               /\ generation'[i].accepted = generation[i].accepted
               /\ generation'[i].deleted = generation[i].deleted
               /\ generation'[i].key = generation[i].key
            \/ TellsRow(i, generation'[i], EvOf(i) \cup {x \in {new} : x.generation = i})
    <3> TAKE i \in TxIds
    <3>1. CASE i = d
      BY <2>10, <3>1
    <3>2. CASE i # d
      BY <2>11, <3>2
    <3> QED BY <3>1, <3>2
  <2> QED BY <1>9, <2>3, <2>13, <2>14, <2>15, HistoryStep
<1> QED BY <1>10, <1>11

\* The events of a removal: one for each live generation it ends.
DeletionOf(i) ==
    [tx |-> txs + 1, key |-> generation[i].key, generation |-> i, type |-> "deleted"]

\* What a removal logs: the end of each live generation of the removed objects.
EndedBy(keys) == {i \in TxIds : Live(i) /\ generation[i].key \in keys}

\* It logs these, and marks their rows.
LEMMA RemovalLogged ==
    ASSUME IndInv, NEW keys, NEW t, NEW a, Removal(t, a, keys)
    PROVE  /\ events' = events \cup {DeletionOf(i) : i \in EndedBy(keys)}
           /\ generation' = [i \in TxIds |-> IF Live(i) /\ generation[i].key \in keys
                                             THEN Ended(t, a, i) ELSE generation[i]]
<1> DEFINE Ends == EndedBy(keys)
           N(k) == Node("DeletedNode", k, object[k], FALSE)
           ms == Extracted(Deleted(keys))
           new == {DeletionOf(i) : i \in Ends}
<1>1. /\ keys \in SUBSET Keys /\ \A k \in keys : object[k].exists
      /\ Transaction(t, a, Deleted(keys), Without(keys))
  BY DEF Removal
<1>2. txs < MaxTxs /\ txs \in Nat /\ txs' = txs + 1 /\ Persist(t, a, txs + 1, ms)
  BY <1>1 DEF Transaction, IndInv, TypeOK
<1>3. /\ halted' = halted
      /\ generation' = [i \in TxIds |-> IF Live(i) /\ generation[i].key \in keys
                                        THEN Ended(t, a, i) ELSE generation[i]]
  BY <1>1, <1>2, DeleteEffect
<1>4. events' = events \cup Logged(txs + 1, ms)
  BY <1>2, <1>3, EventsLogged
<1>5. \A k \in Keys : /\ N(k).key = k /\ N(k).conforming = object[k].conforming
                      /\ EventType(N(k)) = "deleted"
  BY DEF Node, EventType
<1> HIDE DEF N
<1>6. ms = {N(k) : k \in {x \in keys : IsXcs(x)}}
  <2>1. Deleted(keys) = {N(k) : k \in keys}
    BY DEF Deleted, N
  <2> QED BY <1>1, <1>5, <2>1 DEF Extracted, IsXcs
<1> HIDE DEF ms
<1>7. \A k \in keys : IsXcs(k) => Target(txs + 1, N(k)) = object[k].creator
  BY <1>1, <1>5, LiveOfIs DEF Target
<1>8. \A k \in keys : IsXcs(k) =>
          object[k].creator \in Ends /\ generation[object[k].creator].key = k
  BY <1>1, LiveOfIs DEF IndInv, ForwardInv, EndedBy
<1>9. \A i \in Ends : /\ IsXcs(generation[i].key) /\ generation[i].key \in keys
                      /\ object[generation[i].key].creator = i
  BY DEF IndInv, BackwardInv, EndedBy
<1>10. ASSUME NEW n \in ms
       PROVE  [tx |-> txs + 1, key |-> n.key, generation |-> Target(txs + 1, n),
               type |-> EventType(n)] \in new
  <2>1. PICK k \in keys : IsXcs(k) /\ n = N(k)
    BY <1>6
  <2>2. n.key = k /\ EventType(n) = "deleted" /\ Target(txs + 1, n) = object[k].creator
    BY <1>1, <1>5, <1>7, <2>1
  <2> QED BY <1>8, <2>1, <2>2 DEF DeletionOf
<1>11. ASSUME NEW i \in Ends
       PROVE  DeletionOf(i) \in Logged(txs + 1, ms)
  <2> DEFINE k == generation[i].key
  <2>1. k \in keys /\ IsXcs(k) /\ object[k].creator = i
    BY <1>9
  <2>2. N(k) \in ms /\ N(k).key = k /\ EventType(N(k)) = "deleted"
        /\ Target(txs + 1, N(k)) = i
    BY <1>1, <1>5, <1>6, <1>7, <2>1
  <2> QED BY <2>2 DEF Logged, DeletionOf
<1>12. Logged(txs + 1, ms) \subseteq new
  BY <1>10 DEF Logged
<1>13. new \subseteq Logged(txs + 1, ms)
  BY <1>11
<1> QED BY <1>3, <1>4, <1>12, <1>13

\* So does a removal keep the history.
LEMMA RemovalHistory ==
    ASSUME IndInv, HistoryInv, NEW keys, NEW t, NEW a, Removal(t, a, keys)
    PROVE  HistoryInv'
<1> DEFINE Ends == EndedBy(keys)
           new == {DeletionOf(i) : i \in Ends}
<1>1. /\ events' = events \cup new
      /\ generation' = [i \in TxIds |-> IF Live(i) /\ generation[i].key \in keys
                                        THEN Ended(t, a, i) ELSE generation[i]]
  BY RemovalLogged
<1>2. txs \in Nat /\ txs' = txs + 1
  BY DEF Removal, Transaction, IndInv, TypeOK
<1>3. \A i \in Ends : /\ i \in TxIds /\ generation[i] # NoRow /\ generation[i].deleted = 0
                       /\ DeletionOf(i).tx = txs + 1 /\ DeletionOf(i).generation = i
                       /\ DeletionOf(i).type = "deleted"
  BY DEF EndedBy, Live, NoRow, DeletionOf
<1>4. ASSUME NEW i \in Ends
       PROVE  /\ generation'[i] # NoRow
              /\ generation'[i].key = generation[i].key
              /\ generation'[i].accepted = generation[i].accepted
              /\ generation'[i].deleted # 0
  <2>1. generation[i] \in Rows /\ generation'[i] = Ended(t, a, i) /\ generation[i].created # 0
    BY <1>1, LiveIsRow DEF EndedBy, Live
  <2> DEFINE c == DeletionCause(t, a, Node("DeletedNode", generation[i].key,
                                           object[generation[i].key], FALSE))
  <2>2. ledgerIndex # 0
    BY DEF IndInv, TypeOK
  <2> HIDE DEF c
  <2>3. \A g \in Rows : LET h == [g EXCEPT !.last = ledgerIndex, !.deleted = ledgerIndex,
                                            !.cause = c] IN
          /\ h.deleted = ledgerIndex /\ h.key = g.key /\ h.accepted = g.accepted
          /\ h.created = g.created
    BY DEF Rows
  <2>4. /\ generation'[i].deleted = ledgerIndex /\ generation'[i].key = generation[i].key
        /\ generation'[i].accepted = generation[i].accepted
        /\ generation'[i].created = generation[i].created
    BY <2>1, <2>3 DEF Ended, c
  <2> QED BY <2>1, <2>2, <2>4 DEF NoRow
<1>5. \A i \in TxIds : i \notin Ends => generation'[i] = generation[i]
  BY <1>1 DEF EndedBy
<1> HIDE DEF Ends
<1>6. ASSUME NEW i \in Ends
       PROVE  TellsRow(i, generation'[i], EvOf(i) \cup {x \in new : x.generation = i})
  <2>1. {x \in new : x.generation = i} = {DeletionOf(i)}
    BY <1>3
  <2>2. i \in TxIds /\ TellsRow(i, generation[i], EvOf(i))
    BY <1>3 DEF HistoryInv
  <2>3. /\ DeletionOf(i).tx \in Nat /\ i < DeletionOf(i).tx
        /\ \A f \in EvOf(i) : f.tx \in Nat /\ f.tx < DeletionOf(i).tx
    BY <1>2, <1>3, EventsOfRow
  <2>4. TellsRow(i, generation'[i], EvOf(i) \cup {DeletionOf(i)})
    BY <1>3, <1>4, <2>2, <2>3, StoryGoesOn
  <2> QED BY <2>1, <2>4
<1>7. \A x \in new : x.tx <= txs' /\ generation'[x.generation] # NoRow
  BY <1>2, <1>3, <1>4
<1>8. \A i \in TxIds : generation[i] # NoRow => generation'[i] # NoRow
  BY <1>4, <1>5
<1>9. \A i \in TxIds : i \notin Ends => \A x \in new : x.generation # i
  BY <1>3
<1> HIDE DEF new
<1>10. \A i \in TxIds : generation'[i] # NoRow =>
          \/ /\ \A x \in new : x.generation # i
             /\ generation[i] # NoRow
             /\ generation'[i].accepted = generation[i].accepted
             /\ generation'[i].deleted = generation[i].deleted
             /\ generation'[i].key = generation[i].key
          \/ TellsRow(i, generation'[i], EvOf(i) \cup {x \in new : x.generation = i})
  <2> TAKE i \in TxIds
  <2>1. CASE i \in Ends
    BY <1>6, <2>1
  <2>2. CASE i \notin Ends
    BY <1>5, <1>9, <2>2
  <2> QED BY <2>1, <2>2
<1>11. txs' \in Nat /\ txs' >= txs /\ events' = events \cup new
  BY <1>1, <1>2
<1> QED BY <1>7, <1>8, <1>10, <1>11, HistoryStep

\* Every step keeps the histories.
LEMMA HistoryKept ==
    ASSUME IndInv, HistoryInv, [Next]_vars
    PROVE  HistoryInv'
<1>1. ASSUME UNCHANGED <<events, generation>>, txs' = txs \/ txs' = txs + 1
      PROVE  HistoryInv'
  <2>1. events \subseteq [tx : TxIds, key : Keys, generation : TxIds, type : EventTypes]
        /\ txs \in Nat
    BY DEF IndInv, TypeOK
  <2>2. \A e \in events : e.tx <= txs'
    <3> TAKE e \in events
    <3>1. e.tx \in Nat /\ e.tx <= txs
      BY <2>1 DEF TxIds, HistoryInv
    <3> QED BY <1>1, <2>1, <3>1
  <2> QED BY <1>1, <2>2 DEF HistoryInv, TellsRow, EvOf
<1>2. CASE UNCHANGED vars
  BY <1>1, <1>2 DEF vars, ledgerVars, tableVars
<1>3. CASE CloseLedger
  BY <1>1, <1>3 DEF CloseLedger, tableVars
<1>4. ASSUME NEW u \in Uids, RegisterSchema(u) PROVE HistoryInv'
  BY <1>1, <1>4 DEF RegisterSchema, tableVars
<1> QED BY <1>2, <1>3, <1>4, CreateHistory, AcceptHistory, RemovalHistory, NextCases

-----------------------------------------------------------------------------
(* What the API reports.                                                   *)

\* The row was created before the position (l, x) of the ledger.
CreatedBefore(r, l, x) == r.created < l \/ (r.created = l /\ r.createdTx < x)

\* Rows are numbered in the order their ORDER BY gives: each was created before the
\* next transaction, and before every row of a later transaction.
OrderInv ==
    /\ \A i \in TxIds : generation[i] # NoRow => CreatedBefore(generation[i], ledgerIndex, txIndex)
    /\ \A i, j \in TxIds :
         generation[i] # NoRow /\ generation[j] # NoRow /\ i < j =>
             CreatedBefore(generation[i], generation[j].created, generation[j].createdTx)

\* No row of an XCS object is newer than the one its creator made.
CreatorNewest == \A k \in Keys : IsXcs(k) => \A j \in RowsOf(k) : j <= object[k].creator

\* A transaction that keeps the place of every row, or adds one at its own, keeps the order.
LEMMA OrderStep ==
    ASSUME IndInv, OrderInv, ledgerIndex' = ledgerIndex, txIndex' = txIndex + 1,
           \A i \in TxIds : generation'[i] # NoRow =>
              \/ /\ generation[i] # NoRow
                 /\ generation'[i].created = generation[i].created
                 /\ generation'[i].createdTx = generation[i].createdTx
              \/ /\ i = txs + 1
                 /\ generation'[i].created = ledgerIndex /\ generation'[i].createdTx = txIndex
    PROVE  OrderInv'
<1>1. ledgerIndex \in Nat /\ txIndex \in Nat /\ txs \in Nat
  BY DEF IndInv, TypeOK
<1>2. \A i \in TxIds : generation[i] # NoRow =>
        /\ generation[i].created \in Nat /\ generation[i].createdTx \in Nat
        /\ i \in Nat /\ i <= txs
  <2> TAKE i \in TxIds
  <2>1. generation[i] # NoRow => generation[i] \in Rows
    BY DEF IndInv, TypeOK
  <2> QED BY <2>1 DEF Rows, TxIds, IndInv, RowsInv
<1> DEFINE Kept(i) == /\ generation[i] # NoRow
                      /\ generation'[i].created = generation[i].created
                      /\ generation'[i].createdTx = generation[i].createdTx
           Added(i) == /\ i = txs + 1
                       /\ generation'[i].created = ledgerIndex
                       /\ generation'[i].createdTx = txIndex
<1>3. \A i \in TxIds : generation'[i] # NoRow => Kept(i) \/ Added(i)
  OBVIOUS
<1>4. ASSUME NEW i \in TxIds, generation'[i] # NoRow
      PROVE  CreatedBefore(generation'[i], ledgerIndex, txIndex + 1)
  <2>1. CASE Kept(i)
    <3>1. CreatedBefore(generation[i], ledgerIndex, txIndex)
      BY <2>1 DEF OrderInv
    <3> QED BY <1>1, <1>2, <2>1, <3>1 DEF CreatedBefore
  <2>2. CASE Added(i)
    BY <1>1, <2>2 DEF CreatedBefore
  <2> QED BY <1>3, <1>4, <2>1, <2>2
<1>5. ASSUME NEW i \in TxIds, NEW j \in TxIds, generation'[i] # NoRow, generation'[j] # NoRow, i < j
      PROVE  CreatedBefore(generation'[i], generation'[j].created, generation'[j].createdTx)
  <2>1. CASE Kept(i) /\ Kept(j)
    <3>1. CreatedBefore(generation[i], generation[j].created, generation[j].createdTx)
      BY <1>5, <2>1 DEF OrderInv
    <3> QED BY <2>1, <3>1 DEF CreatedBefore
  <2>2. CASE Kept(i) /\ Added(j)
    <3>1. CreatedBefore(generation[i], ledgerIndex, txIndex)
      BY <2>2 DEF OrderInv
    <3> QED BY <2>2, <3>1 DEF CreatedBefore
  <2>3. CASE Added(i) /\ Kept(j)
    BY <1>1, <1>2, <1>5, <2>3
  <2>4. CASE Added(i) /\ Added(j)
    BY <1>1, <1>5, <2>4
  <2> QED BY <1>3, <1>5, <2>1, <2>2, <2>3, <2>4
<1> QED BY <1>4, <1>5 DEF OrderInv, CreatedBefore

\* CredentialCreate adds the newest row of all.
LEMMA CreateNewest ==
    ASSUME IndInv, OrderInv, CreatorNewest, NEW k \in Keys, NEW e \in Expirations \cup {NoExpiration},
           NEW c \in BOOLEAN, CredentialCreate(k, e, c)
    PROVE  OrderInv' /\ CreatorNewest'
<1> DEFINE o == [exists |-> TRUE, accepted |-> k.issuer = k.subject, expiration |-> e,
                 conforming |-> c, creator |-> txs + 1]
           n == Node("CreatedNode", k, o, FALSE)
<1>1. /\ ~object[k].exists
      /\ Transaction("CredentialCreate", k.issuer, {n}, [object EXCEPT ![k] = o])
  BY DEF CredentialCreate
<1>2. txs < MaxTxs /\ txs \in Nat /\ txs + 1 \in TxIds
  BY <1>1, NextIdFree DEF Transaction, IndInv, TypeOK
<1>3. o \in Objects
  BY <1>2 DEF Objects, TxIds, IndInv, TypeOK
<1>4. generation' \in {generation, [generation EXCEPT ![txs + 1] = NewRow(n)]}
  BY <1>1, <1>2, <1>3, CreateEffect DEF Transaction
<1>5. o.creator = txs + 1
  OBVIOUS
<1>6. /\ object' = [object EXCEPT ![k] = o] /\ object \in [Keys -> Objects]
      /\ generation \in [TxIds -> Rows \cup {NoRow}]
      /\ known' = known /\ ledgerIndex' = ledgerIndex /\ txIndex' = txIndex + 1
  BY <1>1 DEF Transaction, IndInv, TypeOK
<1> HIDE DEF n, o
<1>7. NewRow(n).created = ledgerIndex /\ NewRow(n).createdTx = txIndex
  BY DEF NewRow
<1>8. \A i \in TxIds : generation'[i] = generation[i] \/ (i = txs + 1 /\ generation'[i] = NewRow(n))
  BY <1>4, <1>6
<1>9. OrderInv'
  <2>1. \A i \in TxIds : generation'[i] # NoRow =>
          \/ /\ generation[i] # NoRow
             /\ generation'[i].created = generation[i].created
             /\ generation'[i].createdTx = generation[i].createdTx
          \/ /\ i = txs + 1
             /\ generation'[i].created = ledgerIndex /\ generation'[i].createdTx = txIndex
    BY <1>7, <1>8
  <2> QED BY <1>6, <2>1, OrderStep
<1>10. ASSUME NEW x \in Keys, IsXcs(x)', NEW j \in TxIds, generation'[j] # NoRow, generation'[j].key = x
       PROVE  j <= object'[x].creator
  <2>1. j \in Nat /\ (j <= txs \/ j = txs + 1)
    BY <1>8, <1>10 DEF IndInv, RowsInv, TxIds
  <2>2. CASE x = k
    <3>1. object'[x].creator = txs + 1
      BY <1>5, <1>6, <2>2
    <3> QED BY <1>2, <2>1, <3>1
  <2>3. CASE x # k
    <3>1. object'[x] = object[x] /\ IsXcs(x)
      BY <1>6, <1>10, <2>3 DEF IsXcs
    <3>2. CASE generation'[j] = generation[j]
      <4>1. j \in RowsOf(x)
        BY <1>10, <3>2 DEF RowsOf
      <4> QED BY <3>1, <4>1 DEF CreatorNewest
    <3>3. CASE generation'[j] = NewRow(n)
      BY <1>10, <2>3, <3>3 DEF NewRow, n, Node
    <3> QED BY <1>8, <3>2, <3>3
  <2> QED BY <2>2, <2>3
<1> QED BY <1>9, <1>10 DEF CreatorNewest, RowsOf

\* An acceptance keeps the place and the tuple of every row, and the creators.
LEMMA AcceptNewest ==
    ASSUME IndInv, OrderInv, CreatorNewest, NEW k \in Keys, CredentialAccept(k)
    PROVE  OrderInv' /\ CreatorNewest'
<1> DEFINE o == [object[k] EXCEPT !.accepted = TRUE]
           n == Node("ModifiedNode", k, o, FALSE)
           d == object[k].creator
           r == [generation[d] EXCEPT !.accepted = TRUE, !.last = ledgerIndex]
<1>1. /\ object[k].exists
      /\ Transaction("CredentialAccept", k.subject, {n}, [object EXCEPT ![k] = o])
  BY DEF CredentialAccept
<1>2. txs < MaxTxs /\ known' = known /\ ledgerIndex' = ledgerIndex /\ txIndex' = txIndex + 1
  BY <1>1 DEF Transaction
<1>3. /\ o \in Objects /\ o.accepted /\ o.conforming = object[k].conforming
      /\ o.exists = object[k].exists /\ o.creator = object[k].creator
  BY ZenonT(40) DEF Objects, IndInv, TypeOK
<1>4. generation' = IF IsXcs(k) THEN [generation EXCEPT ![d] = r] ELSE generation
  BY <1>1, <1>2, <1>3, AcceptEffect DEF Transaction
<1>5. IsXcs(k) => d \in TxIds /\ Live(d) /\ generation[d] \in Rows
  BY LiveOfIs, LiveIsRow DEF IndInv, ForwardInv
<1>6. \A g \in Rows : LET h == [g EXCEPT !.accepted = TRUE, !.last = ledgerIndex] IN
        h.created = g.created /\ h.createdTx = g.createdTx /\ h.key = g.key
  BY DEF Rows
<1>7. IsXcs(k) => /\ r.created = generation[d].created /\ r.createdTx = generation[d].createdTx
                  /\ r.key = generation[d].key /\ generation[d] # NoRow
  BY <1>5, <1>6 DEF Live, NoRow
<1>8. /\ generation \in [TxIds -> Rows \cup {NoRow}] /\ object \in [Keys -> Objects]
      /\ object' = [object EXCEPT ![k] = o]
  BY <1>1 DEF IndInv, TypeOK, Transaction
<1> HIDE DEF r, d, o
<1>9. \A i \in TxIds : generation'[i] = generation[i] \/ (IsXcs(k) /\ i = d /\ generation'[i] = r)
  BY <1>4, <1>8
<1>10. ASSUME NEW i \in TxIds, generation'[i] # NoRow
       PROVE  /\ generation[i] # NoRow
              /\ generation'[i].created = generation[i].created
              /\ generation'[i].createdTx = generation[i].createdTx
              /\ generation'[i].key = generation[i].key
  BY <1>7, <1>9, <1>10
<1>11. OrderInv'
  BY <1>2, <1>10, OrderStep
<1>12. ASSUME NEW x \in Keys, IsXcs(x)', NEW j \in TxIds, generation'[j] # NoRow, generation'[j].key = x
       PROVE  j <= object'[x].creator
  <2>1. object'[x].creator = object[x].creator /\ IsXcs(x)
    BY <1>2, <1>3, <1>8, <1>12 DEF IsXcs
  <2>2. j \in RowsOf(x)
    BY <1>10, <1>12 DEF RowsOf
  <2> QED BY <2>1, <2>2 DEF CreatorNewest
<1> QED BY <1>11, <1>12 DEF CreatorNewest, RowsOf

\* So does a deletion, for the objects that are left.
LEMMA RemovalNewest ==
    ASSUME IndInv, OrderInv, CreatorNewest, NEW t, NEW a, NEW keys, Removal(t, a, keys)
    PROVE  OrderInv' /\ CreatorNewest'
<1>1. /\ generation' = [i \in TxIds |-> IF Live(i) /\ generation[i].key \in keys
                                        THEN Ended(t, a, i) ELSE generation[i]]
      /\ known' = known /\ ledgerIndex' = ledgerIndex /\ txIndex' = txIndex + 1
      /\ object' = Without(keys)
  BY DeleteEffect DEF Removal, Transaction
<1>2. ASSUME NEW i \in TxIds, generation'[i] # NoRow
      PROVE  /\ generation[i] # NoRow
             /\ generation'[i].created = generation[i].created
             /\ generation'[i].createdTx = generation[i].createdTx
             /\ generation'[i].key = generation[i].key
  <2>1. CASE Live(i) /\ generation[i].key \in keys
    <3>1. generation[i] \in Rows /\ generation[i] # NoRow
      BY <2>1, LiveIsRow DEF Live, NoRow
    <3>2. \A g \in Rows : \A z : LET h == [g EXCEPT !.last = ledgerIndex, !.deleted = ledgerIndex,
                                                 !.cause = z] IN
            h.created = g.created /\ h.createdTx = g.createdTx /\ h.key = g.key
      BY DEF Rows
    <3> QED BY <1>1, <2>1, <3>1, <3>2 DEF Ended
  <2>2. CASE ~(Live(i) /\ generation[i].key \in keys)
    BY <1>1, <1>2, <2>2
  <2> QED BY <2>1, <2>2
<1>3. OrderInv'
  BY <1>1, <1>2, OrderStep
<1>4. ASSUME NEW x \in Keys, IsXcs(x)', NEW j \in TxIds, generation'[j] # NoRow, generation'[j].key = x
      PROVE  j <= object'[x].creator
  <2>1. object'[x] = object[x] /\ IsXcs(x)
    BY <1>1, <1>4 DEF IsXcs, Without, NoObject
  <2>2. j \in RowsOf(x)
    BY <1>2, <1>4 DEF RowsOf
  <2> QED BY <2>1, <2>2 DEF CreatorNewest
<1> QED BY <1>3, <1>4 DEF CreatorNewest, RowsOf

\* Every step keeps the order of the rows and the newest row of every object.
LEMMA NewestKept ==
    ASSUME IndInv, OrderInv, CreatorNewest, [Next]_vars
    PROVE  OrderInv' /\ CreatorNewest'
<1>1. CASE UNCHANGED vars
  BY <1>1 DEF vars, ledgerVars, tableVars, OrderInv, CreatedBefore, CreatorNewest, RowsOf, IsXcs
<1>2. CASE CloseLedger
  <2>1. ledgerIndex \in Nat /\ ledgerIndex' = ledgerIndex + 1 /\ UNCHANGED <<generation, known, object>>
    BY <1>2 DEF CloseLedger, tableVars, IndInv, TypeOK
  <2>2. ASSUME NEW i \in TxIds, generation[i] # NoRow
        PROVE  generation[i].created < ledgerIndex + 1
    <3>1. generation[i].created \in Nat
      BY <2>2 DEF IndInv, TypeOK, Rows
    <3>2. CreatedBefore(generation[i], ledgerIndex, txIndex)
      BY <2>2 DEF OrderInv
    <3> QED BY <2>1, <3>1, <3>2 DEF CreatedBefore
  <2>3. OrderInv'
    BY <2>1, <2>2 DEF OrderInv, CreatedBefore
  <2> QED BY <2>1, <2>3 DEF CreatorNewest, RowsOf, IsXcs
<1>3. ASSUME NEW u \in Uids, RegisterSchema(u) PROVE OrderInv' /\ CreatorNewest'
  <2>1. /\ u \notin known /\ known' = known \cup {u} /\ UNCHANGED <<generation, object>>
        /\ ledgerIndex' = ledgerIndex /\ txIndex' = txIndex + 1
    BY <1>3 DEF RegisterSchema, tableVars
  <2>2. OrderInv'
    BY <2>1, OrderStep
  <2>3. ASSUME NEW x \in Keys, IsXcs(x)' PROVE IsXcs(x)
    <3>1. object[x].exists /\ object[x].conforming /\ x.type \in known \cup {u}
      BY <2>1, <2>3 DEF IsXcs
    <3>2. x.type # u
      BY <2>1, <3>1, ProjectionConstants DEF IndInv, ObjectsInv
    <3> QED BY <3>1, <3>2 DEF IsXcs
  <2> QED BY <2>1, <2>2, <2>3 DEF CreatorNewest, RowsOf
<1> QED BY <1>1, <1>2, <1>3, CreateNewest, AcceptNewest, RemovalNewest, NextCases

\* A non-empty set of transactions has a last one.
LEMMA LastExists ==
    ASSUME NEW S, S \subseteq TxIds, S # {}
    PROVE  \E i \in S : \A j \in S : j <= i
<1> DEFINE R == OpToRel(<, Nat)
           T == {n \in Nat : \E i \in S : n = MaxTxs - i}
<1>0. \A i \in S : i \in Nat /\ MaxTxs - i \in Nat
  BY DEF TxIds
<1>1. T \subseteq Nat /\ T # {}
  BY <1>0
<1>2. PICK x \in T : \A y \in T : ~(<<y, x>> \in R)
  <2> HIDE DEF R, T
  <2>1. IsWellFoundedOn(R, Nat)
    BY NatLessThanWellFounded DEF R
  <2> QED BY <1>1, <2>1, WFMin
<1>3. \A y \in T : ~(y < x)
  BY <1>1, <1>2 DEF OpToRel
<1>4. PICK i \in S : x = MaxTxs - i
  OBVIOUS
<1>5. \A j \in S : MaxTxs - j \in T
  BY <1>0
<1>6. \A j \in S : j <= i
  BY <1>0, <1>3, <1>4, <1>5
<1> QED BY <1>6

\* getCredential finds the row of the last transaction that created the credential.
LEMMA GetCredentialIs ==
    ASSUME IndInv, OrderInv, NEW k \in Keys, NEW i \in RowsOf(k), \A j \in RowsOf(k) : j <= i
    PROVE  GetCredential(k) = i
<1>1. ASSUME NEW g \in RowsOf(k), NEW h \in RowsOf(k)
      PROVE  NotOlder(g, h) <=> h <= g
  <2>1. /\ g \in TxIds /\ h \in TxIds /\ g \in Nat /\ h \in Nat
        /\ generation[g] # NoRow /\ generation[h] # NoRow
    BY DEF RowsOf, TxIds
  <2>2. generation[g] \in Rows /\ generation[h] \in Rows
    BY <2>1 DEF IndInv, TypeOK
  <2>3. /\ generation[g].created \in Nat /\ generation[g].createdTx \in Nat
        /\ generation[h].created \in Nat /\ generation[h].createdTx \in Nat
    BY <2>2 DEF Rows
  <2>4. CASE g < h
    <3>1. CreatedBefore(generation[g], generation[h].created, generation[h].createdTx)
      BY <2>1, <2>4 DEF OrderInv
    <3> QED BY <2>1, <2>3, <2>4, <3>1 DEF CreatedBefore, NotOlder
  <2>5. CASE h < g
    <3>1. CreatedBefore(generation[h], generation[g].created, generation[g].createdTx)
      BY <2>1, <2>5 DEF OrderInv
    <3> QED BY <2>1, <2>3, <2>5, <3>1 DEF CreatedBefore, NotOlder
  <2>6. CASE g = h
    BY <2>1, <2>3, <2>6 DEF NotOlder
  <2> QED BY <2>1, <2>4, <2>5, <2>6
<1>2. \A j \in RowsOf(k) : NotOlder(i, j)
  BY <1>1
<1>3. ASSUME NEW g \in RowsOf(k), \A j \in RowsOf(k) : NotOlder(g, j) PROVE g = i
  <2>1. i <= g /\ g <= i
    BY <1>1, <1>3
  <2>2. g \in Nat /\ i \in Nat
    BY DEF RowsOf, TxIds
  <2> QED BY <2>1, <2>2
<1> QED BY <1>2, <1>3 DEF GetCredential

\* The row that getCredential orders first tells the state of the object.
LEMMA ReportedTrue ==
    ASSUME IndInv, OrderInv, CreatorNewest
    PROVE  ReportedState
<1> SUFFICES ASSUME NEW k \in Keys
             PROVE  IF IsXcs(k)
                    THEN OnChainStatus(k) = IF Reached(object[k].expiration) THEN "expired"
                                            ELSE IF object[k].accepted THEN "active"
                                            ELSE "pending"
                    ELSE OnChainStatus(k) \in {"deleted", "not_found"}
  BY DEF ReportedState
<1>1. CASE IsXcs(k)
  <2> DEFINE c == object[k].creator
  <2>1. /\ c \in TxIds /\ Live(c) /\ generation[c].key = k
        /\ generation[c].accepted = object[k].accepted
        /\ generation[c].expiration = object[k].expiration
    BY <1>1, LiveOfIs DEF IndInv, ForwardInv
  <2>2. c \in RowsOf(k)
    BY <2>1 DEF RowsOf, Live, NoRow
  <2>3. GetCredential(k) = c
    BY <1>1, <2>2, GetCredentialIs DEF CreatorNewest
  <2>4. OnChainStatus(k) = CredentialLifecycle(generation[c])
    BY <2>2, <2>3 DEF OnChainStatus
  <2>5. generation[c].deleted = 0
    BY <2>1 DEF Live
  <2> QED BY <1>1, <2>1, <2>4, <2>5 DEF CredentialLifecycle
<1>2. CASE ~IsXcs(k) /\ RowsOf(k) # {}
  <2>1. PICK i \in RowsOf(k) : \A j \in RowsOf(k) : j <= i
    BY <1>2, LastExists DEF RowsOf
  <2>2. OnChainStatus(k) = CredentialLifecycle(generation[i])
    BY <1>2, <2>1, GetCredentialIs DEF OnChainStatus
  <2>3. i \in TxIds /\ generation[i] \in Rows /\ generation[i].key = k
    BY DEF RowsOf, IndInv, TypeOK
  <2>4. ~Live(i)
    BY <1>2, <2>3, LiveOfIs DEF LiveOf
  <2>5. generation[i].created # 0
    BY <2>3 DEF Rows
  <2>6. generation[i].deleted # 0
    BY <2>4, <2>5 DEF Live
  <2> QED BY <1>2, <2>2, <2>6 DEF CredentialLifecycle
<1>3. CASE ~IsXcs(k) /\ RowsOf(k) = {}
  BY <1>3 DEF OnChainStatus
<1> QED BY <1>1, <1>2, <1>3

-----------------------------------------------------------------------------
(* Queries: rows in the order of their columns.                            *)

USE ReadConstants

\* Finitely many rows of which any two differ in their place.
Sortable(R) ==
    /\ IsFiniteSet(R)
    /\ \A r \in R : r.ledger \in Int /\ r.txIndex \in Int /\ r.node \in Int
    /\ \A a, b \in R : a # b => Earlier(a, b) \/ Earlier(b, a)

\* So are fewer rows.
LEMMA SortableSubset ==
    ASSUME NEW R, Sortable(R), NEW T, T \subseteq R
    PROVE  Sortable(T)
BY FS_Subset DEF Sortable

\* Earlier is a strict order of such rows.
LEMMA EarlierIsOrder ==
    ASSUME NEW R, Sortable(R)
    PROVE  /\ \A a \in R : ~Earlier(a, a)
           /\ \A a, b, c \in R : Earlier(a, b) /\ Earlier(b, c) => Earlier(a, c)
<1>1. ASSUME NEW a \in R PROVE ~Earlier(a, a)
  BY DEF Sortable, Earlier
<1>2. ASSUME NEW a \in R, NEW b \in R, NEW c \in R, Earlier(a, b), Earlier(b, c)
      PROVE  Earlier(a, c)
  BY <1>2 DEF Sortable, Earlier
<1> QED BY <1>1, <1>2

\* The places of rows: from 0, below the number of rows, and in their order.
LEMMA PlaceIs ==
    ASSUME NEW R, Sortable(R), NEW r \in R
    PROVE  /\ Place(r, R) \in Nat /\ Place(r, R) < Cardinality(R) /\ Cardinality(R) \in Nat
           /\ \A s \in R : Earlier(s, r) => Place(s, R) < Place(r, R)
<1> DEFINE Below(x) == {s \in R : Earlier(s, x)}
<1>1. IsFiniteSet(R)
  BY DEF Sortable
<1>2. ASSUME NEW x \in R
      PROVE  IsFiniteSet(Below(x)) /\ Place(x, R) = Cardinality(Below(x)) /\ Place(x, R) \in Nat
  <2>1. Below(x) \in SUBSET R
    OBVIOUS
  <2>2. IsFiniteSet(Below(x))
    BY <1>1, <2>1, FS_Subset
  <2>3. Place(x, R) = Cardinality(Below(x))
    BY DEF Place
  <2> HIDE DEF Below
  <2> QED BY <2>2, <2>3, FS_CardinalityType
<1>3. Cardinality(R) \in Nat
  BY <1>1, FS_CardinalityType
<1>4. Place(r, R) < Cardinality(R)
  <2>1. Below(r) \in SUBSET R /\ r \notin Below(r)
    BY EarlierIsOrder
  <2>2. Below(r) # R
    BY <2>1
  <2> HIDE DEF Below
  <2>3. Cardinality(Below(r)) <= Cardinality(R) /\ Cardinality(Below(r)) # Cardinality(R)
    BY <1>1, <2>1, <2>2, FS_Subset
  <2> QED BY <1>2, <1>3, <2>3
<1>5. ASSUME NEW s \in R, Earlier(s, r)
      PROVE  Place(s, R) < Place(r, R)
  <2>1. Below(s) \in SUBSET Below(r) /\ s \in Below(r) /\ s \notin Below(s)
    BY <1>5, EarlierIsOrder
  <2>2. Below(s) # Below(r)
    BY <2>1
  <2> HIDE DEF Below
  <2>3. Cardinality(Below(s)) <= Cardinality(Below(r)) /\ Cardinality(Below(s)) # Cardinality(Below(r))
    BY <1>2, <2>1, <2>2, FS_Subset
  <2> QED BY <1>2, <2>3
<1> QED BY <1>2, <1>3, <1>4, <1>5

\* No place is left out.
LEMMA PlacesFilled ==
    ASSUME NEW R, Sortable(R), NEW i \in 1 .. Cardinality(R)
    PROVE  \E r \in R : Place(r, R) = i - 1
<1> DEFINE n == Cardinality(R)
           f == [r \in R |-> Place(r, R)]
<1>1. IsFiniteSet(R) /\ n \in Nat
  BY FS_CardinalityType DEF Sortable
<1>2. f \in [R -> 0 .. n - 1]
  BY <1>1, PlaceIs
<1>3. \A a, b \in R : f[a] = f[b] => a = b
  <2> SUFFICES ASSUME NEW a \in R, NEW b \in R, a # b PROVE f[a] # f[b]
    OBVIOUS
  <2>1. Earlier(a, b) \/ Earlier(b, a)
    BY DEF Sortable
  <2>2. Place(a, R) \in Nat /\ Place(b, R) \in Nat
    BY PlaceIs
  <2>3. Place(a, R) < Place(b, R) \/ Place(b, R) < Place(a, R)
    BY <2>1, PlaceIs
  <2>4. Place(a, R) # Place(b, R)
    BY ONLY <2>2, <2>3
  <2> QED BY <2>4
<1>4. f \in Injection(R, 0 .. n - 1)
  BY <1>2, <1>3 DEF Injection, IsInjective
<1>5. IsFiniteSet(0 .. n - 1) /\ Cardinality(0 .. n - 1) = n
  <2> HIDE DEF n
  <2>1. n - 1 \in Int /\ 0 \in Int
    BY <1>1
  <2> QED BY <1>1, <2>1, FS_Interval
<1> HIDE DEF f
<1>6. f \in Surjection(R, 0 .. n - 1)
  BY <1>4, <1>5, FS_Injection
<1>7. i - 1 \in 0 .. n - 1
  BY <1>1
<1>8. PICK r \in R : f[r] = i - 1
  BY <1>6, <1>7 DEF Surjection
<1> QED BY <1>8 DEF f

\* EventRows lists every row once, in its order.
LEMMA EventRowsAre ==
    ASSUME NEW R, Sortable(R)
    PROVE  /\ EventRows(R) \in Seq(R) /\ Len(EventRows(R)) = Cardinality(R)
           /\ Cardinality(R) \in Nat
           /\ \A r \in R : \E i \in 1 .. Cardinality(R) : EventRows(R)[i] = r
           /\ \A i, j \in 1 .. Cardinality(R) :
                 i < j => Earlier(EventRows(R)[i], EventRows(R)[j])
<1> DEFINE s == EventRows(R)
           n == Cardinality(R)
<1>1. n \in Nat
  BY FS_CardinalityType DEF Sortable
<1>2. ASSUME NEW i \in 1 .. n
      PROVE  s[i] \in R /\ Place(s[i], R) = i - 1
  <2>1. s[i] = CHOOSE r \in R : Place(r, R) = i - 1
    BY DEF EventRows
  <2>2. \E r \in R : Place(r, R) = i - 1
    BY PlacesFilled
  <2> HIDE DEF s
  <2> QED BY <2>1, <2>2
<1>3. DOMAIN s = 1 .. n /\ s = [i \in 1 .. n |-> s[i]]
  BY DEF EventRows
<1> HIDE DEF s
<1>4. s \in [1 .. n -> R]
  BY <1>2, <1>3
<1>5. s \in Seq(R) /\ Len(s) = n
  BY <1>1, <1>4, <1>3
<1>6. ASSUME NEW a \in R, NEW b \in R, Place(a, R) <= Place(b, R)
      PROVE  ~Earlier(b, a)
  BY <1>6, PlaceIs
<1>7. ASSUME NEW r \in R PROVE \E i \in 1 .. n : s[i] = r
  <2>1. Place(r, R) \in Nat /\ Place(r, R) < n
    BY PlaceIs
  <2> DEFINE i == Place(r, R) + 1
  <2>2. i \in 1 .. n /\ i - 1 = Place(r, R)
    BY <1>1, <2>1
  <2>3. s[i] \in R /\ Place(s[i], R) = Place(r, R)
    BY <1>2, <2>2
  <2>4. ~Earlier(s[i], r) /\ ~Earlier(r, s[i])
    BY <1>6, <2>1, <2>3
  <2>5. s[i] = r
    BY <2>3, <2>4 DEF Sortable
  <2> QED BY <2>2, <2>5
<1>8. ASSUME NEW i \in 1 .. n, NEW j \in 1 .. n, i < j PROVE Earlier(s[i], s[j])
  <2>1. s[i] \in R /\ s[j] \in R /\ Place(s[i], R) = i - 1 /\ Place(s[j], R) = j - 1
    BY <1>2
  <2>2. i - 1 <= j - 1 /\ i - 1 # j - 1
    BY <1>1, <1>8
  <2>3. ~Earlier(s[j], s[i]) /\ s[i] # s[j]
    BY <1>6, <2>1, <2>2
  <2> QED BY <2>1, <2>3 DEF Sortable
<1> QED BY <1>1, <1>5, <1>7, <1>8 DEF s

\* EventRows puts a row in its place.
LEMMA PlaceOfListed ==
    ASSUME NEW R, Sortable(R), NEW i \in 1 .. Cardinality(R)
    PROVE  EventRows(R)[i] \in R /\ Place(EventRows(R)[i], R) = i - 1
<1>1. EventRows(R)[i] = CHOOSE r \in R : Place(r, R) = i - 1
  BY DEF EventRows
<1>2. \E r \in R : Place(r, R) = i - 1
  BY PlacesFilled
<1> QED BY <1>1, <1>2

\* A set that a function numbers has that many elements.
Sized(S, f, n) == f \in Bijection(1 .. n, S)

\* Such a set is finite.
LEMMA SizedIs ==
    ASSUME NEW S, NEW n \in Nat, NEW f, Sized(S, f, n)
    PROVE  IsFiniteSet(S) /\ Cardinality(S) = n
<1>1. IsFiniteSet(1 .. n) /\ Cardinality(1 .. n) = n
  BY FS_Interval
<1>2. ExistsBijection(1 .. n, S)
  BY DEF Sized, ExistsBijection
<1> QED BY <1>1, <1>2, FS_Bijection

\* A sequence that lists every row, in its order, is EventRows.
LEMMA EventRowsUnique ==
    ASSUME NEW R, Sortable(R), NEW t \in Seq(R),
           \A r \in R : \E i \in 1 .. Len(t) : t[i] = r,
           \A i, j \in 1 .. Len(t) : i < j => Earlier(t[i], t[j])
    PROVE  t = EventRows(R)
<1> DEFINE s == EventRows(R)
           n == Cardinality(R)
           m == Len(t)
<1>1. /\ s \in Seq(R) /\ Len(s) = n /\ n \in Nat
      /\ \A i, j \in 1 .. n : i < j => Earlier(s[i], s[j])
      /\ \A r \in R : \E i \in 1 .. n : s[i] = r
  BY EventRowsAre
<1>2. m \in Nat /\ t \in [1 .. m -> R] /\ DOMAIN t = 1 .. m
  OBVIOUS
<1> HIDE DEF s, m
<1>3. \A i, j \in 1 .. m : t[i] = t[j] => i = j
  <2> SUFFICES ASSUME NEW i \in 1 .. m, NEW j \in 1 .. m, i < j PROVE t[i] # t[j]
    BY <1>2
  <2>1. Earlier(t[i], t[j]) /\ t[i] \in R
    BY <1>2 DEF m
  <2> QED BY <2>1, EarlierIsOrder
<1>4. Sized(R, t, m)
  <2>1. t \in Bijection(1 .. m, R)
    BY <1>2, <1>3 DEF m, Bijection, Injection, Surjection, IsInjective
  <2> QED BY <2>1 DEF Sized
<1>5. n = m
  BY <1>2, <1>4, SizedIs
<1>6. ASSUME NEW i \in 1 .. m PROVE Place(t[i], R) = i - 1
  <2> DEFINE B == {r \in R : Earlier(r, t[i])}
             f == [j \in 1 .. i - 1 |-> t[j]]
  <2>1. i - 1 \in Nat
    BY <1>2
  <2>2. \A j \in 1 .. i - 1 : j \in 1 .. m /\ t[j] \in R /\ Earlier(t[j], t[i])
    BY <1>2 DEF m
  <2>3. f \in [1 .. i - 1 -> B]
    BY <2>2
  <2>4. \A r \in B : \E j \in 1 .. i - 1 : f[j] = r
    <3> SUFFICES ASSUME NEW r \in B PROVE \E j \in 1 .. i - 1 : f[j] = r
      OBVIOUS
    <3>1. PICK j \in 1 .. m : t[j] = r
      BY DEF m
    <3>2. ~(i < j) /\ i # j
      <4>1. t[i] \in R /\ t[j] \in R /\ Earlier(t[j], t[i])
        BY <1>2, <3>1
      <4>2. ~Earlier(t[i], t[j]) /\ t[i] # t[j]
        BY <4>1, EarlierIsOrder
      <4> QED BY <4>2 DEF m
    <3>3. j \in 1 .. i - 1
      BY <1>2, <3>2
    <3> QED BY <3>1, <3>3
  <2>5. \A j, k \in 1 .. i - 1 : f[j] = f[k] => j = k
    BY <1>3, <2>2
  <2> HIDE DEF B
  <2>6. f \in Bijection(1 .. i - 1, B)
    BY <2>3, <2>4, <2>5 DEF Bijection, Injection, Surjection, IsInjective
  <2> HIDE DEF f
  <2>7. Cardinality(B) = i - 1
    BY <2>1, <2>6, SizedIs DEF Sized
  <2> QED BY <2>7 DEF Place, B
<1>7. ASSUME NEW i \in 1 .. n PROVE s[i] = t[i]
  <2>1. s[i] \in R /\ t[i] \in R
    <3>1. s \in Seq(R) /\ Len(s) = n /\ i \in 1 .. n
      BY <1>1, <1>7
    <3>2. t \in [1 .. m -> R] /\ i \in 1 .. m
      BY <1>2, <1>5, <3>1
    <3> QED BY ONLY <3>1, <3>2
  <2>2. Place(s[i], R) = i - 1
    BY PlaceOfListed DEF s
  <2>3. Place(t[i], R) = i - 1
    BY <1>5, <1>6
  <2>4. ~Earlier(s[i], t[i]) /\ ~Earlier(t[i], s[i])
    <3>1. /\ Earlier(s[i], t[i]) => Place(s[i], R) < Place(t[i], R)
          /\ Earlier(t[i], s[i]) => Place(t[i], R) < Place(s[i], R)
      BY <2>1, PlaceIs
    <3>2. Place(t[i], R) \in Nat /\ Place(s[i], R) = Place(t[i], R)
      BY <2>1, <2>2, <2>3, PlaceIs
    <3> QED BY <3>1, <3>2
  <2> QED BY <2>1, <2>4 DEF Sortable
<1>8. s \in Seq(R) /\ Len(t) = Len(s) /\ \A i \in 1 .. Len(s) : s[i] = t[i]
  BY <1>1, <1>5, <1>7 DEF m
<1> QED BY <1>8, SeqEqual DEF s

-----------------------------------------------------------------------------
(* What one transaction adds to the tables.                                *)

\* An event that begins a generation, and the row it makes.
Begins(e) ==
    LET q == generation'[e.generation]
        self == e.key.issuer = e.key.subject
    IN /\ e.type = "created" /\ e.generation = txs + 1 /\ generation[e.generation] = NoRow
       /\ q \in Rows /\ q.key = e.key /\ q.accepted = self
       /\ q.expiration = object'[e.key].expiration /\ object'[e.key].accepted = self
       /\ q.created = ledgerIndex /\ q.createdTx = txIndex /\ q.last = ledgerIndex
       /\ q.deleted = 0 /\ q.cause = "none"

\* An event of a live generation, the newest of its credential, and what it makes of the row.
Continues(e) ==
    LET p == generation[e.generation]
        q == generation'[e.generation]
    IN /\ Live(e.generation) /\ p.key = e.key /\ \A j \in RowsOf(e.key) : j <= e.generation
       /\ q \in Rows /\ q.key = p.key /\ q.expiration = p.expiration
       /\ q.created = p.created /\ q.createdTx = p.createdTx /\ q.last = ledgerIndex
       /\ \/ /\ e.type = "accepted" /\ e.key.issuer # e.key.subject
             /\ q.accepted /\ q.deleted = 0 /\ q.cause = p.cause
             /\ object'[e.key].accepted = TRUE /\ object'[e.key].expiration = p.expiration
          \/ /\ e.type = "deleted"
             /\ q.accepted = p.accepted /\ q.deleted = ledgerIndex /\ q.cause \in Causes
             /\ object[e.key].accepted = p.accepted /\ object[e.key].expiration = p.expiration

\* A transaction with these new events.
Tells(new) ==
    /\ ledgerIndex' = ledgerIndex /\ txIndex' = txIndex + 1 /\ txs' = txs + 1 /\ txs < MaxTxs
    /\ events' = events \cup new /\ IsFiniteSet(new)
    /\ \A e \in new :
          /\ e \in [tx : TxIds, key : Keys, generation : TxIds, type : EventTypes]
          /\ e.tx = txs + 1
          /\ Begins(e) \/ Continues(e)
    /\ \A e, f \in new : e.key = f.key => e = f
    /\ \A g \in TxIds : generation'[g] = generation[g] \/ \E e \in new : e.generation = g

\* A transaction without mutations tells nothing.
LEMMA NothingTold ==
    ASSUME ledgerIndex' = ledgerIndex, txIndex' = txIndex + 1, txs' = txs + 1, txs < MaxTxs,
           events' = events, generation' = generation
    PROVE  \E new : Tells(new)
<1> DEFINE none == {}
<1>1. IsFiniteSet(none)
  BY FS_EmptySet
<1>2. events' = events \cup none
  OBVIOUS
<1>3. \A e \in none : FALSE
  OBVIOUS
<1> HIDE DEF none
<1>4. Tells(none)
  BY <1>1, <1>2, <1>3 DEF Tells
<1> QED BY <1>4

\* One event of the transaction.
LEMMA OneTold ==
    ASSUME IndInv, ledgerIndex' = ledgerIndex, txIndex' = txIndex + 1, txs' = txs + 1, txs < MaxTxs,
           NEW e \in [tx : TxIds, key : Keys, generation : TxIds, type : EventTypes],
           e.tx = txs + 1, Begins(e) \/ Continues(e), events' = events \cup {e},
           \A g \in TxIds : g # e.generation => generation'[g] = generation[g]
    PROVE  \E new : Tells(new)
<1> DEFINE one == {e}
<1>1. IsFiniteSet(one)
  BY FS_Singleton
<1>2. events' = events \cup one /\ e \in one /\ \A f \in one : f = e
  OBVIOUS
<1> HIDE DEF one
<1>3. Tells(one)
  BY <1>1, <1>2 DEF Tells
<1> QED BY <1>3

\* A creation is told by one event.
LEMMA CreateTold ==
    ASSUME IndInv, NEW k \in Keys, NEW e \in Expirations \cup {NoExpiration}, NEW c \in BOOLEAN,
           CredentialCreate(k, e, c)
    PROVE  \E new : Tells(new)
<1> DEFINE o == [exists |-> TRUE, accepted |-> k.issuer = k.subject, expiration |-> e,
                 conforming |-> c, creator |-> txs + 1]
           n == Node("CreatedNode", k, o, FALSE)
<1>1. /\ ~object[k].exists
      /\ Transaction("CredentialCreate", k.issuer, {n}, [object EXCEPT ![k] = o])
  BY DEF CredentialCreate
<1>2. /\ txs < MaxTxs /\ txs \in Nat /\ txs' = txs + 1 /\ txs + 1 \in TxIds
      /\ generation[txs + 1] = NoRow /\ ledgerIndex' = ledgerIndex /\ txIndex' = txIndex + 1
  BY <1>1, NextIdFree DEF Transaction, IndInv, TypeOK
<1>3. o \in Objects
  BY <1>2 DEF Objects, TxIds
<1>4. /\ n.key = k /\ n.conforming = c /\ n.accepted = (k.issuer = k.subject) /\ n.expiration = e
      /\ EventType(n) = "created"
  BY DEF Node, EventType
<1>5. Persist("CredentialCreate", k.issuer, txs + 1, Extracted({n}))
  BY <1>1 DEF Transaction
<1> HIDE DEF n
<1>6. /\ halted' = halted
      /\ generation' = IF k.type \in known /\ o.conforming
                       THEN [generation EXCEPT ![txs + 1] = NewRow(n)] ELSE generation
  BY <1>1, <1>2, <1>3, <1>5, CreateEffect DEF n
<1>7. events' = events \cup Logged(txs + 1, Extracted({n}))
  BY <1>5, <1>6, EventsLogged
<1>8. generation \in [TxIds -> Rows \cup {NoRow}] /\ object \in [Keys -> Objects]
      /\ ledgerIndex \in 1 .. MaxLedger /\ txIndex \in 0 .. MaxTxs
  BY DEF IndInv, TypeOK
<1>9. CASE ~(k.type \in known /\ c)
  <2>1. Extracted({n}) = {}
    BY <1>4, <1>9 DEF Extracted
  <2>2. Logged(txs + 1, Extracted({n})) = {}
    BY <2>1 DEF Logged
  <2>3. generation' = generation /\ events' = events
    BY <1>6, <1>7, <1>9, <2>2
  <2> QED BY <1>2, <2>3, NothingTold
<1>10. CASE k.type \in known /\ c
  <2> DEFINE new == [tx |-> txs + 1, key |-> k, generation |-> txs + 1, type |-> "created"]
  <2>1. Extracted({n}) = {n} /\ Target(txs + 1, n) = txs + 1
    BY <1>4, <1>10 DEF Extracted, Target
  <2>2. events' = events \cup {new}
    BY <1>4, <1>7, <2>1 DEF Logged
  <2>3. generation' = [generation EXCEPT ![txs + 1] = NewRow(n)]
    BY <1>6, <1>10
  <2>4. /\ NewRow(n).key = k /\ NewRow(n).deleted = 0 /\ NewRow(n).created = ledgerIndex
        /\ NewRow(n).accepted = (k.issuer = k.subject) /\ NewRow(n).expiration = e
        /\ NewRow(n).createdTx = txIndex /\ NewRow(n).last = ledgerIndex
        /\ NewRow(n).cause = "none"
    BY <1>4 DEF NewRow
  <2>5. NewRow(n) \in Rows
    <3>1. 0 \in 0 .. MaxLedger /\ "none" \in Causes \cup {"none"}
          /\ n.accepted \in BOOLEAN /\ n.expiration \in Expirations \cup {NoExpiration} /\ n.key \in Keys
      BY <1>4
    <3> QED BY <1>8, <3>1 DEF NewRow, Rows
  <2>6. new.tx = txs + 1 /\ new.generation = txs + 1 /\ new.type = "created" /\ new.key = k
    OBVIOUS
  <2>7. new \in [tx : TxIds, key : Keys, generation : TxIds, type : EventTypes]
    BY <1>2 DEF EventTypes
  <2> HIDE DEF new
  <2>8. object'[k].accepted = (k.issuer = k.subject) /\ object'[k].expiration = e
    BY <1>1, <1>8 DEF Transaction
  <2>9. generation'[txs + 1] = NewRow(n)
    BY <1>2, <1>8, <2>3
  <2> HIDE DEF o
  <2>10. Begins(new)
    BY <1>2, <2>4, <2>5, <2>6, <2>8, <2>9 DEF Begins
  <2>11. \A g \in TxIds : g # new.generation => generation'[g] = generation[g]
    BY <1>8, <2>3, <2>6
  <2> QED BY <1>2, <2>2, <2>6, <2>7, <2>10, <2>11, OneTold
<1> QED BY <1>9, <1>10

\* So is an acceptance.
LEMMA AcceptTold ==
    ASSUME IndInv, HistoryInv, CreatorNewest, NEW k \in Keys, CredentialAccept(k)
    PROVE  \E new : Tells(new)
<1> DEFINE o == [object[k] EXCEPT !.accepted = TRUE]
           n == Node("ModifiedNode", k, o, FALSE)
           d == object[k].creator
           r == [generation[d] EXCEPT !.accepted = TRUE, !.last = ledgerIndex]
<1>1. /\ object[k].exists /\ ~object[k].accepted
      /\ Transaction("CredentialAccept", k.subject, {n}, [object EXCEPT ![k] = o])
  BY DEF CredentialAccept
<1>2. /\ txs < MaxTxs /\ txs \in Nat /\ txs' = txs + 1 /\ txs + 1 \in TxIds
      /\ ledgerIndex' = ledgerIndex /\ txIndex' = txIndex + 1
  BY <1>1, NextIdFree DEF Transaction, IndInv, TypeOK
<1>3. /\ o \in Objects /\ o.accepted = TRUE /\ o.conforming = object[k].conforming
      /\ o.expiration = object[k].expiration
  BY ZenonT(40) DEF Objects, IndInv, TypeOK
<1>4. n.key = k /\ n.conforming = o.conforming /\ EventType(n) = "accepted"
  BY <1>3 DEF Node, EventType
<1>5. Persist("CredentialAccept", k.subject, txs + 1, Extracted({n}))
  BY <1>1, <1>2 DEF Transaction
<1>6. /\ halted' = halted
      /\ generation' = IF IsXcs(k) THEN [generation EXCEPT ![d] = r] ELSE generation
  BY <1>1, <1>2, <1>3, <1>5, AcceptEffect
<1> HIDE DEF n
<1>7. events' = events \cup Logged(txs + 1, Extracted({n}))
  BY <1>5, <1>6, EventsLogged
<1>8. generation \in [TxIds -> Rows \cup {NoRow}] /\ object \in [Keys -> Objects]
      /\ ledgerIndex \in 1 .. MaxLedger
  BY DEF IndInv, TypeOK
<1>9. CASE ~IsXcs(k)
  <2>1. Extracted({n}) = {}
    BY <1>1, <1>3, <1>4, <1>9 DEF Extracted, IsXcs
  <2>2. Logged(txs + 1, Extracted({n})) = {}
    BY <2>1 DEF Logged
  <2>3. generation' = generation /\ events' = events
    BY <1>6, <1>7, <1>9, <2>2
  <2> QED BY <1>2, <2>3, NothingTold
<1>10. CASE IsXcs(k)
  <2> DEFINE new == [tx |-> txs + 1, key |-> k, generation |-> d, type |-> "accepted"]
  <2>1. LiveOf(k) = {d} /\ d \in TxIds
    BY <1>10, LiveOfIs
  <2>2. Extracted({n}) = {n} /\ Target(txs + 1, n) = d
    BY <1>3, <1>4, <1>10, <2>1 DEF Extracted, IsXcs, Target
  <2>3. events' = events \cup {new}
    BY <1>4, <1>7, <2>2 DEF Logged
  <2>4. generation' = [generation EXCEPT ![d] = r]
    BY <1>6, <1>10
  <2>5. /\ Live(d) /\ generation[d] \in Rows /\ generation[d].accepted = object[k].accepted
        /\ generation[d].key = k /\ generation[d].expiration = object[k].expiration
    BY <1>10, <2>1, LiveIsRow DEF IndInv, ForwardInv
  <2>6. generation[d].deleted = 0 /\ generation[d] # NoRow /\ ~generation[d].accepted
    BY <1>1, <2>5 DEF Live, NoRow
  <2>7. /\ r.accepted = TRUE /\ r.deleted = 0 /\ r.key = generation[d].key
        /\ r.created = generation[d].created /\ r.createdTx = generation[d].createdTx
        /\ r.expiration = generation[d].expiration /\ r.cause = generation[d].cause
        /\ r.last = ledgerIndex /\ r \in Rows
    BY <1>8, <2>5, <2>6 DEF Rows
  <2>8. k.issuer # k.subject
    <3>1. TellsRow(d, generation[d], EvOf(d))
      BY <2>1, <2>6 DEF HistoryInv
    <3> QED BY <2>5, <2>6, <3>1 DEF TellsRow
  <2>9. \A j \in RowsOf(k) : j <= d
    BY <1>10 DEF CreatorNewest
  <2>10. object'[k].accepted = TRUE /\ object'[k].expiration = generation[d].expiration
    BY <1>1, <1>3, <1>8, <2>5 DEF Transaction
  <2> HIDE DEF r, d, o
  <2>11. new.tx = txs + 1 /\ new.generation = d /\ new.type = "accepted" /\ new.key = k
    OBVIOUS
  <2>12. new \in [tx : TxIds, key : Keys, generation : TxIds, type : EventTypes]
    BY <1>2, <2>1 DEF EventTypes
  <2> HIDE DEF new
  <2>13. generation'[d] = r /\ \A g \in TxIds : g # d => generation'[g] = generation[g]
    BY <1>8, <2>1, <2>4
  <2>14. Continues(new)
    BY <2>5, <2>7, <2>8, <2>9, <2>10, <2>11, <2>13 DEF Continues
  <2> QED BY <1>2, <2>3, <2>11, <2>12, <2>13, <2>14, OneTold
<1> QED BY <1>9, <1>10

\* A removal is told by an event of each live generation it ends.
LEMMA RemovalTold ==
    ASSUME IndInv, CreatorNewest, NEW t, NEW a, NEW keys, Removal(t, a, keys)
    PROVE  \E new : Tells(new)
<1> DEFINE new == {DeletionOf(i) : i \in EndedBy(keys)}
<1>1. /\ events' = events \cup new
      /\ generation' = [i \in TxIds |-> IF Live(i) /\ generation[i].key \in keys
                                        THEN Ended(t, a, i) ELSE generation[i]]
  BY RemovalLogged
<1>2. /\ txs < MaxTxs /\ txs' = txs + 1 /\ txs + 1 \in TxIds
      /\ ledgerIndex' = ledgerIndex /\ txIndex' = txIndex + 1
      /\ keys \subseteq Keys
  BY NextIdFree DEF Removal, Transaction
<1>3. ASSUME NEW i \in EndedBy(keys)
      PROVE  /\ i \in TxIds /\ Live(i) /\ generation[i] \in Rows /\ generation[i].key \in keys
             /\ IsXcs(generation[i].key) /\ object[generation[i].key].creator = i
             /\ object[generation[i].key].accepted = generation[i].accepted
             /\ object[generation[i].key].expiration = generation[i].expiration
             /\ \A j \in RowsOf(generation[i].key) : j <= i
             /\ DeletionOf(i) = [tx |-> txs + 1, key |-> generation[i].key, generation |-> i,
                                 type |-> "deleted"]
  <2>1. /\ i \in TxIds /\ Live(i) /\ generation[i].key \in keys /\ generation[i] \in Rows
    BY LiveIsRow DEF EndedBy
  <2>2. IsXcs(generation[i].key) /\ object[generation[i].key].creator = i
        /\ generation[i].key \in Keys
    BY <2>1 DEF IndInv, BackwardInv
  <2>3. /\ object[generation[i].key].accepted = generation[i].accepted
        /\ object[generation[i].key].expiration = generation[i].expiration
    BY <2>2 DEF IndInv, ForwardInv
  <2>4. \A j \in RowsOf(generation[i].key) : j <= i
    BY <2>2 DEF CreatorNewest
  <2> QED BY <2>1, <2>2, <2>3, <2>4 DEF DeletionOf
<1>4. IsFiniteSet(new)
  <2> DEFINE S == EndedBy(keys)
             f == [i \in S |-> DeletionOf(i)]
  <2>1. IsFiniteSet(S)
    <3>1. S \in SUBSET (1 .. MaxTxs)
      BY DEF EndedBy, TxIds
    <3>2. 1 \in Int /\ MaxTxs \in Int
      OBVIOUS
    <3>3. IsFiniteSet(1 .. MaxTxs)
      BY <3>2, FS_Interval
    <3> HIDE DEF S
    <3> QED BY <3>1, <3>3, FS_Subset
  <2>2. f \in Surjection(S, new)
    BY DEF Surjection
  <2> HIDE DEF f, S
  <2> QED BY <2>1, <2>2, FS_Surjection
<1>5. ASSUME NEW i \in EndedBy(keys)
      PROVE  Continues(DeletionOf(i))
  <2> DEFINE c == DeletionCause(t, a, Node("DeletedNode", generation[i].key,
                                           object[generation[i].key], FALSE))
  <2>1. generation'[i] = [generation[i] EXCEPT !.last = ledgerIndex, !.deleted = ledgerIndex,
                                               !.cause = c]
    BY <1>1, <1>3 DEF Ended
  <2>2. c \in Causes
    BY DEF DeletionCause, Causes
  <2> HIDE DEF c
  <2>3. ledgerIndex \in 1 .. MaxLedger
    BY DEF IndInv, TypeOK
  <2>4. ASSUME NEW g \in Rows, NEW h, h = [g EXCEPT !.last = ledgerIndex, !.deleted = ledgerIndex,
                                                    !.cause = c]
        PROVE  /\ h.deleted = ledgerIndex /\ h.key = g.key /\ h.accepted = g.accepted
               /\ h.created = g.created /\ h.createdTx = g.createdTx /\ h.expiration = g.expiration
               /\ h.last = ledgerIndex /\ h.cause = c /\ h \in Rows
    <3>1. c \in Causes \cup {"none"} /\ ledgerIndex \in 0 .. MaxLedger
      BY <2>2, <2>3
    <3> QED BY ONLY <2>3, <2>4, <3>1 DEF Rows
  <2>5. /\ DeletionOf(i).key = generation[i].key /\ DeletionOf(i).generation = i
        /\ DeletionOf(i).type = "deleted"
    BY <1>3
  <2> DEFINE p == generation[i]
             q == generation'[i]
  <2>7. p \in Rows /\ q = [p EXCEPT !.last = ledgerIndex, !.deleted = ledgerIndex, !.cause = c]
    BY <1>3, <2>1
  <2> HIDE DEF p, q
  <2>8. /\ q.deleted = ledgerIndex /\ q.key = p.key /\ q.accepted = p.accepted
        /\ q.created = p.created /\ q.createdTx = p.createdTx /\ q.expiration = p.expiration
        /\ q.last = ledgerIndex /\ q.cause = c /\ q \in Rows
    BY ONLY <2>4, <2>7
  <2> USE DEF p, q
  <2>6. /\ q.deleted = ledgerIndex /\ q.key = generation[i].key
        /\ q.accepted = generation[i].accepted /\ q.created = generation[i].created
        /\ q.createdTx = generation[i].createdTx /\ q.expiration = generation[i].expiration
        /\ q.last = ledgerIndex /\ q.cause = c /\ q \in Rows
    BY ONLY <2>8 DEF p, q
  <2> QED BY SMTT(30), <1>3, <2>2, <2>5, <2>6 DEF Continues
<1>6. ASSUME NEW i \in EndedBy(keys)
      PROVE  /\ DeletionOf(i) \in [tx : TxIds, key : Keys, generation : TxIds, type : EventTypes]
             /\ DeletionOf(i).tx = txs + 1 /\ DeletionOf(i).key = generation[i].key
             /\ DeletionOf(i).generation = i
  BY <1>2, <1>3 DEF EventTypes
<1>7. \A i, j \in EndedBy(keys) : DeletionOf(i).key = DeletionOf(j).key => i = j
  BY <1>3, <1>6
<1>8. \A g \in TxIds : generation'[g] = generation[g] \/ \E e \in new : e.generation = g
  <2> TAKE g \in TxIds
  <2>1. CASE g \in EndedBy(keys)
    BY <1>6, <2>1
  <2>2. CASE g \notin EndedBy(keys)
    BY <1>1, <2>2 DEF EndedBy
  <2> QED BY <2>1, <2>2
<1>9. Tells(new)
  BY <1>1, <1>2, <1>4, <1>5, <1>6, <1>7, <1>8 DEF Tells
<1> QED BY <1>9

\* Every step is a transaction that tells its events, or none.
LEMMA StepTells ==
    ASSUME IndInv, HistoryInv, CreatorNewest, [Next]_vars
    PROVE  UNCHANGED vars \/ CloseLedger \/ \E new : Tells(new)
<1>1. ASSUME NEW u \in Uids, RegisterSchema(u) PROVE \E new : Tells(new)
  BY <1>1, NothingTold DEF RegisterSchema, tableVars
<1> QED BY <1>1, CreateTold, AcceptTold, RemovalTold, NextCases

-----------------------------------------------------------------------------
(* The log of events.                                                      *)

LogRows ==
    [tx : TxIds, key : Keys, generation : TxIds, type : EventTypes,
     ledger : 1 .. MaxLedger, txIndex : Nat, node : Nat \ {0}, accepted : BOOLEAN,
     expiration : Expirations \cup {NoExpiration}, cause : Causes \cup {"none"}]

\* The row of credential_events without the columns the endpoints check.
AsEvent(r) == [tx |-> r.tx, key |-> r.key, generation |-> r.generation, type |-> r.type]

\* The position (l, x) of the ledger comes before (m, y).
Before(l, x, m, y) == l < m \/ (l = m /\ x < y)

\* Rows of earlier transactions have earlier positions, all before the next one; those of
\* a transaction share its position and differ in their node and in their credential.
LogPlaced ==
    /\ \A r \in log : r.tx <= txs /\ Before(r.ledger, r.txIndex, ledgerIndex, txIndex)
    /\ \A r, s \in log : r.tx < s.tx => Before(r.ledger, r.txIndex, s.ledger, s.txIndex)
    /\ \A r, s \in log : r.tx = s.tx =>
          /\ r.ledger = s.ledger /\ r.txIndex = s.txIndex
          /\ r # s => r.node # s.node /\ r.key # s.key

\* An event agrees with the row of its generation.
Fits(r, row) ==
    LET self == r.key.issuer = r.key.subject
    IN /\ row \in Rows /\ row.key = r.key /\ row.expiration = r.expiration /\ r.ledger <= row.last
       /\ \/ /\ r.type = "created" /\ r.generation = r.tx /\ r.accepted = self /\ r.cause = "none"
             /\ r.ledger = row.created /\ r.txIndex = row.createdTx
          \/ r.type = "accepted" /\ r.accepted /\ ~self /\ r.cause = "none" /\ row.accepted
          \/ /\ r.type = "deleted" /\ r.accepted = row.accepted /\ r.ledger = row.deleted
             /\ r.cause = row.cause /\ r.cause \in Causes

LogFits == \A r \in log : Fits(r, generation[r.generation])

\* The ledgers of a row are in order, and its last one is that of one of its events.
RowsDated ==
    \A i \in TxIds : generation[i] # NoRow =>
        LET q == generation[i]
        IN /\ q.created <= q.last /\ q.last <= ledgerIndex
           /\ IF q.deleted = 0 THEN q.cause = "none" ELSE q.deleted = q.last /\ q.cause \in Causes
           /\ \E r \in log : r.generation = i /\ r.ledger = q.last

\* A credential is created again only after all events of its former generation.
Succession ==
    \A r \in log, j \in TxIds :
        generation[j] # NoRow /\ generation[j].key = r.key /\ r.generation < j => r.tx < j

LogInv ==
    /\ IsFiniteSet(log) /\ log \subseteq LogRows
    /\ {AsEvent(r) : r \in log} = events
    /\ LogPlaced /\ LogFits /\ RowsDated /\ Succession

\* The row of a new event.
LEMMA FreshRow ==
    ASSUME IndInv, NEW new, Tells(new), NEW e \in new, NEW n \in Nat \ {0}, NEW r, r = EventRow(e, n)
    PROVE  /\ r \in LogRows /\ AsEvent(r) = e /\ r.tx = txs + 1 /\ r.key = e.key
           /\ r.generation = e.generation /\ r.ledger = ledgerIndex /\ r.txIndex = txIndex
           /\ r.node = n /\ Fits(r, generation'[e.generation])
<1>1. /\ ledgerIndex \in 1 .. MaxLedger /\ txIndex \in Nat /\ txs \in Nat
      /\ generation \in [TxIds -> Rows \cup {NoRow}]
  BY DEF IndInv, TypeOK
<1>2. /\ e \in [tx : TxIds, key : Keys, generation : TxIds, type : EventTypes]
      /\ e.tx = txs + 1 /\ (Begins(e) \/ Continues(e))
  BY DEF Tells
<1>3. /\ e.tx \in TxIds /\ e.key \in Keys /\ e.generation \in TxIds /\ e.type \in EventTypes
      /\ e = [tx |-> e.tx, key |-> e.key, generation |-> e.generation, type |-> e.type]
  BY <1>2
<1>4. /\ r.tx = e.tx /\ r.key = e.key /\ r.generation = e.generation /\ r.type = e.type
      /\ r.ledger = ledgerIndex /\ r.txIndex = txIndex /\ r.node = n
      /\ r.accepted = IF e.type = "deleted" THEN object[e.key].accepted ELSE object'[e.key].accepted
      /\ r.expiration = IF e.type = "deleted" THEN object[e.key].expiration
                        ELSE object'[e.key].expiration
      /\ r.cause = IF e.type = "deleted" THEN generation'[e.generation].cause ELSE "none"
  BY DEF EventRow
<1>5. AsEvent(r) = e
  BY <1>3, <1>4 DEF AsEvent
<1>6. r = [tx |-> r.tx, key |-> r.key, generation |-> r.generation, type |-> r.type,
           ledger |-> r.ledger, txIndex |-> r.txIndex, node |-> r.node, accepted |-> r.accepted,
           expiration |-> r.expiration, cause |-> r.cause]
  BY DEF EventRow
<1> DEFINE p == generation[e.generation]
           q == generation'[e.generation]
<1>7. CASE Begins(e)
  <2>1. /\ q \in Rows /\ q.key = e.key /\ e.type = "created" /\ e.generation = e.tx
        /\ q.accepted = (e.key.issuer = e.key.subject) /\ q.expiration = object'[e.key].expiration
        /\ object'[e.key].accepted = (e.key.issuer = e.key.subject)
        /\ q.created = ledgerIndex /\ q.createdTx = txIndex /\ q.last = ledgerIndex
    BY <1>2, <1>7 DEF Begins
  <2> HIDE DEF p, q
  <2>2. r.accepted = q.accepted /\ r.expiration = q.expiration /\ r.cause = "none"
    BY <1>4, <2>1
  <2>3. Fits(r, q)
    BY <1>1, <1>4, <2>1, <2>2 DEF Fits
  <2>4. q.accepted \in BOOLEAN /\ q.expiration \in Expirations \cup {NoExpiration}
    BY <2>1 DEF Rows
  <2>5. r \in LogRows
    BY <1>1, <1>3, <1>4, <1>6, <2>2, <2>4 DEF LogRows
  <2> QED BY <1>2, <1>4, <1>5, <2>3, <2>5 DEF q
<1>8. CASE Continues(e)
  <2>1. /\ q \in Rows /\ q.key = p.key /\ p.key = e.key /\ q.last = ledgerIndex
        /\ q.expiration = p.expiration
        /\ \/ /\ e.type = "accepted" /\ e.key.issuer # e.key.subject /\ q.accepted
              /\ object'[e.key].accepted = TRUE /\ object'[e.key].expiration = p.expiration
           \/ /\ e.type = "deleted" /\ q.accepted = p.accepted /\ q.deleted = ledgerIndex
              /\ q.cause \in Causes
              /\ object[e.key].accepted = p.accepted /\ object[e.key].expiration = p.expiration
    BY <1>8 DEF Continues
  <2>2. Live(e.generation)
    BY <1>8 DEF Continues
  <2>3. p \in Rows
    BY <1>3, <2>2, LiveIsRow
  <2> HIDE DEF p, q
  <2>5. /\ q.accepted \in BOOLEAN /\ q.expiration \in Expirations \cup {NoExpiration}
        /\ p.accepted \in BOOLEAN
    BY <2>1, <2>3 DEF Rows
  <2>6. /\ r.expiration = q.expiration /\ r.accepted = (IF e.type = "deleted" THEN q.accepted ELSE TRUE)
        /\ r.cause \in Causes \cup {"none"}
    BY <1>4, <2>1 DEF q
  <2>7. Fits(r, q)
    <3>1. CASE e.type = "accepted"
      <4>1. r.accepted = TRUE /\ r.cause = "none"
        BY <1>4, <2>6, <3>1
      <4> QED BY <1>1, <1>4, <2>1, <2>6, <3>1, <4>1 DEF Fits
    <3>2. CASE e.type = "deleted"
      <4>1. r.accepted = q.accepted /\ r.cause = q.cause
        BY <1>4, <2>6, <3>2 DEF q
      <4> QED BY <1>1, <1>4, <2>1, <2>6, <3>2, <4>1 DEF Fits
    <3> QED BY <2>1, <3>1, <3>2
  <2>8. r \in LogRows
    <3>1. r.accepted \in BOOLEAN
      BY <2>5, <2>6
    <3> QED BY <1>1, <1>3, <1>4, <1>6, <2>5, <2>6, <3>1 DEF LogRows
  <2> QED BY <1>2, <1>4, <1>5, <2>7, <2>8 DEF q
<1> QED BY <1>2, <1>7, <1>8

\* The types of a row of the log.
LEMMA LogRowTypes ==
    ASSUME NEW r \in LogRows
    PROVE  /\ r.tx \in TxIds /\ r.tx \in Nat /\ r.key \in Keys /\ r.generation \in TxIds
           /\ r.generation \in Nat /\ r.type \in EventTypes /\ r.ledger \in Nat /\ r.ledger >= 1
           /\ r.txIndex \in Nat /\ r.node \in Nat /\ r.node >= 1 /\ r.accepted \in BOOLEAN
           /\ r.expiration \in Expirations \cup {NoExpiration} /\ r.cause \in Causes \cup {"none"}
BY DEF LogRows, TxIds

\* What a transaction makes of the row of a generation that has events already.
LEMMA FitsStill ==
    ASSUME IndInv, LogInv, NEW new, Tells(new), NEW r \in log
    PROVE  Fits(r, generation'[r.generation])
<1> DEFINE p == generation[r.generation]
           q == generation'[r.generation]
<1>1. /\ r \in LogRows /\ Fits(r, p)
      /\ ledgerIndex \in Nat /\ txIndex \in Nat
      /\ Before(r.ledger, r.txIndex, ledgerIndex, txIndex)
  BY DEF LogInv, LogFits, LogPlaced, IndInv, TypeOK
<1>2. r.generation \in TxIds /\ r.ledger \in Nat /\ r.ledger >= 1 /\ r.txIndex \in Nat
  BY <1>1, LogRowTypes
<1>3. r.ledger <= ledgerIndex
  BY <1>1, <1>2 DEF Before
<1>4. p \in Rows /\ p # NoRow
  BY <1>1 DEF Fits, Rows, NoRow
<1>5. CASE q = p
  BY <1>1, <1>5
<1>6. CASE q # p
  <2>1. PICK e \in new : e.generation = r.generation
    BY <1>2, <1>6 DEF Tells
  <2>2. Continues(e)
    BY <1>4, <2>1 DEF Tells, Begins
  <2>3. Live(r.generation)
    BY <2>1, <2>2 DEF Continues
  <2>4. /\ q \in Rows /\ q.key = p.key /\ q.expiration = p.expiration
        /\ q.created = p.created /\ q.createdTx = p.createdTx /\ q.last = ledgerIndex
        /\ q.accepted \/ q.accepted = p.accepted
    BY <2>1, <2>2 DEF Continues
  <2>5. p.deleted = 0
    BY <2>3 DEF Live
  <2> HIDE DEF p, q
  <2>6. r.type = "deleted" => r.ledger # p.deleted
    BY <1>2, <2>5
  <2>7. q \in Rows /\ q.key = r.key /\ q.expiration = r.expiration /\ r.ledger <= q.last
    BY <1>1, <1>3, <2>4 DEF Fits
  <2>8. Fits(r, q)
    BY <1>1, <2>4, <2>6, <2>7 DEF Fits
  <2> QED BY <2>8 DEF q
<1> QED BY <1>5, <1>6

\* The rows of credential_generations after a transaction.
LEMMA RowAfter ==
    ASSUME IndInv, NEW new, Tells(new), NEW i \in TxIds, generation'[i] # NoRow
    PROVE  \/ generation'[i] = generation[i] /\ generation[i] # NoRow
           \/ \E e \in new : e.generation = i /\ Begins(e)
           \/ \E e \in new : e.generation = i /\ Continues(e) /\ generation[i] # NoRow
<1>1. \A e \in new : Continues(e) => generation[e.generation] # NoRow
  BY DEF Continues, Live, NoRow
<1> QED BY <1>1 DEF Tells

\* A transaction keeps the invariant.
LEMMA LogAdded ==
    ASSUME IndInv, LogInv, NEW new, Tells(new), NEW f \in [new -> Nat \ {0}],
           \A a, b \in new : a # b => f[a] # f[b],
           log' = log \cup {EventRow(e, f[e]) : e \in new}
    PROVE  LogInv'
<1> DEFINE N == {EventRow(e, f[e]) : e \in new}
           At(r) == /\ r.tx = txs + 1 /\ r.ledger = ledgerIndex /\ r.txIndex = txIndex
<1>1. /\ ledgerIndex \in Nat /\ txIndex \in Nat /\ txs \in Nat
      /\ ledgerIndex' = ledgerIndex /\ txIndex' = txIndex + 1 /\ txs' = txs + 1
  BY DEF IndInv, TypeOK, Tells
<1>2. ASSUME NEW e \in new, NEW r, r = EventRow(e, f[e])
      PROVE  /\ r \in LogRows /\ AsEvent(r) = e /\ At(r) /\ r.key = e.key
             /\ r.generation = e.generation /\ r.node = f[e] /\ Fits(r, generation'[e.generation])
  <2>1. f[e] \in Nat \ {0}
    OBVIOUS
  <2> QED BY <1>2, <2>1, FreshRow
<1>3. \A r \in N : \E e \in new : r = EventRow(e, f[e])
  OBVIOUS
<1>4. \A e \in new : EventRow(e, f[e]) \in N
  OBVIOUS
<1>5. log' = log \cup N
  OBVIOUS
<1>6. IsFiniteSet(log')
  <2> DEFINE h == [e \in new |-> EventRow(e, f[e])]
  <2>1. h \in Surjection(new, N)
    BY DEF Surjection
  <2>2. IsFiniteSet(new) /\ IsFiniteSet(log)
    BY DEF Tells, LogInv
  <2> HIDE DEF h, N
  <2>3. IsFiniteSet(N)
    BY <2>1, <2>2, FS_Surjection
  <2>4. IsFiniteSet(log \cup N)
    BY <2>2, <2>3, FS_Union
  <2> QED BY <1>5, <2>4
<1> HIDE DEF N
<1>7. ASSUME NEW r \in N
      PROVE  /\ r \in LogRows /\ At(r) /\ AsEvent(r) \in new /\ r.key = AsEvent(r).key
             /\ r.generation = AsEvent(r).generation /\ r.node = f[AsEvent(r)]
             /\ r = EventRow(AsEvent(r), f[AsEvent(r)])
             /\ Fits(r, generation'[r.generation])
  BY <1>2, <1>3
<1>8. ASSUME NEW r \in log
      PROVE  /\ r \in LogRows /\ r.tx <= txs /\ r.tx \in Nat /\ r.ledger \in Nat
             /\ r.txIndex \in Nat /\ r.ledger >= 1
             /\ r.generation \in TxIds /\ r.generation \in Nat
             /\ Before(r.ledger, r.txIndex, ledgerIndex, txIndex)
  BY LogRowTypes DEF LogInv, LogPlaced
<1>9. log' \subseteq LogRows
  BY <1>5, <1>7, <1>8
<1>10. {AsEvent(r) : r \in log'} = events'
  <2>1. {AsEvent(r) : r \in log} = events /\ events' = events \cup new
    BY DEF LogInv, Tells
  <2>2. {AsEvent(r) : r \in N} = new
    BY <1>2, <1>3, <1>4
  <2> QED BY <1>5, <2>1, <2>2
<1>11. LogPlaced'
  <2>1. ASSUME NEW r \in log'
        PROVE  r.tx <= txs + 1 /\ Before(r.ledger, r.txIndex, ledgerIndex, txIndex + 1)
    <3>1. CASE r \in log
      BY <1>1, <1>8, <3>1 DEF Before
    <3>2. CASE r \in N
      BY <1>1, <1>7, <3>2 DEF Before
    <3> QED BY <1>5, <3>1, <3>2
  <2>2. ASSUME NEW r \in log', NEW s \in log', r.tx < s.tx
        PROVE  Before(r.ledger, r.txIndex, s.ledger, s.txIndex)
    <3>1. CASE r \in log /\ s \in log
      BY <2>2, <3>1 DEF LogInv, LogPlaced
    <3>2. CASE r \in log /\ s \in N
      BY <1>7, <1>8, <3>2
    <3>3. CASE r \in N
      BY <1>1, <1>5, <1>7, <1>8, <2>2, <3>3
    <3> QED BY <1>5, <3>1, <3>2, <3>3
  <2>3. ASSUME NEW r \in log', NEW s \in log', r.tx = s.tx
        PROVE  /\ r.ledger = s.ledger /\ r.txIndex = s.txIndex
               /\ r # s => r.node # s.node /\ r.key # s.key
    <3>1. CASE r \in log /\ s \in log
      BY <2>3, <3>1 DEF LogInv, LogPlaced
    <3>2. CASE r \in N /\ s \in N
      <4>1. r # s => AsEvent(r) # AsEvent(s)
        BY <1>7, <3>2
      <4>2. AsEvent(r) # AsEvent(s) => AsEvent(r).key # AsEvent(s).key
        BY <1>7, <3>2 DEF Tells
      <4>3. AsEvent(r) # AsEvent(s) => f[AsEvent(r)] # f[AsEvent(s)]
        BY <1>7, <3>2
      <4> QED BY <1>7, <3>2, <4>1, <4>2, <4>3
    <3>3. r \in log => r.tx # txs + 1
      BY <1>1, <1>8
    <3>4. s \in log => s.tx # txs + 1
      BY <1>1, <1>8
    <3> QED BY <1>5, <1>7, <2>3, <3>1, <3>2, <3>3, <3>4
  <2> QED BY <1>1, <2>1, <2>2, <2>3 DEF LogPlaced
<1>12. LogFits'
  BY <1>5, <1>7, FitsStill DEF LogFits
<1>13. RowsDated'
  <2> SUFFICES ASSUME NEW i \in TxIds, generation'[i] # NoRow
               PROVE  LET q == generation'[i]
                      IN /\ q.created <= q.last /\ q.last <= ledgerIndex
                         /\ IF q.deleted = 0 THEN q.cause = "none"
                            ELSE q.deleted = q.last /\ q.cause \in Causes
                         /\ \E r \in log' : r.generation = i /\ r.ledger = q.last
    BY <1>1 DEF RowsDated
  <2> DEFINE p == generation[i]
             q == generation'[i]
  <2>1. CASE q = p /\ p # NoRow
    BY <1>5, <2>1 DEF LogInv, RowsDated
  <2>2. ASSUME NEW e \in new, e.generation = i
        PROVE  \E r \in log' : r.generation = i /\ r.ledger = ledgerIndex
    <3>1. EventRow(e, f[e]) \in log'
      BY <1>4, <1>5
    <3> QED BY <1>2, <2>2, <3>1
  <2>3. ASSUME NEW e \in new, e.generation = i, Begins(e)
        PROVE  /\ q.created = ledgerIndex /\ q.last = ledgerIndex /\ q.deleted = 0
               /\ q.cause = "none"
    BY <2>3 DEF Begins
  <2>4. ASSUME NEW e \in new, e.generation = i, Continues(e), p # NoRow
        PROVE  /\ q.created <= ledgerIndex /\ q.last = ledgerIndex
               /\ IF q.deleted = 0 THEN q.cause = "none"
                  ELSE q.deleted = ledgerIndex /\ q.cause \in Causes
    <3>1. /\ q.created = p.created /\ q.last = ledgerIndex
          /\ \/ q.deleted = 0 /\ q.cause = p.cause
             \/ q.deleted = ledgerIndex /\ q.cause \in Causes
      BY <2>4 DEF Continues
    <3>2. p.deleted = 0
      BY <2>4 DEF Continues, Live
    <3>3. p.created <= p.last /\ p.last <= ledgerIndex /\ p.cause = "none"
      BY <2>4, <3>2 DEF LogInv, RowsDated
    <3>4. p \in Rows
      BY <2>4 DEF IndInv, TypeOK
    <3>5. p.created \in Nat /\ p.last \in Nat /\ ledgerIndex # 0
      BY <3>4 DEF Rows, IndInv, TypeOK
    <3> HIDE DEF p, q
    <3> QED BY <1>1, <3>1, <3>3, <3>5
  <2> QED BY <1>1, <2>1, <2>2, <2>3, <2>4, RowAfter
<1>14. Succession'
  <2> SUFFICES ASSUME NEW r \in log', NEW j \in TxIds, generation'[j] # NoRow,
                      generation'[j].key = r.key, r.generation < j
               PROVE  r.tx < j
    BY DEF Succession
  <2>0. j \in Nat
    BY DEF TxIds
  <2>1. CASE \E e \in new : e.generation = j /\ Begins(e)
    <3>1. PICK e \in new : e.generation = j /\ Begins(e)
      BY <2>1
    <3>2. j = txs + 1 /\ e.tx = txs + 1
      BY <3>1 DEF Begins, Tells
    <3>3. r \notin N
      <4>1. SUFFICES ASSUME r \in N PROVE FALSE
        OBVIOUS
      <4>2. AsEvent(r) \in new /\ AsEvent(r).key = e.key
        BY <1>7, <3>1, <4>1 DEF Begins
      <4>3. AsEvent(r) = e
        BY <4>2 DEF Tells
      <4> QED BY <1>7, <2>0, <3>1, <4>1, <4>3
    <3> QED BY <1>1, <1>5, <1>8, <3>2, <3>3
  <2>2. CASE generation[j] # NoRow /\ generation'[j].key = generation[j].key
    <3>1. CASE r \in log
      BY <2>2, <3>1 DEF LogInv, Succession
    <3>2. CASE r \in N
      <4>1. AsEvent(r) \in new /\ AsEvent(r).key = r.key /\ AsEvent(r).generation = r.generation
        BY <1>7, <3>2
      <4>2. CASE Continues(AsEvent(r))
        <5>1. j \in RowsOf(r.key)
          BY <2>2 DEF RowsOf
        <5>2. j <= r.generation
          BY <4>1, <4>2, <5>1 DEF Continues
        <5>3. r.generation \in Nat
          BY <1>7, <3>2, LogRowTypes
        <5> QED BY <2>0, <5>2, <5>3
      <4>3. CASE Begins(AsEvent(r))
        <5>1. r.generation = txs + 1
          BY <4>1, <4>3 DEF Begins
        <5>2. j <= txs
          BY <2>2 DEF IndInv, RowsInv
        <5> QED BY <1>1, <2>0, <5>1, <5>2
      <4> QED BY <4>1, <4>2, <4>3 DEF Tells
    <3> QED BY <1>5, <3>1, <3>2
  <2>3. \A e \in new : e.generation = j /\ Continues(e) => generation'[j].key = generation[j].key
    BY DEF Continues
  <2> QED BY <2>1, <2>2, <2>3, RowAfter
<1> QED BY <1>6, <1>9, <1>10, <1>11, <1>12, <1>13, <1>14 DEF LogInv

\* So does a step that writes nothing.
LEMMA LogUnmoved ==
    ASSUME IndInv, LogInv, log' = log, events' = events, generation' = generation, txs' = txs,
           \/ ledgerIndex' = ledgerIndex /\ txIndex' = txIndex
           \/ ledgerIndex' = ledgerIndex + 1
    PROVE  LogInv'
<1>1. ledgerIndex \in Nat /\ \A i \in TxIds : generation[i] # NoRow => generation[i].last \in Nat
  <2>1. \A i \in TxIds : generation[i] # NoRow => generation[i] \in Rows
    BY DEF IndInv, TypeOK
  <2> QED BY <2>1 DEF IndInv, TypeOK, Rows
<1>2. ASSUME NEW r \in log PROVE Before(r.ledger, r.txIndex, ledgerIndex', txIndex')
  <2>1. r.ledger \in Nat /\ Before(r.ledger, r.txIndex, ledgerIndex, txIndex)
    BY LogRowTypes DEF LogInv, LogPlaced
  <2> QED BY <1>1, <2>1 DEF Before
<1>3. LogPlaced'
  BY <1>2 DEF LogInv, LogPlaced
<1>4. RowsDated'
  <2> SUFFICES ASSUME NEW i \in TxIds, generation[i] # NoRow
               PROVE  LET q == generation[i]
                      IN /\ q.created <= q.last /\ q.last <= ledgerIndex'
                         /\ IF q.deleted = 0 THEN q.cause = "none"
                            ELSE q.deleted = q.last /\ q.cause \in Causes
                         /\ \E r \in log : r.generation = i /\ r.ledger = q.last
    BY DEF RowsDated
  <2> QED BY <1>1 DEF LogInv, RowsDated
<1> QED BY <1>3, <1>4 DEF LogInv, LogFits, Succession

\* Nothing but the new events of a transaction is added to the log.
LEMMA LogKept ==
    ASSUME IndInv, HistoryInv, CreatorNewest, LogInv, [ReadNext]_readVars
    PROVE  LogInv'
<1>1. CASE UNCHANGED readVars
  BY <1>1, LogUnmoved DEF readVars, vars, ledgerVars, tableVars
<1>2. CASE ReadNext
  <2> DEFINE new == events' \ events
  <2>1. /\ Next
        /\ \E node \in Numberings(new) : log' = log \cup {EventRow(e, node[e]) : e \in new}
    BY <1>2 DEF ReadNext
  <2>2. PICK node \in Numberings(new) : log' = log \cup {EventRow(e, node[e]) : e \in new}
    BY <2>1
  <2>3. CASE UNCHANGED vars \/ CloseLedger
    <3>1. /\ events' = events /\ generation' = generation /\ txs' = txs
          /\ \/ ledgerIndex' = ledgerIndex /\ txIndex' = txIndex
             \/ ledgerIndex' = ledgerIndex + 1
      BY <2>3 DEF CloseLedger, vars, ledgerVars, tableVars
    <3>2. log' = log
      BY <2>2, <3>1
    <3> QED BY <3>1, <3>2, LogUnmoved
  <2>4. ASSUME NEW told, Tells(told) PROVE LogInv'
    <3>1. told = new
      <4>1. txs \in Nat /\ \A e \in events : e.tx <= txs
        BY DEF IndInv, TypeOK, HistoryInv
      <4>2. events' = events \cup told /\ \A e \in told : e.tx = txs + 1
        BY <2>4 DEF Tells
      <4>3. \A e \in told : e \notin events
        BY <4>1, <4>2
      <4> QED BY <4>2, <4>3
    <3>2. IsFiniteSet(new)
      BY <2>4, <3>1 DEF Tells
    <3> HIDE DEF new
    <3>3. Cardinality(new) \in Nat
      BY <3>2, FS_CardinalityType
    <3>4. /\ node \in [new -> Nat \ {0}]
          /\ \A a, b \in new : a # b => node[a] # node[b]
      <4>1. node \in [new -> 1 .. Cardinality(new)]
        BY DEF Numberings
      <4>2. 1 .. Cardinality(new) \subseteq Nat \ {0}
        BY <3>3
      <4>3. \A a, b \in new : a # b => node[a] # node[b]
        BY DEF Numberings
      <4> QED BY <4>1, <4>2, <4>3
    <3> QED BY <2>2, <2>4, <3>1, <3>4, LogAdded
  <2> QED BY <2>1, <2>3, <2>4, StepTells
<1> QED BY <1>1, <1>2

\* The invariant of the tables and the log.
ReadInv ==
    /\ IndInv /\ CausesTruthful /\ HistoryInv /\ OrderInv /\ CreatorNewest /\ LogInv

-----------------------------------------------------------------------------
(* What the endpoints are given.                                           *)

\* The rows of the log have distinct places.
LEMMA LogSortable ==
    ASSUME LogInv
    PROVE  Sortable(log)
<1>1. ASSUME NEW a \in log, NEW b \in log, a # b
      PROVE  Earlier(a, b) \/ Earlier(b, a)
  <2>1. /\ a.tx \in Nat /\ b.tx \in Nat /\ a.node \in Nat /\ b.node \in Nat
    BY LogRowTypes DEF LogInv
  <2>2. CASE a.tx < b.tx
    BY <2>2 DEF LogInv, LogPlaced, Before, Earlier
  <2>3. CASE b.tx < a.tx
    BY <2>3 DEF LogInv, LogPlaced, Before, Earlier
  <2>4. CASE a.tx = b.tx
    BY <1>1, <2>1, <2>4 DEF LogInv, LogPlaced, Earlier
  <2> QED BY <2>1, <2>2, <2>3, <2>4
<1>2. \A r \in log : r.ledger \in Int /\ r.txIndex \in Int /\ r.node \in Int
  BY LogRowTypes DEF LogInv
<1> QED BY <1>1, <1>2 DEF Sortable, LogInv

\* The places follow the transactions, and the nodes within one.
LEMMA EarlierIs ==
    ASSUME LogInv, NEW r \in log, NEW s \in log
    PROVE  Earlier(r, s) <=> r.tx < s.tx \/ (r.tx = s.tx /\ r.node < s.node)
<1>1. /\ r.tx \in Nat /\ s.tx \in Nat /\ r.node \in Nat /\ s.node \in Nat
      /\ r.ledger \in Nat /\ s.ledger \in Nat /\ r.txIndex \in Nat /\ s.txIndex \in Nat
  BY LogRowTypes DEF LogInv
<1>2. CASE r.tx < s.tx
  BY <1>1, <1>2 DEF LogInv, LogPlaced, Before, Earlier
<1>3. CASE s.tx < r.tx
  <2>1. Before(s.ledger, s.txIndex, r.ledger, r.txIndex)
    BY <1>3 DEF LogInv, LogPlaced
  <2> QED BY <1>1, <1>3, <2>1 DEF Before, Earlier
<1>4. CASE r.tx = s.tx
  <2>1. r.ledger = s.ledger /\ r.txIndex = s.txIndex
    BY <1>4 DEF LogInv, LogPlaced
  <2> QED BY <1>1, <1>4, <2>1 DEF Earlier
<1> QED BY <1>1, <1>2, <1>3, <1>4

\* Rows in their order: each once.
LEMMA Listed ==
    ASSUME NEW R, Sortable(R), NEW t, t = EventRows(R)
    PROVE  /\ t \in Seq(R) /\ Len(t) = Cardinality(R) /\ Len(t) \in Nat /\ DOMAIN t = 1 .. Len(t)
           /\ \A i \in DOMAIN t : t[i] \in R
           /\ \A r \in R : \E i \in DOMAIN t : t[i] = r
           /\ \A i, j \in DOMAIN t : i < j => Earlier(t[i], t[j]) /\ t[i] # t[j]
<1>1. /\ t \in Seq(R) /\ Len(t) = Cardinality(R) /\ Cardinality(R) \in Nat
      /\ \A r \in R : \E i \in 1 .. Cardinality(R) : t[i] = r
      /\ \A i, j \in 1 .. Cardinality(R) : i < j => Earlier(t[i], t[j])
  BY EventRowsAre
<1>2. DOMAIN t = 1 .. Len(t) /\ \A i \in 1 .. Len(t) : t[i] \in R
  BY <1>1
<1>3. \A i, j \in DOMAIN t : i < j => t[i] # t[j]
  BY <1>1, <1>2, EarlierIsOrder
<1> QED BY <1>1, <1>2, <1>3

\* Each of them is listed.
LEMMA IsListed ==
    ASSUME NEW R, Sortable(R), NEW r \in R
    PROVE  \E i \in DOMAIN EventRows(R) : EventRows(R)[i] = r
BY Listed

\* A limit that the rows do not reach.
LEMMA Unlimited ==
    ASSUME NEW R, Sortable(R), NEW n \in Nat, Cardinality(R) <= n
    PROVE  Limited(EventRows(R), n) = EventRows(R)
<1> DEFINE t == EventRows(R)
<1>1. t \in Seq(R) /\ Len(t) = Cardinality(R) /\ Len(t) \in Nat
  BY Listed
<1>2. SubSeq(t, 1, Len(t)) = t
  <2> HIDE DEF t
  <2> QED BY <1>1, SubSeqFull
<1> HIDE DEF t
<1>3. (IF Len(t) < n THEN Len(t) ELSE n) = Len(t)
  BY SMTT(30), <1>1
<1>4. Limited(t, n) = t
  BY <1>2, <1>3 DEF Limited
<1> QED BY <1>4 DEF t

\* How many rows are of a type when no two are.
LEMMA OfTypeIs ==
    ASSUME NEW R, Sortable(R), NEW t, t = EventRows(R), NEW type,
           \A a, b \in R : a.type = b.type => a = b
    PROVE  /\ Cardinality(OfType(t, type)) \in {0, 1}
           /\ Cardinality(OfType(t, type)) = 1 <=> \E r \in R : r.type = type
           /\ OfType(t, type) = {} <=> ~\E r \in R : r.type = type
           /\ \A i \in OfType(t, type) : i \in DOMAIN t /\ t[i] \in R /\ t[i].type = type
<1> DEFINE O == OfType(t, type)
<1>1. \A i \in O : i \in DOMAIN t /\ i \in Nat /\ t[i] \in R /\ t[i].type = type
  BY Listed DEF OfType
<1>2. \A i, j \in O : i = j
  BY <1>1, Listed
<1>3. (\E r \in R : r.type = type) => O # {}
  BY Listed DEF OfType
<1> HIDE DEF O
<1>4. O = {} \/ \E i : O = {i}
  <2>1. ASSUME NEW i \in O PROVE O = {i}
    BY <1>2
  <2> QED BY <2>1
<1>5. Cardinality(O) \in {0, 1} /\ (Cardinality(O) = 1 <=> O # {})
  BY SMTT(30), <1>4, FS_EmptySet, FS_Singleton
<1> QED BY <1>1, <1>3, <1>5 DEF O

\* Whatever the indexer wrote is fit to be served.
LEMMA ServedEvent ==
    ASSUME LogInv, NEW r \in log
    PROVE  PublicEvent(r)
<1>1. r \in LogRows /\ Fits(r, generation[r.generation])
  BY DEF LogInv, LogFits
<1>2. r.type \in EventTypes
  BY <1>1, LogRowTypes
<1> QED BY <1>1, <1>2 DEF Fits, PublicEvent, EventTypes

\* The events of a generation.
LEMMA GenerationTold ==
    ASSUME ReadInv, NEW i \in TxIds, generation[i] # NoRow, NEW R, R = EventsOfGeneration(i),
           NEW row, row = generation[i]
    PROVE  /\ row \in Rows /\ Sortable(R) /\ IsFiniteSet(R)
           /\ \A r \in R : /\ r \in log /\ PublicEvent(r) /\ Fits(r, row) /\ r.type \in EventTypes
                           /\ r.generation = i /\ r.accepted \in BOOLEAN /\ r.ledger \in Nat
           /\ \A r, s \in R : r.type = s.type => r = s
           /\ \E r \in R : r.type = "created"
           /\ \A r \in R : r.type = "created" => r.tx = i
           /\ \A r, s \in R : r.type = "created" /\ r # s => Earlier(r, s)
           /\ \A r, s \in R : s.type = "deleted" /\ r # s => Earlier(r, s)
           /\ row.accepted <=> (\E r \in R : r.type = "accepted") \/ row.key.issuer = row.key.subject
           /\ row.deleted # 0 <=> \E r \in R : r.type = "deleted"
           /\ \E r \in R : r.ledger = row.last
<1>1. /\ row \in Rows /\ LogInv /\ HistoryInv /\ i \in Nat
  BY DEF ReadInv, IndInv, TypeOK, TxIds
<1>2. R \subseteq log /\ \A r \in R : r.generation = i
  BY DEF EventsOfGeneration
<1>3. Sortable(R) /\ IsFiniteSet(R)
  <2>1. Sortable(R)
    BY <1>1, <1>2, LogSortable, SortableSubset
  <2> QED BY <2>1 DEF Sortable
<1>4. \A r \in R : /\ r \in log /\ r \in LogRows /\ r.type \in EventTypes /\ r.tx \in Nat
                   /\ r.accepted \in BOOLEAN /\ r.ledger \in Nat /\ Fits(r, row) /\ PublicEvent(r)
  BY <1>1, <1>2, LogRowTypes, ServedEvent DEF LogInv, LogFits
<1>5. TellsRow(i, row, EvOf(i))
  BY <1>1 DEF HistoryInv
<1>6. \A r \in R : /\ AsEvent(r) \in EvOf(i) /\ AsEvent(r).type = r.type /\ AsEvent(r).tx = r.tx
                   /\ AsEvent(r).key = r.key
  BY <1>1, <1>2 DEF LogInv, AsEvent, EvOf
<1>7. \A e \in EvOf(i) : \E r \in R : AsEvent(r) = e
  <2>1. ASSUME NEW e \in EvOf(i) PROVE \E r \in R : AsEvent(r) = e
    <3>1. PICK r \in log : AsEvent(r) = e
      BY <1>1 DEF LogInv, EvOf
    <3>2. r \in R
      BY <3>1 DEF AsEvent, EvOf, EventsOfGeneration
    <3> QED BY <3>1, <3>2
  <2> QED BY <2>1
<1>8. ASSUME NEW r \in R, NEW s \in R, r.type = s.type
      PROVE  r = s
  <2>1. r.tx = s.tx
    BY <1>5, <1>6, <1>8 DEF TellsRow
  <2>2. r.key = s.key
    BY <1>4 DEF Fits
  <2> QED BY <1>1, <1>4, <2>1, <2>2 DEF LogInv, LogPlaced
<1>9. \E r \in R : r.type = "created"
  BY <1>5, <1>6, <1>7 DEF TellsRow
<1>10. \A r \in R : IF r.type = "created" THEN r.tx = i ELSE i < r.tx
  BY <1>5, <1>6 DEF TellsRow
<1>11. ASSUME NEW r \in R, NEW s \in R, r.type = "created", r # s
       PROVE  Earlier(r, s)
  <2>1. s.type # "created"
    BY <1>8, <1>11
  <2> QED BY <1>1, <1>4, <1>10, <1>11, <2>1, EarlierIs
<1>12. ASSUME NEW r \in R, NEW s \in R, s.type = "deleted", r # s
       PROVE  Earlier(r, s)
  <2>1. r.type = "created" \/ r.type = "accepted"
    BY <1>4, <1>8, <1>12 DEF EventTypes
  <2>2. r.type = "accepted" => r.tx < s.tx
    BY <1>5, <1>6, <1>12 DEF TellsRow
  <2> QED BY <1>1, <1>4, <1>11, <1>12, <2>1, <2>2, EarlierIs
<1>13. row.accepted <=> (\E r \in R : r.type = "accepted") \/ row.key.issuer = row.key.subject
  <2>1. (\E e \in EvOf(i) : e.type = "accepted") <=> \E r \in R : r.type = "accepted"
    BY <1>6, <1>7
  <2>2. row.accepted <=> (\E e \in EvOf(i) : e.type = "accepted") \/ row.key.issuer = row.key.subject
    BY <1>5 DEF TellsRow
  <2> QED BY <2>1, <2>2, Zenon
<1>14. row.deleted # 0 <=> \E r \in R : r.type = "deleted"
  <2>1. (\E e \in EvOf(i) : e.type = "deleted") <=> \E r \in R : r.type = "deleted"
    BY <1>6, <1>7
  <2>2. row.deleted # 0 <=> \E e \in EvOf(i) : e.type = "deleted"
    BY <1>5 DEF TellsRow
  <2> QED BY <2>1, <2>2, Zenon
<1>15. \E r \in R : r.ledger = row.last
  BY <1>1 DEF LogInv, RowsDated, EventsOfGeneration
<1> QED BY <1>1, <1>2, <1>3, <1>4, <1>8, <1>9, <1>10, <1>11, <1>12, <1>13, <1>14, <1>15

\* A timeline has room for rows of different types.
LEMMA TimelineHolds ==
    ASSUME NEW R, Sortable(R), \A r \in R : r.type \in EventTypes,
           \A a, b \in R : a.type = b.type => a = b
    PROVE  Cardinality(R) <= TimelineLimit /\ Timeline(R) = EventRows(R)
<1> DEFINE f == [r \in R |-> r.type]
<1>1. IsFiniteSet(EventTypes)
  <2>1. EventTypes = {"created"} \cup {"accepted"} \cup {"deleted"}
    BY DEF EventTypes
  <2> QED BY <2>1, FS_Singleton, FS_Union
<1>2. f \in Injection(R, EventTypes)
  BY DEF Injection, IsInjective
<1> HIDE DEF f
<1>3. Cardinality(R) <= Cardinality(EventTypes)
  BY <1>1, <1>2, FS_Injection
<1>4. /\ IsFiniteSet(R) /\ Cardinality(R) \in Nat /\ Cardinality(EventTypes) \in Nat
      /\ TimelineLimit \in Nat /\ TimelineLimit >= Cardinality(EventTypes)
  BY <1>1, FS_CardinalityType, ReadConstants DEF Sortable
<1>5. Cardinality(R) <= TimelineLimit /\ Cardinality(R) <= TimelineLimit + 1
  BY ONLY <1>3, <1>4
<1>6. TimelineLimit + 1 \in Nat
  BY <1>4
<1> QED BY <1>5, <1>6, Unlimited DEF Timeline

\* The page of a generation accepts its timeline.
LEMMA TimelineServed ==
    ASSUME ReadInv, NEW i \in TxIds, generation[i] # NoRow
    PROVE  PublicTimeline(TimelineOf(i), generation[i], i)
<1> DEFINE R == EventsOfGeneration(i)
           row == generation[i]
           t == EventRows(R)
           n == Len(t)
           created == OfType(t, "created")
           accepted == OfType(t, "accepted")
           deleted == OfType(t, "deleted")
<1>1. /\ row \in Rows /\ Sortable(R) /\ IsFiniteSet(R)
      /\ \A r \in R : /\ r \in log /\ PublicEvent(r) /\ Fits(r, row) /\ r.type \in EventTypes
                      /\ r.generation = i /\ r.accepted \in BOOLEAN /\ r.ledger \in Nat
      /\ \A r, s \in R : r.type = s.type => r = s
      /\ \E r \in R : r.type = "created"
      /\ \A r \in R : r.type = "created" => r.tx = i
      /\ \A r, s \in R : r.type = "created" /\ r # s => Earlier(r, s)
      /\ \A r, s \in R : s.type = "deleted" /\ r # s => Earlier(r, s)
      /\ row.accepted <=> (\E r \in R : r.type = "accepted") \/ row.key.issuer = row.key.subject
      /\ row.deleted # 0 <=> \E r \in R : r.type = "deleted"
      /\ \E r \in R : r.ledger = row.last
  BY GenerationTold
<1> HIDE DEF R, row
<1>2. TimelineOf(i) = t /\ Cardinality(R) <= TimelineLimit
  BY <1>1, TimelineHolds DEF TimelineOf, R
<1>3. /\ n = Cardinality(R) /\ n \in Nat /\ DOMAIN t = 1 .. n
      /\ \A j \in 1 .. n : t[j] \in R
      /\ \A r \in R : \E j \in 1 .. n : t[j] = r
      /\ \A j, k \in 1 .. n : j < k => Earlier(t[j], t[k]) /\ t[j] # t[k]
  <2>1. t = EventRows(R)
    OBVIOUS
  <2> HIDE DEF t
  <2>2. /\ Len(t) = Cardinality(R) /\ Len(t) \in Nat /\ DOMAIN t = 1 .. Len(t)
        /\ \A j \in DOMAIN t : t[j] \in R
        /\ \A r \in R : \E j \in DOMAIN t : t[j] = r
        /\ \A j, k \in DOMAIN t : j < k => Earlier(t[j], t[k]) /\ t[j] # t[k]
    <3>1. Sortable(R)
      BY <1>1
    <3> QED BY ONLY <2>1, <3>1, Listed
  <2> QED BY <2>2
<1>4. /\ \A a \in R : ~Earlier(a, a)
      /\ \A a, b, c \in R : Earlier(a, b) /\ Earlier(b, c) => Earlier(a, c)
  BY <1>1, EarlierIsOrder
<1>5. \A type \in EventTypes :
        /\ Cardinality(OfType(t, type)) \in {0, 1}
        /\ Cardinality(OfType(t, type)) = 1 <=> \E r \in R : r.type = type
        /\ OfType(t, type) = {} <=> ~\E r \in R : r.type = type
        /\ \A j \in OfType(t, type) : j \in DOMAIN t /\ t[j] \in R /\ t[j].type = type
  BY <1>1, OfTypeIs
<1> HIDE DEF t, n
<1>6. n \in 1 .. TimelineLimit /\ 1 \in 1 .. n /\ n \in 1 .. n
  <2>1. n >= 1
    BY <1>1, <1>3
  <2> QED BY <1>2, <1>3, <2>1, ReadConstants
<1>7. t[1] \in R /\ t[1].type = "created"
  <2>1. PICK r \in R : r.type = "created"
    BY <1>1
  <2>2. PICK j \in 1 .. n : t[j] = r
    BY <1>3
  <2>3. j = 1 \/ Earlier(t[1], t[j])
    BY <1>3, <1>6, <2>2
  <2>4. t[1] # r => Earlier(r, t[1])
    BY <1>1, <1>3, <1>6, <2>1
  <2> QED BY <1>3, <1>4, <1>6, <2>1, <2>2, <2>3, <2>4
<1>8. t[n] \in R /\ t[n].ledger = row.last
  <2>1. PICK r \in R : r.ledger = row.last
    BY <1>1
  <2>2. PICK j \in 1 .. n : t[j] = r
    BY <1>3
  <2>3. j = n \/ Earlier(t[j], t[n])
    BY <1>3, <1>6, <2>2
  <2>4. t[j].ledger <= t[n].ledger
    <3>1. t[j].ledger \in Nat /\ t[n].ledger \in Nat
      BY <1>1, <1>3, <1>6, <2>2
    <3>2. Earlier(t[j], t[n]) => t[j].ledger <= t[n].ledger
      BY ONLY <3>1 DEF Earlier
    <3> QED BY ONLY <2>3, <3>1, <3>2
  <2>5. t[n] \in R /\ t[n].ledger <= row.last
    BY <1>1, <1>3, <1>6 DEF Fits
  <2>6. row.last \in Nat /\ t[n].ledger \in Nat
    BY <1>1, <2>5 DEF Rows
  <2> QED BY <2>1, <2>2, <2>4, <2>5, <2>6
<1>9. ASSUME NEW r \in R, r.type = "deleted" PROVE t[n] = r
  <2>1. PICK j \in 1 .. n : t[j] = r
    BY <1>3
  <2>2. j = n \/ Earlier(t[j], t[n])
    BY <1>3, <1>6, <2>1
  <2>3. t[n] # r => Earlier(t[n], r)
    BY <1>1, <1>3, <1>6, <1>9
  <2> QED BY <1>3, <1>4, <1>6, <2>1, <2>2, <2>3
<1>10. ASSUME NEW j \in 1 .. n
       PROVE  /\ PublicEvent(t[j]) /\ t[j].key = row.key /\ t[j].generation = i
              /\ t[j].expiration = row.expiration
              /\ j > 1 => Earlier(t[j - 1], t[j])
  <2>1. t[j] \in R /\ Fits(t[j], row) /\ PublicEvent(t[j]) /\ t[j].generation = i
    BY <1>1, <1>3
  <2>2. j > 1 => j - 1 \in 1 .. n /\ j - 1 < j
    BY <1>3
  <2>3. j > 1 => Earlier(t[j - 1], t[j])
    BY <1>3, <2>2
  <2> QED BY <2>1, <2>3 DEF Fits
<1>11. /\ Cardinality(created) = 1 /\ t[1].tx = i /\ t[1].ledger = row.created
       /\ t[1].txIndex = row.createdTx /\ t[1].accepted = (row.key.issuer = row.key.subject)
  <2>1. Fits(t[1], row) /\ t[1].tx = i
    BY <1>1, <1>7
  <2>2. Cardinality(created) = 1
    BY <1>1, <1>5 DEF EventTypes
  <2> QED BY <1>7, <2>1, <2>2 DEF Fits
<1>12. Cardinality(accepted) <= 1 /\ Cardinality(deleted) <= 1
  <2>1. Cardinality(accepted) \in {0, 1} /\ Cardinality(deleted) \in {0, 1}
    BY <1>5 DEF EventTypes
  <2> QED BY <2>1
<1>13. \A j \in deleted : t[j].accepted = row.accepted
  <2>1. \A j \in deleted : t[j] \in R /\ t[j].type = "deleted"
    BY <1>5 DEF EventTypes
  <2> QED BY <1>1, <2>1 DEF Fits
<1>14. row.accepted = (t[1].accepted \/ Cardinality(accepted) = 1)
  <2>1. Cardinality(accepted) = 1 <=> \E r \in R : r.type = "accepted"
    BY <1>5 DEF EventTypes
  <2>2. row.accepted \in BOOLEAN
    BY <1>1 DEF Rows
  <2> HIDE DEF accepted
  <2>3. row.accepted <=> (Cardinality(accepted) = 1) \/ t[1].accepted
    BY <1>1, <1>11, <2>1, Zenon
  <2>4. row.accepted <=> (t[1].accepted \/ Cardinality(accepted) = 1)
    BY <2>3, Zenon
  <2> QED BY <2>2, <2>4
<1>15. IF row.deleted = 0 THEN deleted = {}
       ELSE /\ Cardinality(deleted) = 1 /\ t[n].type = "deleted"
            /\ t[n].ledger = row.deleted /\ t[n].cause = row.cause
  <2>1. /\ Cardinality(deleted) = 1 <=> \E r \in R : r.type = "deleted"
        /\ deleted = {} <=> ~\E r \in R : r.type = "deleted"
    BY <1>5 DEF EventTypes
  <2> HIDE DEF deleted
  <2>2. CASE row.deleted = 0
    BY <1>1, <2>1, <2>2
  <2>3. CASE row.deleted # 0
    <3>1. PICK r \in R : r.type = "deleted"
      BY <1>1, <2>3
    <3>2. t[n] = r /\ Fits(r, row)
      BY <1>1, <1>9, <3>1
    <3> QED BY <2>1, <2>3, <3>1, <3>2 DEF Fits
  <2> QED BY <2>2, <2>3
<1>16. PublicTimeline(t, row, i)
  <2> HIDE DEF created, accepted, deleted
  <2>1. Len(t) \in 1 .. TimelineLimit /\ t[Len(t)] = t[n] /\ DOMAIN t = 1 .. n
    BY <1>3, <1>6 DEF n
  <2> USE DEF created, accepted, deleted
  <2> QED BY <1>7, <1>8, <1>10, <1>11, <1>12, <1>13, <1>14, <1>15, <2>1 DEF PublicTimeline
<1> QED BY <1>2, <1>16 DEF row

\* A list with a limit is the beginning of the rows.
LEMMA LimitedRows ==
    ASSUME NEW R, Sortable(R), NEW n \in Nat, NEW s, s = EventRows(R), NEW t, t = Limited(s, n)
    PROVE  /\ t \in Seq(R) /\ Len(t) \in Nat /\ DOMAIN t = 1 .. Len(t)
           /\ Len(t) = IF Cardinality(R) < n THEN Cardinality(R) ELSE n
           /\ \A i \in DOMAIN t : i \in DOMAIN s /\ t[i] = s[i] /\ t[i] \in R
<1>1. /\ s \in Seq(R) /\ Len(s) = Cardinality(R) /\ Len(s) \in Nat /\ DOMAIN s = 1 .. Len(s)
      /\ \A i \in DOMAIN s : s[i] \in R
  BY Listed
<1> DEFINE m == IF Len(s) < n THEN Len(s) ELSE n
<1>2. t = SubSeq(s, 1, m)
  BY DEF Limited
<1>3. m \in Nat /\ m <= Len(s)
  BY <1>1
<1>4. m = IF Cardinality(R) < n THEN Cardinality(R) ELSE n
  BY <1>1
<1> HIDE DEF m
<1>5. \A i \in 1 .. m : i \in DOMAIN s /\ s[i] \in R
  BY <1>1, <1>3
<1>6. /\ t \in Seq(R) /\ Len(t) = (IF 1 <= m THEN m - 1 + 1 ELSE 0)
      /\ \A i \in 1 .. m - 1 + 1 : t[i] = s[1 + i - 1]
  <2>1. 1 \in Int /\ m \in Int
    BY <1>3
  <2> QED BY <1>2, <1>5, <2>1, SubSeqProperties
<1>7. Len(t) = m /\ m - 1 + 1 = m
  BY <1>3, <1>6
<1>8. \A i \in 1 .. m : t[i] = s[i]
  <2> TAKE i \in 1 .. m
  <2>1. t[i] = s[1 + i - 1] /\ 1 + i - 1 = i
    BY <1>3, <1>6, <1>7
  <2> QED BY <2>1
<1>9. DOMAIN t = 1 .. m
  BY <1>6, <1>7
<1> QED BY <1>3, <1>4, <1>5, <1>6, <1>7, <1>8, <1>9

\* The rows within a limit are the first ones.
LEMMA IsBeginning ==
    ASSUME NEW R, Sortable(R), NEW n \in Nat, NEW i \in DOMAIN Limited(EventRows(R), n)
    PROVE  Limited(EventRows(R), n)[i] = EventRows(R)[i]
BY LimitedRows

\* assertCredentialGenerationEvidence accepts what the indexer wrote.
LEMMA GenerationServed ==
    ASSUME ReadInv, NEW i \in TxIds, generation[i] # NoRow
    PROVE  AssertGeneration(generation[i])
<1> DEFINE row == generation[i]
<1>1. row \in Rows /\ ledgerIndex \in Nat
  BY DEF ReadInv, IndInv, TypeOK
<1>2. /\ row.created <= row.last /\ row.last <= ledgerIndex
      /\ IF row.deleted = 0 THEN row.cause = "none"
         ELSE row.deleted = row.last /\ row.cause \in Causes
  BY DEF ReadInv, LogInv, RowsDated
<1> HIDE DEF row
<1>3. row.created \in Nat /\ row.last \in Nat
  BY <1>1 DEF Rows
<1>4. AssertGeneration(row)
  BY <1>1, <1>2, <1>3 DEF AssertGeneration
<1> QED BY <1>4 DEF row

\* A generation is shown as its row says.
LEMMA PageOfGeneration ==
    ASSUME ReadInv, NEW i \in TxIds, generation[i] # NoRow
    PROVE  GenerationPage(generation[i], TimelineOf(i), i) = CredentialLifecycle(generation[i])
BY GenerationServed, TimelineServed DEF GenerationPage

\* A row shows one of four states, and that of a deletion if it has one.
LEMMA LifecycleIs ==
    ASSUME NEW r
    PROVE  /\ CredentialLifecycle(r) \in {"deleted", "expired", "active", "pending"}
           /\ CredentialLifecycle(r) = "deleted" <=> r.deleted # 0
BY DEF CredentialLifecycle

\* A credential with a row is shown as the newest one says.
LEMMA PageOfCredential ==
    ASSUME ReadInv, NEW k \in Keys, RowsOf(k) # {}
    PROVE  \E i \in RowsOf(k) :
              /\ \A j \in RowsOf(k) : j <= i
              /\ CredentialPage(k) = CredentialLifecycle(generation[i])
<1>1. PICK i \in RowsOf(k) : \A j \in RowsOf(k) : j <= i
  BY LastExists DEF RowsOf
<1>2. GetCredential(k) = i
  BY <1>1, GetCredentialIs DEF ReadInv
<1>3. AssertGeneration(generation[i])
  BY GenerationServed DEF RowsOf
<1> QED BY <1>1, <1>2, <1>3 DEF CredentialPage

\* Every event is of a credential that has a row.
LEMMA KeyHasRow ==
    ASSUME LogInv, NEW r \in log
    PROVE  r.key \in Keys /\ r.generation \in RowsOf(r.key)
<1>1. r.key \in Keys /\ r.generation \in TxIds /\ Fits(r, generation[r.generation])
  BY LogRowTypes DEF LogInv, LogFits
<1> QED BY <1>1 DEF Fits, RowsOf, Rows, NoRow

\* The statistics count each generation once, in the state it shows.
LEMMA StatsAreServed ==
    ASSUME ReadInv
    PROVE  StatsServed
<1> DEFINE In(b) == {i \in Generations : Bucket(generation[i]) = b}
<1>1. IsFiniteSet(Generations)
  <2>1. 1 \in Int /\ MaxTxs \in Int
    OBVIOUS
  <2>2. IsFiniteSet(1 .. MaxTxs)
    BY <2>1, FS_Interval
  <2>3. Generations \in SUBSET (1 .. MaxTxs)
    BY DEF Generations, TxIds
  <2> QED BY <2>2, <2>3, FS_Subset
<1>2. ASSUME NEW b
      PROVE  IsFiniteSet(In(b)) /\ Cardinality(In(b)) \in Nat /\ Count(b) = Cardinality(In(b))
  <2>1. In(b) \in SUBSET Generations /\ Count(b) = Cardinality(In(b))
    BY DEF Count
  <2> HIDE DEF In
  <2> QED BY <1>1, <2>1, FS_Subset, FS_CardinalityType
<1>3. \A r : Bucket(r) \in {"pending", "active", "expired", "deleted"}
  BY DEF Bucket
<1> DEFINE A == In("pending") \cup In("active")
           B == A \cup In("expired")
<1>4. /\ Generations = B \cup In("deleted")
      /\ In("pending") \cap In("active") = {} /\ A \cap In("expired") = {}
      /\ B \cap In("deleted") = {}
  BY <1>3
<1> HIDE DEF In
<1>5. /\ Cardinality(In("pending") \cap In("active")) = 0 /\ Cardinality(A \cap In("expired")) = 0
      /\ Cardinality(B \cap In("deleted")) = 0
  BY <1>4, FS_EmptySet
<1>11. \A b \in {"pending", "active", "expired", "deleted"} :
         IsFiniteSet(In(b)) /\ Cardinality(In(b)) \in Nat /\ Count(b) = Cardinality(In(b))
  BY <1>2
<1>6. IsFiniteSet(A) /\ Cardinality(A) = Count("pending") + Count("active")
  <2>1. /\ IsFiniteSet(A)
        /\ Cardinality(A) = Cardinality(In("pending")) + Cardinality(In("active"))
                               - Cardinality(In("pending") \cap In("active"))
    BY <1>11, FS_Union
  <2> HIDE DEF A
  <2> QED BY <1>5, <1>11, <2>1
<1> HIDE DEF A
<1>7. IsFiniteSet(B) /\ Cardinality(B) = Cardinality(A) + Count("expired")
  <2>1. /\ IsFiniteSet(B)
        /\ Cardinality(B) = Cardinality(A) + Cardinality(In("expired"))
                               - Cardinality(A \cap In("expired"))
    BY <1>6, <1>11, FS_Union
  <2>2. Cardinality(A) \in Nat
    BY <1>6, FS_CardinalityType
  <2> HIDE DEF B
  <2> QED BY <1>5, <1>11, <2>1, <2>2
<1> HIDE DEF B
<1>8. Cardinality(Generations) = Cardinality(B) + Count("deleted")
  <2>1. Cardinality(B \cup In("deleted")) = Cardinality(B) + Cardinality(In("deleted"))
                                               - Cardinality(B \cap In("deleted"))
    BY <1>7, <1>11, FS_Union
  <2>2. Cardinality(B) \in Nat
    BY <1>7, FS_CardinalityType
  <2> QED BY <1>4, <1>5, <1>11, <2>1, <2>2
<1>9. Count("pending") + Count("active") + Count("expired") + Count("deleted")
        = Cardinality(Generations)
  BY <1>6, <1>7, <1>8, <1>11
<1>10. ASSUME NEW i \in Generations
       PROVE  /\ generation[i].last >= generation[i].created
              /\ generation[i].deleted # 0 => generation[i].deleted = generation[i].last
  <2>1. i \in TxIds /\ generation[i] # NoRow
    BY DEF Generations
  <2>2. generation[i] \in Rows
    BY <2>1 DEF ReadInv, IndInv, TypeOK
  <2>3. /\ generation[i].created <= generation[i].last
        /\ generation[i].deleted # 0 => generation[i].deleted = generation[i].last
    BY <2>1 DEF ReadInv, LogInv, RowsDated
  <2>4. generation[i].created \in Nat /\ generation[i].last \in Nat
    BY <2>2 DEF Rows
  <2> QED BY <2>3, <2>4
<1> QED BY <1>9, <1>10 DEF StatsServed

\* No check refuses what the indexer wrote.
LEMMA EverythingServed ==
    ASSUME ReadInv
    PROVE  ReadsServed
<1>1. LogInv /\ Sortable(log)
  BY LogSortable DEF ReadInv
<1>2. \A i \in Generations :
        GenerationPage(generation[i], TimelineOf(i), i) # "INDEXER_EVIDENCE_INVALID"
  BY PageOfGeneration, LifecycleIs DEF Generations
<1>3. ASSUME NEW r \in log
      PROVE  /\ CredentialPage(r.key) # "INDEXER_EVIDENCE_INVALID"
             /\ Len(HistoryOf(r.key)) <= HistoryLimit => HistoryServed(r.key)
  <2>1. CredentialPage(r.key) # "INDEXER_EVIDENCE_INVALID"
    BY <1>1, KeyHasRow, PageOfCredential, LifecycleIs
  <2> DEFINE S == {s \in log : s.key = r.key}
             h == HistoryOf(r.key)
  <2>2. Sortable(S) /\ S \subseteq log
    BY <1>1, SortableSubset
  <2>3. HistoryLimit + 1 \in Nat
    BY ReadConstants
  <2>4. h = Limited(EventRows(S), HistoryLimit + 1)
    BY DEF HistoryOf
  <2> HIDE DEF S, h
  <2>5. \A i \in DOMAIN h : h[i] \in S
    <3> DEFINE s == EventRows(S)
               m == HistoryLimit + 1
    <3>1. m \in Nat /\ s = EventRows(S) /\ h = Limited(s, m)
      BY <2>3, <2>4
    <3> HIDE DEF s, m
    <3> QED BY <2>2, <3>1, LimitedRows
  <2>6. \A i \in DOMAIN h : PublicEvent(h[i])
    BY <1>1, <2>2, <2>5, ServedEvent
  <2> QED BY <2>1, <2>6 DEF HistoryServed, h
<1>4. ASSUME NEW k, NEW tx
      PROVE  ExactEvent(k, tx) \notin {"CREDENTIAL_EVENT_AMBIGUOUS", "INDEXER_EVIDENCE_INVALID"}
  <2> DEFINE S == {s \in log : s.tx = tx /\ s.key = k}
             rows == Limited(EventRows(S), 2)
  <2>1. Sortable(S) /\ S \subseteq log
    BY <1>1, SortableSubset
  <2>2. \A r, s \in S : r = s
    BY <1>1 DEF LogInv, LogPlaced
  <2>3. ExactEvent(k, tx) = IF Len(rows) > 1 THEN "CREDENTIAL_EVENT_AMBIGUOUS"
                            ELSE IF rows = <<>> THEN "null"
                            ELSE IF PublicEvent(rows[1]) THEN rows[1].type
                            ELSE "INDEXER_EVIDENCE_INVALID"
    BY DEF ExactEvent
  <2> HIDE DEF S
  <2>4. Cardinality(S) \in {0, 1}
    <3>1. ASSUME NEW s \in S PROVE S = {s}
      BY <2>2
    <3>2. S = {} \/ \E s : S = {s}
      BY <3>1
    <3> QED BY <3>2, FS_EmptySet, FS_Singleton
  <2>5. /\ rows \in Seq(S) /\ DOMAIN rows = 1 .. Len(rows)
        /\ Len(rows) = IF Cardinality(S) < 2 THEN Cardinality(S) ELSE 2
        /\ \A i \in DOMAIN rows : rows[i] \in S
    <3> DEFINE s == EventRows(S)
               m == 2
    <3>1. m \in Nat /\ s = EventRows(S) /\ rows = Limited(s, m)
      OBVIOUS
    <3> HIDE DEF s, m, rows
    <3>2. rows \in Seq(S)
      BY <2>1, <3>1, LimitedRows
    <3>3. DOMAIN rows = 1 .. Len(rows)
      BY <2>1, <3>1, LimitedRows
    <3>4. Len(rows) = IF Cardinality(S) < m THEN Cardinality(S) ELSE m
      BY <2>1, <3>1, LimitedRows
    <3>5. \A i \in DOMAIN rows : rows[i] \in S
      BY <2>1, <3>1, LimitedRows
    <3> QED BY <3>2, <3>3, <3>4, <3>5 DEF m
  <2> HIDE DEF rows
  <2>6. Len(rows) = 0 \/ Len(rows) = 1
    BY <2>4, <2>5
  <2>7. CASE Len(rows) = 0
    <3>1. rows = <<>>
      BY <2>5, <2>7, EmptySeq
    <3> QED BY <2>3, <2>7, <3>1
  <2>8. CASE Len(rows) = 1
    <3>1. rows # <<>> /\ rows[1] \in S
      BY <2>5, <2>8
    <3>2. PublicEvent(rows[1]) /\ rows[1].type \in EventTypes
      BY <1>1, <2>1, <3>1, ServedEvent, LogRowTypes DEF LogInv
    <3> QED BY <2>3, <2>8, <3>1, <3>2 DEF EventTypes
  <2> QED BY <2>6, <2>7, <2>8
<1>5. ASSUME NEW tx PROVE TransactionServed(tx)
  <2> DEFINE S == {s \in log : s.tx = tx}
             rows == EventRows(S)
  <2>1. Sortable(S) /\ S \subseteq log /\ \A s \in S : s.tx = tx
    BY <1>1, SortableSubset
  <2>2. rows = TransactionEvents(tx)
    BY DEF TransactionEvents
  <2> HIDE DEF S
  <2>3. /\ \A i \in DOMAIN rows : rows[i] \in S
        /\ DOMAIN rows = 1 .. Len(rows) /\ Len(rows) \in Nat
    <3>1. rows = EventRows(S)
      OBVIOUS
    <3> HIDE DEF rows
    <3> QED BY <2>1, <3>1, Listed
  <2> HIDE DEF rows
  <2>4. ASSUME NEW i \in DOMAIN rows
        PROVE  PublicEvent(rows[i]) /\ SameTransaction(rows[i], rows[1])
    <3>1. rows[i] \in S /\ rows[1] \in S
      BY <2>3
    <3>2. PublicEvent(rows[i])
      BY <1>1, <2>1, <3>1, ServedEvent
    <3>3. SameTransaction(rows[i], rows[1])
      BY <1>1, <2>1, <3>1 DEF LogInv, LogPlaced, SameTransaction
    <3> QED BY <3>2, <3>3
  <2> QED BY <2>2, <2>4 DEF TransactionServed
<1>6. StatsServed
  BY StatsAreServed
<1>7. \A k \in {r.key : r \in log} :
        /\ CredentialPage(k) # "INDEXER_EVIDENCE_INVALID"
        /\ Len(HistoryOf(k)) <= HistoryLimit => HistoryServed(k)
  BY <1>3
<1> QED BY <1>2, <1>4, <1>5, <1>6, <1>7 DEF ReadsServed

\* The last event of a credential is one of its newest generation.
LEMMA LastOfNewest ==
    ASSUME ReadInv, NEW k, NEW S, S = {s \in log : s.key = k}, NEW last \in S,
           \A s \in S : s = last \/ Earlier(s, last),
           NEW i \in RowsOf(k), \A j \in RowsOf(k) : j <= i
    PROVE  last.generation = i
<1>1. LogInv /\ i \in TxIds /\ generation[i] # NoRow /\ generation[i].key = k /\ i \in Nat
  BY DEF ReadInv, RowsOf, TxIds
<1>2. last \in log /\ last.key = k /\ last.generation \in Nat /\ last.tx \in Nat
  BY <1>1, LogRowTypes DEF LogInv
<1>3. last.generation <= i
  BY <1>1, <1>2, KeyHasRow
<1>4. last.generation < i => last.tx < i
  BY <1>1, <1>2 DEF LogInv, Succession
<1>5. PICK c \in EventsOfGeneration(i) : c.type = "created"
  BY <1>1, GenerationTold
<1>6. c \in log /\ c.tx = i /\ c.key = k
  <2>1. c \in log /\ Fits(c, generation[i]) /\ c.tx = i
    BY <1>1, <1>5, GenerationTold
  <2> QED BY <1>1, <2>1 DEF Fits
<1>7. c.tx <= last.tx
  BY <1>1, <1>2, <1>6, EarlierIs
<1> QED BY <1>1, <1>2, <1>3, <1>4, <1>6, <1>7

\* The endpoints agree with each other.
LEMMA EndpointsDoAgree ==
    ASSUME ReadInv
    PROVE  EndpointsAgree
<1>1. LogInv /\ Sortable(log) /\ closeTime \in Nat
  BY LogSortable DEF ReadInv, IndInv, TypeOK
<1>2. ASSUME NEW r \in log, HistoryServed(r.key), NEW h, h = HistoryOf(r.key)
      PROVE  (CredentialPage(r.key) = "deleted") <=> (h[Len(h)].type = "deleted")
  <2> DEFINE k == r.key
             S == {s \in log : s.key = k}
             all == EventRows(S)
             m == HistoryLimit + 1
  <2>1. Sortable(S) /\ S \subseteq log /\ r \in S
    BY <1>1, SortableSubset
  <2>2. m \in Nat /\ h = Limited(all, m) /\ Len(h) <= HistoryLimit /\ HistoryLimit < m
    BY <1>2, ReadConstants DEF HistoryOf, HistoryServed
  <2>3. S = {s \in log : s.key = k}
    OBVIOUS
  <2>26. all = EventRows(S) /\ h = Limited(all, m)
    BY <2>2
  <2> HIDE DEF S, all, m
  <2>4. Len(h) = IF Cardinality(S) < m THEN Cardinality(S) ELSE m
    BY <2>1, <2>2, <2>26, LimitedRows
  <2>5. h = all
    <3>1. Cardinality(S) \in Nat
      BY <2>1, FS_CardinalityType DEF Sortable
    <3>2. Cardinality(S) <= m
      BY <2>2, <2>4, <3>1, ReadConstants
    <3> QED BY <2>1, <2>2, <2>26, <3>2, Unlimited
  <2>7. Len(all) = Cardinality(S) /\ Len(all) \in Nat /\ DOMAIN all = 1 .. Len(all)
    BY <2>1, <2>26, Listed
  <2>8. \A s \in S : \E j \in DOMAIN all : all[j] = s
    BY <2>1, <2>26, Listed
  <2>9. \A j, l \in DOMAIN all : j < l => Earlier(all[j], all[l])
    BY <2>1, <2>26, Listed
  <2>10. \A j \in DOMAIN all : all[j] \in S
    BY <2>1, <2>26, Listed
  <2> DEFINE n == Len(all)
             last == all[n]
  <2>11. Len(h) = n /\ n \in 1 .. n
    <3>1. Len(h) = n
      BY <2>5
    <3>2. n >= 1
      BY <2>1, <2>7, <2>8
    <3> QED BY <2>7, <3>1, <3>2
  <2>12. h[Len(h)] = last /\ last \in S
    BY <2>5, <2>7, <2>10, <2>11
  <2>13. \A s \in S : s = last \/ Earlier(s, last)
    <3> TAKE s \in S
    <3>1. PICK j \in DOMAIN all : all[j] = s
      BY <2>8
    <3>2. j = n \/ j < n
      BY <2>7, <3>1
    <3> QED BY <2>7, <2>9, <2>11, <3>1, <3>2
  <2> HIDE DEF n, last
  <2>14. k \in Keys /\ RowsOf(k) # {}
    BY <1>1, KeyHasRow
  <2> HIDE DEF k
  <2>15. PICK i \in RowsOf(k) : /\ \A j \in RowsOf(k) : j <= i
                                /\ CredentialPage(k) = CredentialLifecycle(generation[i])
    BY <2>14, PageOfCredential
  <2>16. last.generation = i
    BY <2>3, <2>12, <2>13, <2>15, LastOfNewest
  <2> DEFINE R == EventsOfGeneration(i)
             row == generation[i]
  <2>17. i \in TxIds /\ row # NoRow /\ row.key = k
    BY DEF RowsOf
  <2>18. last \in R
    BY <2>1, <2>12, <2>16 DEF EventsOfGeneration
  <2>19. row.deleted # 0 <=> \E d \in R : d.type = "deleted"
    BY <2>17, GenerationTold
  <2>20. \A d \in R : Fits(d, row) /\ d \in log
    BY <2>17, GenerationTold
  <2>21. \A a, d \in R : d.type = "deleted" /\ a # d => Earlier(a, d)
    BY <2>17, GenerationTold
  <2>22. ASSUME NEW d \in R, d.type = "deleted" PROVE d = last
    <3>1. d \in S
      BY <2>3, <2>17, <2>20 DEF Fits
    <3>2. d = last \/ (Earlier(d, last) /\ Earlier(last, d))
      BY <2>13, <2>18, <2>21, <2>22, <3>1
    <3>3. ~(Earlier(d, last) /\ Earlier(last, d))
      BY <2>1, <2>12, <3>1, EarlierIsOrder
    <3> QED BY <3>2, <3>3
  <2>23. CredentialPage(k) = "deleted" <=> row.deleted # 0
    BY <2>15, LifecycleIs
  <2>24. row.deleted # 0 <=> last.type = "deleted"
    BY <2>18, <2>19, <2>22
  <2> QED BY <2>12, <2>23, <2>24 DEF k
<1>3. ASSUME NEW i \in Generations
      PROVE  Bucket(generation[i]) = GenerationPage(generation[i], TimelineOf(i), i)
  <2> DEFINE row == generation[i]
  <2>1. i \in TxIds /\ row # NoRow
    BY DEF Generations
  <2>2. row \in Rows
    BY <2>1 DEF ReadInv, IndInv, TypeOK
  <2>4. GenerationPage(row, TimelineOf(i), i) = CredentialLifecycle(row)
    BY <2>1, PageOfGeneration
  <2> HIDE DEF row
  <2>3. row.expiration = NoExpiration \/ row.expiration \in Nat
    <3>1. row.expiration \in Expirations \cup {NoExpiration}
      BY <2>2 DEF Rows
    <3>2. \A x \in Expirations : x \in Nat
      BY ProjectionConstants
    <3> QED BY ONLY <3>1, <3>2
  <2>5. Bucket(row) = CredentialLifecycle(row)
    <3>1. CASE row.deleted # 0
      BY <3>1 DEF Bucket, CredentialLifecycle
    <3>2. CASE row.deleted = 0 /\ Reached(row.expiration)
      BY <1>1, <2>3, <3>2 DEF Bucket, CredentialLifecycle, Reached
    <3>3. CASE row.deleted = 0 /\ ~Reached(row.expiration)
      BY <1>1, <2>3, <3>3 DEF Bucket, CredentialLifecycle, Reached
    <3> QED BY <3>1, <3>2, <3>3
  <2> QED BY <2>4, <2>5 DEF row
<1>4. \A k \in {r.key : r \in log} : HistoryServed(k) =>
        LET history == HistoryOf(k)
        IN (CredentialPage(k) = "deleted") <=> (history[Len(history)].type = "deleted")
  BY <1>2
<1> QED BY <1>3, <1>4 DEF EndpointsAgree

\* One timeline is accepted for one row only.
LEMMA RowDetermined ==
    ASSUME NEW R, NEW t \in Seq(R), NEW g, NEW a \in Rows, NEW b \in Rows,
           AssertGeneration(a), AssertGeneration(b), PublicTimeline(t, a, g), PublicTimeline(t, b, g)
    PROVE  a = b
<1>1. Len(t) \in 1 .. TimelineLimit /\ DOMAIN t = 1 .. Len(t)
  BY DEF PublicTimeline
<1>2. 1 \in DOMAIN t
  BY <1>1, ReadConstants
<1>3. /\ a.key = t[1].key /\ a.expiration = t[1].expiration /\ a.created = t[1].ledger
      /\ a.createdTx = t[1].txIndex /\ a.last = t[Len(t)].ledger
      /\ b.key = t[1].key /\ b.expiration = t[1].expiration /\ b.created = t[1].ledger
      /\ b.createdTx = t[1].txIndex /\ b.last = t[Len(t)].ledger
  BY <1>2 DEF PublicTimeline
<1>4. a.accepted = b.accepted
  BY DEF PublicTimeline
<1>5. Cardinality({}) # 1
  BY FS_EmptySet
<1>6. a.deleted = b.deleted /\ a.cause = b.cause
  <2> DEFINE D == OfType(t, "deleted")
             last == t[Len(t)]
  <2>1. /\ IF a.deleted = 0 THEN D = {}
           ELSE Cardinality(D) = 1 /\ last.ledger = a.deleted /\ last.cause = a.cause
        /\ IF b.deleted = 0 THEN D = {}
           ELSE Cardinality(D) = 1 /\ last.ledger = b.deleted /\ last.cause = b.cause
    BY DEF PublicTimeline
  <2>2. (a.deleted = 0 => a.cause = "none") /\ (b.deleted = 0 => b.cause = "none")
    <3>1. a.created # 0 /\ a.created \in Nat /\ b.created # 0 /\ b.created \in Nat
      BY SMTT(30) DEF Rows
    <3>2. /\ a.deleted # 0 \/ a.cause = "none" \/ a.created <= 0
          /\ b.deleted # 0 \/ b.cause = "none" \/ b.created <= 0
      BY DEF AssertGeneration
    <3> QED BY <3>1, <3>2
  <2> HIDE DEF D, last
  <2> QED BY <1>5, <2>1, <2>2
<1>7. \A x \in Rows : x = [key |-> x.key, accepted |-> x.accepted, expiration |-> x.expiration,
                           created |-> x.created, createdTx |-> x.createdTx, last |-> x.last,
                           deleted |-> x.deleted, cause |-> x.cause]
  BY DEF Rows
<1>8. /\ a = [key |-> a.key, accepted |-> a.accepted, expiration |-> a.expiration,
              created |-> a.created, createdTx |-> a.createdTx, last |-> a.last,
              deleted |-> a.deleted, cause |-> a.cause]
      /\ b = [key |-> b.key, accepted |-> b.accepted, expiration |-> b.expiration,
              created |-> b.created, createdTx |-> b.createdTx, last |-> b.last,
              deleted |-> b.deleted, cause |-> b.cause]
  BY <1>7
<1> QED BY ONLY <1>3, <1>4, <1>6, <1>8

\* Any other row is refused, however many faults it has.
LEMMA OtherRowRefused ==
    ASSUME ReadInv, NEW i \in TxIds, generation[i] # NoRow, NEW f \in Rows, f # generation[i]
    PROVE  GenerationPage(f, TimelineOf(i), i) = "INDEXER_EVIDENCE_INVALID"
<1> DEFINE R == EventsOfGeneration(i)
           row == generation[i]
           t == TimelineOf(i)
<1>1. row \in Rows /\ AssertGeneration(row) /\ PublicTimeline(t, row, i)
  BY GenerationServed, TimelineServed DEF ReadInv, IndInv, TypeOK
<1>2. t \in Seq(R)
  <2>1. /\ Sortable(R) /\ \A r \in R : r.type \in EventTypes
        /\ \A r, s \in R : r.type = s.type => r = s
    BY GenerationTold
  <2>2. t = EventRows(R)
    <3> HIDE DEF R
    <3>1. Timeline(R) = EventRows(R)
      BY <2>1, TimelineHolds
    <3> QED BY <3>1 DEF TimelineOf, R
  <2> HIDE DEF R, t
  <2> QED BY <2>1, <2>2, Listed
<1>3. f # NoRow
  BY DEF Rows, NoRow
<1> HIDE DEF R, t, row
<1>4. ~(AssertGeneration(f) /\ PublicTimeline(t, f, i))
  <2>1. f # row
    BY DEF row
  <2> QED BY <1>1, <1>2, <2>1, RowDetermined
<1>5. GenerationPage(f, t, i) = "INDEXER_EVIDENCE_INVALID"
  BY <1>3, <1>4 DEF GenerationPage
<1> QED BY <1>5 DEF t

\* A faulty row is a row.
LEMMA FaultsAreRows ==
    ASSUME NEW row \in Rows, NEW f \in FaultyRows(row)
    PROVE  f \in Rows
<1>1. "none" \in Causes \cup {"none"} /\ 0 \in 0 .. MaxLedger /\ row.accepted \in BOOLEAN
  BY DEF Rows
<1>2. CASE f = [row EXCEPT !.accepted = ~@]
  BY <1>1, <1>2 DEF Rows
<1>3. CASE f = [row EXCEPT !.deleted = 0, !.cause = "none"]
  BY <1>1, <1>3 DEF Rows
<1>4. CASE \E k \in Keys : f = [row EXCEPT !.key = k]
  BY <1>4 DEF Rows
<1>5. CASE \E e \in Expirations \cup {NoExpiration} : f = [row EXCEPT !.expiration = e]
  BY <1>5 DEF Rows
<1>6. CASE \E n \in 1 .. MaxLedger : f = [row EXCEPT !.created = n]
  BY <1>6 DEF Rows
<1>7. CASE \E n \in 0 .. MaxTxs : f = [row EXCEPT !.createdTx = n]
  BY <1>7 DEF Rows
<1>8. CASE \E n \in 1 .. MaxLedger : f = [row EXCEPT !.last = n]
  BY <1>8 DEF Rows
<1>9. CASE \E n \in 0 .. MaxLedger : f = [row EXCEPT !.deleted = n]
  BY <1>9 DEF Rows
<1>10. CASE \E c \in Causes \cup {"none"} : f = [row EXCEPT !.cause = c]
  BY <1>10 DEF Rows
<1> QED BY <1>2, <1>3, <1>4, <1>5, <1>6, <1>7, <1>8, <1>9, <1>10 DEF FaultyRows

\* A generation of which an event is lost is refused.
LEMMA LossRefused ==
    ASSUME ReadInv, NEW i \in TxIds, generation[i] # NoRow, NEW r \in EventsOfGeneration(i)
    PROVE  ~PublicTimeline(Timeline(EventsOfGeneration(i) \ {r}), generation[i], i)
<1> DEFINE R == EventsOfGeneration(i)
           W == R \ {r}
           row == generation[i]
           t == EventRows(W)
<1>1. /\ Sortable(R)
      /\ \A s \in R : Fits(s, row) /\ s.type \in EventTypes
      /\ \A s, q \in R : s.type = q.type => s = q
      /\ row.accepted <=> (\E s \in R : s.type = "accepted") \/ row.key.issuer = row.key.subject
      /\ row.deleted # 0 <=> \E s \in R : s.type = "deleted"
  BY GenerationTold
<1>2. r \in R /\ W \subseteq R /\ r \notin W
  OBVIOUS
<1> HIDE DEF R, W, row
<1>3. Sortable(W)
  BY <1>1, <1>2, SortableSubset
<1>4. \A type : ~(r.type = type /\ \E s \in W : s.type = type)
  BY <1>1, <1>2
<1>5. Timeline(W) = t
  BY <1>1, <1>2, <1>3, TimelineHolds
<1>6. \A type : Cardinality(OfType(t, type)) = 1 => \E s \in W : s.type = type
  BY <1>1, <1>2, <1>3, OfTypeIs
<1>7. \A j \in 1 .. Len(t) : t[j] \in W
  BY <1>3, Listed
<1> HIDE DEF t
<1>8. SUFFICES ASSUME PublicTimeline(t, row, i) PROVE FALSE
  BY <1>5 DEF R, W, row
<1>9. /\ Cardinality(OfType(t, "created")) = 1 /\ t[1].type = "created"
      /\ row.accepted = (t[1].accepted \/ Cardinality(OfType(t, "accepted")) = 1)
      /\ row.deleted # 0 => Cardinality(OfType(t, "deleted")) = 1
      /\ Len(t) \in 1 .. TimelineLimit
  BY <1>8 DEF PublicTimeline
<1>10. r.type = "created" \/ r.type = "accepted" \/ r.type = "deleted"
  BY <1>1, <1>2 DEF EventTypes
<1>11. CASE r.type = "created"
  BY <1>4, <1>6, <1>9, <1>11
<1>12. CASE r.type = "accepted"
  <2>1. Cardinality(OfType(t, "accepted")) # 1
    BY <1>4, <1>6, <1>12
  <2>2. t[1] \in W
    <3>1. 1 \in 1 .. Len(t)
      BY <1>9, ReadConstants
    <3> QED BY <1>7, <3>1
  <2>3. Fits(t[1], row) /\ Fits(r, row)
    BY <1>1, <1>2, <2>2
  <2>4. t[1].accepted = (row.key.issuer = row.key.subject)
    BY <1>9, <2>3 DEF Fits
  <2>5. row.key.issuer # row.key.subject /\ row.accepted
    BY <1>12, <2>3 DEF Fits
  <2> QED BY <1>9, <2>1, <2>4, <2>5
<1>13. CASE r.type = "deleted"
  <2>1. row.deleted # 0
    BY <1>1, <1>2, <1>13
  <2> QED BY <1>4, <1>6, <1>9, <1>13, <2>1
<1> QED BY <1>10, <1>11, <1>12, <1>13

\* A row with its flag or expiration replaced keeps its place.
LEMMA ReplacedSortable ==
    ASSUME NEW R, Sortable(R), NEW r \in R, NEW q, NEW W, W = (R \ {r}) \cup {q},
           q.ledger = r.ledger, q.txIndex = r.txIndex, q.node = r.node
    PROVE  Sortable(W)
<1> DEFINE S == R \ {r}
<1>1. IsFiniteSet(S)
  BY FS_Subset DEF Sortable
<1>2. IsFiniteSet(S \cup {q})
  <2> HIDE DEF S
  <2> QED BY <1>1, FS_AddElement
<1>3. \A a \in W : a.ledger \in Int /\ a.txIndex \in Int /\ a.node \in Int
  BY DEF Sortable
<1>4. \A a \in S : /\ Earlier(a, q) <=> Earlier(a, r)
                   /\ Earlier(q, a) <=> Earlier(r, a)
  BY DEF Earlier
<1>5. \A a, b \in W : a # b => Earlier(a, b) \/ Earlier(b, a)
  BY <1>4 DEF Sortable
<1> QED BY <1>2, <1>3, <1>5 DEF Sortable

\* A generation of which an event has another flag or another expiration is refused.
LEMMA ChangeRefused ==
    ASSUME ReadInv, NEW i \in TxIds, generation[i] # NoRow, NEW r \in EventsOfGeneration(i),
           NEW q, q.ledger = r.ledger, q.txIndex = r.txIndex, q.node = r.node, q.type = r.type,
           q.key = r.key, q.generation = r.generation, q.tx = r.tx,
           q.accepted = ~r.accepted \/ q.expiration # r.expiration,
           NEW W, W = (EventsOfGeneration(i) \ {r}) \cup {q}
    PROVE  ~PublicTimeline(Timeline(W), generation[i], i)
<1> DEFINE R == EventsOfGeneration(i)
           row == generation[i]
           t == EventRows(W)
<1>1. /\ Sortable(R) /\ r \in R /\ W = (R \ {r}) \cup {q}
      /\ \A s \in R : Fits(s, row) /\ s.type \in EventTypes /\ s.accepted \in BOOLEAN
      /\ \A s, u \in R : s.type = u.type => s = u
  BY GenerationTold
<1> HIDE DEF R, row
<1>2. Sortable(W)
  BY <1>1, ReplacedSortable
<1>3. /\ \A s \in W : s.type \in EventTypes
      /\ \A s, u \in W : s.type = u.type => s = u
  BY <1>1
<1>4. Timeline(W) = t
  BY <1>2, <1>3, TimelineHolds
<1>5. \E j \in DOMAIN t : t[j] = q
  <2>1. q \in W
    BY <1>1
  <2> QED BY <1>2, <2>1, IsListed
<1> HIDE DEF t
<1>6. SUFFICES ASSUME PublicTimeline(t, row, i) PROVE FALSE
  BY <1>4 DEF row
<1>7. PICK j \in DOMAIN t : t[j] = q
  BY <1>5
<1>8. PublicEvent(q) /\ q.expiration = row.expiration
  BY <1>6, <1>7 DEF PublicTimeline
<1>9. q.type = "deleted" => q.accepted = row.accepted
  BY <1>6, <1>7 DEF PublicTimeline, OfType
<1>10. Fits(r, row) /\ r.type \in EventTypes /\ r.accepted \in BOOLEAN
  BY <1>1
<1>11. q.expiration = r.expiration
  BY <1>8, <1>10 DEF Fits
<1>12. q.accepted = r.accepted
  <2>1. CASE r.type = "created"
    BY <1>8, <1>10, <2>1 DEF Fits, PublicEvent
  <2>2. CASE r.type = "accepted"
    BY <1>8, <1>10, <1>11, <2>2 DEF Fits, PublicEvent
  <2>3. CASE r.type = "deleted"
    BY <1>9, <1>10, <2>3 DEF Fits
  <2> QED BY <1>10, <2>1, <2>2, <2>3 DEF EventTypes
<1> QED BY <1>10, <1>11, <1>12

\* The timeline and the row are evidence for each other.
LEMMA StateIsProved ==
    ASSUME ReadInv
    PROVE  StateProved
<1> SUFFICES ASSUME NEW i \in Generations
             PROVE  /\ \A f \in FaultyRows(generation[i]) \ {generation[i]} :
                         GenerationPage(f, Timeline(EventsOfGeneration(i)), i)
                            = "INDEXER_EVIDENCE_INVALID"
                    /\ \A rows \in FaultyEvents(EventsOfGeneration(i)) \ {EventsOfGeneration(i)} :
                         GenerationPage(generation[i], Timeline(rows), i)
                            = "INDEXER_EVIDENCE_INVALID"
  BY DEF StateProved
<1> DEFINE row == generation[i]
           R == EventsOfGeneration(i)
<1>1. i \in TxIds /\ row # NoRow /\ row \in Rows
  BY DEF Generations, ReadInv, IndInv, TypeOK
<1>2. ASSUME NEW f \in FaultyRows(row) \ {row}
      PROVE  GenerationPage(f, Timeline(R), i) = "INDEXER_EVIDENCE_INVALID"
  <2>1. f \in Rows
    BY <1>1, FaultsAreRows
  <2> QED BY <1>1, <2>1, OtherRowRefused DEF TimelineOf
<1>3. ASSUME NEW W \in FaultyEvents(R) \ {R}
      PROVE  ~PublicTimeline(Timeline(W), row, i)
  <2>1. R \subseteq log /\ \A r \in R : r \in LogRows
    BY DEF EventsOfGeneration, ReadInv, LogInv
  <2> HIDE DEF R, row
  <2>2. \/ \E r \in R : W = R \ {r}
        \/ \E r \in R : W = (R \ {r}) \cup {[r EXCEPT !.accepted = ~@]}
        \/ \E r \in R, e \in Expirations \cup {NoExpiration} :
              W = (R \ {r}) \cup {[r EXCEPT !.expiration = e]}
    BY DEF FaultyEvents
  <2>3. ASSUME NEW r \in R, W = R \ {r} PROVE ~PublicTimeline(Timeline(W), row, i)
    BY <1>1, <2>3, LossRefused DEF R, row
  <2>4. ASSUME NEW r \in R, W = (R \ {r}) \cup {[r EXCEPT !.accepted = ~@]}
        PROVE  ~PublicTimeline(Timeline(W), row, i)
    <3> DEFINE q == [r EXCEPT !.accepted = ~@]
    <3>1. r \in LogRows
      BY <2>1
    <3>2. /\ q.ledger = r.ledger /\ q.txIndex = r.txIndex /\ q.node = r.node /\ q.type = r.type
          /\ q.key = r.key /\ q.generation = r.generation /\ q.tx = r.tx
          /\ q.accepted = ~r.accepted
      BY <3>1 DEF LogRows
    <3>3. W = (R \ {r}) \cup {q}
      BY <2>4
    <3> HIDE DEF q
    <3> QED BY <1>1, <3>2, <3>3, ChangeRefused DEF R, row
  <2>5. ASSUME NEW r \in R, NEW e, W = (R \ {r}) \cup {[r EXCEPT !.expiration = e]}
        PROVE  ~PublicTimeline(Timeline(W), row, i)
    <3> DEFINE q == [r EXCEPT !.expiration = e]
    <3>1. r \in LogRows
      BY <2>1
    <3>2. /\ q.ledger = r.ledger /\ q.txIndex = r.txIndex /\ q.node = r.node /\ q.type = r.type
          /\ q.key = r.key /\ q.generation = r.generation /\ q.tx = r.tx /\ q.expiration = e
      BY <3>1 DEF LogRows
    <3>3. W = (R \ {r}) \cup {q}
      BY <2>5
    <3>4. q.expiration # r.expiration
      <4>1. e = r.expiration => q = r
        BY <3>1 DEF LogRows
      <4> HIDE DEF q
      <4>2. q = r => W = R
        BY <3>3
      <4>3. W # R
        OBVIOUS
      <4> QED BY <3>2, <4>1, <4>2, <4>3
    <3> HIDE DEF q
    <3> QED BY <1>1, <3>2, <3>3, <3>4, ChangeRefused DEF R, row
  <2> QED BY <2>2, <2>3, <2>4, <2>5
<1> QED BY <1>1, <1>2, <1>3 DEF GenerationPage

-----------------------------------------------------------------------------
(* The pages of a transaction.                                             *)

PageStarts == {-1} \cup {r.node : r \in log}

\* The page after a node and, when more follow, those that next gives.
PageFrom(tx, after, next) ==
    LET rows == PageRows(tx, after)
        shown == SubSeq(rows, 1, PageLimit)
    IN IF Len(rows) <= PageLimit THEN rows ELSE shown \o next[shown[PageLimit].node]

Following(tx) == CHOOSE f : f = [after \in PageStarts |-> PageFrom(tx, after, f)]

\* The pages, as a recursion of their own.
LEMMA PagesFollow == ASSUME NEW tx PROVE Pages(tx) = Following(tx)[-1]
BY Zenon DEF Pages, Following, PageFrom, PageStarts

\* A non-empty set of numbers has a smallest one.
LEMMA SmallestExists ==
    ASSUME NEW T, T \subseteq Nat, T # {}
    PROVE  \E x \in T : \A y \in T : x <= y
<1> DEFINE R == OpToRel(<, Nat)
<1>1. PICK x \in T : \A y \in T : ~(<<y, x>> \in R)
  <2> HIDE DEF R
  <2>1. IsWellFoundedOn(R, Nat)
    BY NatLessThanWellFounded DEF R
  <2> QED BY <2>1, WFMin
<1>2. \A y \in T : ~(y < x)
  BY <1>1 DEF OpToRel
<1> QED BY <1>2

\* The events of a transaction after a node.
After(tx, after) == {r \in log : r.tx = tx /\ r.node > after}

\* They are rows in order, of that transaction.
LEMMA AfterIs ==
    ASSUME LogInv, NEW tx, NEW after \in PageStarts
    PROVE  /\ Sortable(After(tx, after)) /\ After(tx, after) \subseteq log /\ after \in Int
           /\ \A r \in After(tx, after) :
                 r.tx = tx /\ r.node > after /\ r.node \in Nat /\ r.node \in PageStarts
           /\ \A r, s \in After(tx, after) : Earlier(r, s) <=> r.node < s.node
<1>1. After(tx, after) \subseteq log /\ Sortable(log)
  BY LogSortable DEF After
<1>2. \A r \in log : r.node \in Nat /\ r.tx \in Nat
  BY LogRowTypes DEF LogInv
<1>3. after \in Int
  BY <1>2 DEF PageStarts
<1>4. Sortable(After(tx, after))
  BY <1>1, SortableSubset
<1>5. \A r, s \in After(tx, after) : Earlier(r, s) <=> r.node < s.node
  BY <1>1, <1>2, EarlierIs DEF After
<1> QED BY <1>1, <1>2, <1>3, <1>4, <1>5 DEF After, PageStarts

\* The first rows of a page, and after the last of them the others.
GoesOn(tx, after, next) ==
    \E b \in PageStarts :
        /\ Cardinality(After(tx, b)) < Cardinality(After(tx, after))
        /\ LET first == SubSeq(EventRows(After(tx, after)), 1, PageLimit)
           IN /\ PageFrom(tx, after, next) = first \o next[b]
              /\ EventRows(After(tx, after)) = first \o EventRows(After(tx, b))

\* A page: all that is left, or its first rows, after which the others follow the last of them.
LEMMA PageIs ==
    ASSUME LogInv, NEW tx, NEW after \in PageStarts, NEW next
    PROVE  /\ Cardinality(After(tx, after)) <= PageLimit =>
                PageFrom(tx, after, next) = EventRows(After(tx, after))
           /\ ~(Cardinality(After(tx, after)) <= PageLimit) => GoesOn(tx, after, next)
<1> DEFINE S == After(tx, after)
           E == EventRows(S)
           n == Cardinality(S)
           m == PageLimit + 1
           rows == Limited(E, m)
           shown == SubSeq(rows, 1, PageLimit)
<1>1. /\ Sortable(S) /\ S \subseteq log /\ after \in Int
      /\ \A r \in S : r.tx = tx /\ r.node > after /\ r.node \in Nat /\ r.node \in PageStarts
      /\ \A r, s \in S : Earlier(r, s) <=> r.node < s.node
  BY AfterIs
<1>2. PageRows(tx, after) = rows
  BY DEF PageRows, After
<1>3. /\ PageLimit \in Nat /\ PageLimit >= 1 /\ m \in Nat /\ m = PageLimit + 1
  BY ReadConstants
<1>4. PageFrom(tx, after, next) =
        IF Len(rows) <= PageLimit THEN rows ELSE shown \o next[shown[PageLimit].node]
  BY <1>2 DEF PageFrom
<1>5. E = EventRows(S) /\ rows = Limited(E, m) /\ n = Cardinality(S)
  OBVIOUS
<1> HIDE DEF S, m
<1>6. n \in Nat
  BY <1>1, FS_CardinalityType DEF Sortable
<1> HIDE DEF E
<1>7. /\ E \in Seq(S) /\ Len(E) = n /\ DOMAIN E = 1 .. n
      /\ \A i \in 1 .. n : E[i] \in S
  <2>1. /\ E \in Seq(S) /\ Len(E) = Cardinality(S) /\ DOMAIN E = 1 .. Len(E)
        /\ \A i \in DOMAIN E : E[i] \in S
    BY <1>1, <1>5, Listed
  <2> QED BY <2>1
<1>8. \A i, j \in 1 .. n : i < j => E[i].node < E[j].node
  <2>1. \A i, j \in DOMAIN E : i < j => Earlier(E[i], E[j])
    BY <1>1, <1>5, Listed
  <2> QED BY <1>1, <1>7, <2>1
<1>9. \A r \in S : \E i \in 1 .. n : E[i] = r
  BY <1>1, <1>7, IsListed DEF E
<1> HIDE DEF n
<1>10. CASE n <= PageLimit
  <2>1. rows = E
    <3>1. n <= m
      BY <1>3, <1>6, <1>10
    <3> QED BY <1>1, <1>3, <1>5, <3>1, Unlimited DEF n, E, rows
  <2> HIDE DEF rows
  <2>2. PageFrom(tx, after, next) = E
    BY <1>4, <1>7, <1>10, <2>1
  <2> QED BY <1>10, <2>2 DEF E, S, n
<1>11. CASE ~(n <= PageLimit)
  <2>1. Len(rows) = m /\ \A i \in 1 .. m : rows[i] = E[i]
    <3>1. Len(rows) = IF Cardinality(S) < m THEN Cardinality(S) ELSE m
      BY SMTT(30), <1>1, <1>3, <1>5, LimitedRows
    <3>2. \A i \in DOMAIN rows : rows[i] = E[i]
      BY <1>1, <1>3, IsBeginning DEF E
    <3>3. DOMAIN rows = 1 .. Len(rows)
      BY <1>1, <1>3, <1>5, LimitedRows
    <3> HIDE DEF rows
    <3>4. Len(rows) = m
      BY <1>3, <1>5, <1>6, <1>11, <3>1
    <3> QED BY <3>2, <3>3, <3>4
  <2> DEFINE first == SubSeq(E, 1, PageLimit)
  <2>2. /\ first \in Seq(S) /\ Len(first) = PageLimit
        /\ \A i \in 1 .. PageLimit : first[i] = E[i] /\ E[i] \in S
    <3>1. \A i \in 1 .. PageLimit : E[i] \in S
      BY <1>3, <1>6, <1>7, <1>11
    <3>2. 1 \in Int /\ PageLimit \in Int
      BY <1>3
    <3>3. /\ first \in Seq(S) /\ Len(first) = (IF 1 <= PageLimit THEN PageLimit - 1 + 1 ELSE 0)
          /\ \A i \in 1 .. PageLimit - 1 + 1 : first[i] = E[1 + i - 1]
      BY <3>1, <3>2, SubSeqProperties
    <3> HIDE DEF first
    <3>4. PageLimit - 1 + 1 = PageLimit /\ \A i \in 1 .. PageLimit : 1 + i - 1 = i
      BY <1>3
    <3> QED BY <1>3, <3>1, <3>3, <3>4
  <2>3. shown = first
    <3> HIDE DEF rows
    <3>1. \A i \in 1 .. PageLimit : rows[i] = E[i] /\ rows[i] \in S
      BY <1>3, <1>6, <1>7, <1>11, <2>1
    <3>2. 1 \in Int /\ PageLimit \in Int
      BY <1>3
    <3>3. /\ shown \in Seq(S) /\ Len(shown) = (IF 1 <= PageLimit THEN PageLimit - 1 + 1 ELSE 0)
          /\ \A i \in 1 .. PageLimit - 1 + 1 : shown[i] = rows[1 + i - 1]
      BY <3>1, <3>2, SubSeqProperties
    <3> HIDE DEF shown, first
    <3>4. PageLimit - 1 + 1 = PageLimit /\ \A i \in 1 .. PageLimit : 1 + i - 1 = i
      BY <1>3
    <3>5. Len(shown) = PageLimit /\ \A i \in 1 .. PageLimit : shown[i] = first[i]
      BY <1>3, <2>2, <3>1, <3>3, <3>4
    <3> QED BY <2>2, <3>3, <3>5, SeqEqual
  <2> HIDE DEF rows, shown, first
  <2> DEFINE b == E[PageLimit].node
             U == After(tx, b)
             F == EventRows(U)
             all == first \o F
  <2>4. PageLimit \in 1 .. n /\ PageLimit \in 1 .. PageLimit /\ E[PageLimit] \in S
    BY <1>3, <1>6, <1>7, <1>11
  <2>5. b \in PageStarts /\ b \in Nat /\ b > after
    BY <1>1, <2>4
  <2>6. PageFrom(tx, after, next) = first \o next[b]
    <3>1. ~(Len(rows) <= PageLimit)
      BY <1>3, <2>1
    <3>2. shown[PageLimit].node = b
      BY <2>2, <2>3, <2>4
    <3> QED BY <1>4, <2>3, <3>1, <3>2
  <2> HIDE DEF b
  <2>7. U \subseteq S /\ \A r \in S : r \in U <=> r.node > b
    <3>1. \A r \in log : r.node \in Nat
      BY LogRowTypes DEF LogInv
    <3> QED BY <1>1, <2>5, <3>1 DEF After, S
  <2>8. E[PageLimit] \in S /\ E[PageLimit] \notin U
    BY <2>4, <2>5, <2>7 DEF b
  <2>9. /\ Sortable(U) /\ \A r \in U : r.node \in Nat /\ r.node > b
        /\ \A r, s \in U : Earlier(r, s) <=> r.node < s.node
    BY <2>5, AfterIs
  <2>10. F = EventRows(U)
    OBVIOUS
  <2> HIDE DEF U, F
  <2>11. Cardinality(U) < n
    <3>1. IsFiniteSet(S) /\ U \in SUBSET S /\ U # S
      BY <1>1, <2>7, <2>8 DEF Sortable
    <3>2. Cardinality(U) <= n /\ Cardinality(U) # n
      BY <3>1, FS_Subset DEF n
    <3>3. Cardinality(U) \in Nat
      BY <3>1, FS_Subset, FS_CardinalityType
    <3> QED BY <1>6, <3>2, <3>3
  <2>12. F \in Seq(U) /\ Len(F) \in Nat /\ \A i \in 1 .. Len(F) : F[i] \in U
    <3>1. F \in Seq(U) /\ Len(F) \in Nat /\ DOMAIN F = 1 .. Len(F)
      BY <2>9, <2>10, Listed
    <3> QED BY <3>1
  <2>13. \A i, j \in 1 .. Len(F) : i < j => Earlier(F[i], F[j])
    <3>1. DOMAIN F = 1 .. Len(F)
      BY <2>12
    <3>2. \A i, j \in DOMAIN F : i < j => Earlier(F[i], F[j])
      BY <2>9, <2>10, Listed
    <3> QED BY <3>1, <3>2
  <2>14. \A r \in U : \E i \in 1 .. Len(F) : F[i] = r
    <3>1. DOMAIN F = 1 .. Len(F)
      BY <2>12
    <3> QED BY <2>9, <3>1, IsListed DEF F
  <2>15. F \in Seq(S)
    BY <2>7, <2>12
  <2>16. /\ all \in Seq(S) /\ Len(all) = PageLimit + Len(F)
         /\ \A i \in 1 .. PageLimit + Len(F) :
               all[i] = IF i <= PageLimit THEN first[i] ELSE F[i - PageLimit]
    <3>1. first \in Seq(S) /\ Len(first) = PageLimit
      BY <2>2
    <3>2. /\ first \o F \in Seq(S) /\ Len(first \o F) = Len(first) + Len(F)
          /\ \A i \in 1 .. Len(first) + Len(F) :
                (first \o F)[i] = IF i <= Len(first) THEN first[i] ELSE F[i - Len(first)]
      BY ONLY <2>15, <3>1, ConcatProperties
    <3> QED BY ONLY <3>1, <3>2
  <2> HIDE DEF all
  <2>17. \A r \in S : \E i \in 1 .. Len(all) : all[i] = r
    <3> TAKE r \in S
    <3>1. CASE r \in U
      <4>1. PICK j \in 1 .. Len(F) : F[j] = r
        BY <2>14, <3>1
      <4>2. /\ j + PageLimit \in 1 .. Len(all) /\ ~(j + PageLimit <= PageLimit)
            /\ j + PageLimit - PageLimit = j
        BY <1>3, <2>12, <2>16, <4>1
      <4>3. all[j + PageLimit] = F[j]
        BY <2>16, <4>2
      <4> QED BY <4>1, <4>2, <4>3
    <3>2. CASE r \notin U
      <4>1. PICK j \in 1 .. n : E[j] = r
        BY <1>9
      <4>2. j <= PageLimit
        <5>1. PageLimit < j => b < E[j].node
          BY <1>8, <2>4, <4>1 DEF b
        <5> QED BY <1>3, <1>6, <2>7, <3>2, <4>1, <5>1
      <4>3. j \in 1 .. Len(all) /\ j \in 1 .. PageLimit
        BY <1>3, <2>12, <2>16, <4>1, <4>2
      <4>4. all[j] = E[j]
        BY <2>2, <2>16, <4>2, <4>3
      <4> QED BY <4>1, <4>3, <4>4
    <3> QED BY <3>1, <3>2
  <2>18. ASSUME NEW i \in 1 .. Len(all), NEW j \in 1 .. Len(all), i < j
         PROVE  Earlier(all[i], all[j])
    <3>1. CASE j <= PageLimit
      <4>1. i \in 1 .. PageLimit /\ j \in 1 .. PageLimit /\ i \in 1 .. n /\ j \in 1 .. n
        BY <1>3, <1>6, <1>11, <2>18, <3>1
      <4>2. all[i] = E[i] /\ all[j] = E[j]
        BY <2>2, <2>16, <2>18, <3>1, <4>1
      <4> QED BY <1>1, <1>7, <1>8, <2>18, <4>1, <4>2
    <3>2. CASE i <= PageLimit /\ ~(j <= PageLimit)
      <4>1. i \in 1 .. PageLimit /\ i \in 1 .. n /\ j - PageLimit \in 1 .. Len(F)
        BY SMTT(30), <1>3, <1>6, <1>11, <2>12, <2>16, <2>18, <3>2
      <4>2. all[i] = E[i] /\ all[j] = F[j - PageLimit]
        BY <2>2, <2>16, <2>18, <3>2, <4>1
      <4>3. E[i].node <= b
        <5>1. i = PageLimit \/ i < PageLimit
          BY <1>3, <3>2, <4>1
        <5>2. i < PageLimit => E[i].node < b
          BY <1>8, <2>4, <4>1 DEF b
        <5>3. E[i].node \in Nat
          BY <1>1, <1>7, <4>1
        <5> QED BY <2>5, <5>1, <5>2, <5>3 DEF b
      <4>4. F[j - PageLimit] \in U /\ E[i] \in S
        BY <1>7, <2>12, <4>1
      <4>5. F[j - PageLimit].node > b /\ F[j - PageLimit].node \in Nat /\ E[i].node \in Nat
            /\ F[j - PageLimit] \in S
        BY <1>1, <2>7, <2>9, <4>4
      <4>6. E[i].node < F[j - PageLimit].node
        BY SMTT(30), <2>5, <4>3, <4>5
      <4> QED BY <1>1, <4>2, <4>4, <4>5, <4>6
    <3>3. CASE ~(i <= PageLimit)
      <4>1. /\ i - PageLimit \in 1 .. Len(F) /\ j - PageLimit \in 1 .. Len(F)
            /\ i - PageLimit < j - PageLimit /\ ~(j <= PageLimit)
        BY <1>3, <2>12, <2>16, <2>18, <3>3
      <4>2. all[i] = F[i - PageLimit] /\ all[j] = F[j - PageLimit]
        BY <2>16, <2>18, <3>3, <4>1
      <4> QED BY <2>13, <4>1, <4>2
    <3> QED BY <3>1, <3>2, <3>3
  <2>19. all = E
    BY <1>1, <1>5, <2>16, <2>17, <2>18, EventRowsUnique
  <2>20. E = first \o F
    BY <2>19 DEF all
  <2> QED BY <1>11, <2>5, <2>6, <2>11, <2>20 DEF first, F, U, E, S, n, GoesOn
<1> QED BY <1>10, <1>11

\* Following the cursors shows every event of a transaction once, in order.
LEMMA PagesShowAll ==
    ASSUME LogInv, NEW tx
    PROVE  Pages(tx) = TransactionEvents(tx)
<1> DEFINE g == [a \in PageStarts |-> EventRows(After(tx, a))]
           Solves(f) == f = [a \in PageStarts |-> PageFrom(tx, a, f)]
           h == Following(tx)
<1>1. Solves(g)
  <2>1. ASSUME NEW a \in PageStarts PROVE g[a] = PageFrom(tx, a, g)
    <3>1. g[a] = EventRows(After(tx, a)) /\ \A b \in PageStarts : g[b] = EventRows(After(tx, b))
      BY <2>1
    <3> HIDE DEF g
    <3>2. CASE Cardinality(After(tx, a)) <= PageLimit
      BY <3>1, <3>2, PageIs
    <3>3. CASE ~(Cardinality(After(tx, a)) <= PageLimit)
      <4>1. PICK b \in PageStarts :
              /\ PageFrom(tx, a, g) = SubSeq(EventRows(After(tx, a)), 1, PageLimit) \o g[b]
              /\ EventRows(After(tx, a)) = SubSeq(EventRows(After(tx, a)), 1, PageLimit)
                                               \o EventRows(After(tx, b))
        <5>1. GoesOn(tx, a, g)
          BY <2>1, <3>3, PageIs
        <5> QED BY ONLY <5>1 DEF GoesOn
      <4> QED BY <3>1, <4>1
    <3> QED BY <3>2, <3>3
  <2>2. [a \in PageStarts |-> g[a]] = [a \in PageStarts |-> PageFrom(tx, a, g)]
    BY <2>1
  <2>3. g = [a \in PageStarts |-> g[a]]
    OBVIOUS
  <2> QED BY <2>2, <2>3
<1>2. Solves(h)
  <2>1. \E f : Solves(f)
    BY <1>1
  <2> HIDE DEF g
  <2> QED BY <2>1, Zenon DEF Following
<1>3. \A a \in PageStarts : h[a] = PageFrom(tx, a, h) /\ g[a] = EventRows(After(tx, a))
  <2> HIDE DEF h
  <2>1. h = [a \in PageStarts |-> PageFrom(tx, a, h)]
    BY <1>2
  <2>2. \A a \in PageStarts : h[a] = PageFrom(tx, a, h)
    BY <2>1
  <2> QED BY <2>2
<1> HIDE DEF g, h
<1> DEFINE Wrong == {a \in PageStarts : h[a] # g[a]}
           Left == {Cardinality(After(tx, a)) : a \in Wrong}
<1>4. \A a \in PageStarts : Cardinality(After(tx, a)) \in Nat
  BY AfterIs, FS_CardinalityType DEF Sortable
<1>5. Wrong = {}
  <2> SUFFICES ASSUME Wrong # {} PROVE FALSE
    OBVIOUS
  <2>1. Left \subseteq Nat /\ Left # {}
    BY <1>4
  <2>2. PICK n \in Left : \A y \in Left : n <= y
    <3> HIDE DEF Left
    <3> QED BY <2>1, SmallestExists
  <2>3. PICK a \in Wrong : n = Cardinality(After(tx, a))
    OBVIOUS
  <2>4. \A b \in PageStarts : Cardinality(After(tx, b)) < n => h[b] = g[b]
    <3> TAKE b \in PageStarts
    <3>1. b \in Wrong => n <= Cardinality(After(tx, b))
      BY <2>2
    <3>2. n \in Nat /\ Cardinality(After(tx, b)) \in Nat
      BY <1>4, <2>1
    <3> QED BY <3>1, <3>2
  <2>5. a \in PageStarts /\ h[a] # g[a]
    OBVIOUS
  <2>6. CASE n <= PageLimit
    <3>1. PageFrom(tx, a, h) = EventRows(After(tx, a))
      BY <2>3, <2>5, <2>6, PageIs
    <3> QED BY <1>3, <2>5, <3>1
  <2>7. CASE ~(n <= PageLimit)
    <3>1. PICK b \in PageStarts :
            /\ Cardinality(After(tx, b)) < Cardinality(After(tx, a))
            /\ PageFrom(tx, a, h) = SubSeq(EventRows(After(tx, a)), 1, PageLimit) \o h[b]
            /\ EventRows(After(tx, a)) = SubSeq(EventRows(After(tx, a)), 1, PageLimit)
                                             \o EventRows(After(tx, b))
      <4>1. GoesOn(tx, a, h)
        BY <2>3, <2>5, <2>7, PageIs
      <4> QED BY ONLY <4>1 DEF GoesOn
    <3>2. h[b] = EventRows(After(tx, b))
      BY <1>3, <2>3, <2>4, <3>1
    <3>3. PageFrom(tx, a, h) = EventRows(After(tx, a))
      BY <3>1, <3>2
    <3> QED BY <1>3, <2>5, <3>3
  <2> QED BY <2>6, <2>7
<1>6. -1 \in PageStarts
  BY DEF PageStarts
<1>7. h[-1] = EventRows(After(tx, -1))
  BY <1>3, <1>5, <1>6
<1>8. After(tx, -1) = {r \in log : r.tx = tx}
  <2>1. \A r \in log : r.node \in Nat
    BY LogRowTypes DEF LogInv
  <2> QED BY <2>1 DEF After
<1>9. Pages(tx) = h[-1]
  BY PagesFollow DEF h
<1> QED BY <1>7, <1>8, <1>9 DEF TransactionEvents

\* A hash that identifies a generation identifies the transaction that created it.
LEMMA PagesAreComplete ==
    ASSUME ReadInv
    PROVE  PagesComplete
<1>1. ASSUME NEW tx \in 1 .. txs, "credential_generation" \in SearchByHash(tx)
      PROVE  "transaction" \in SearchByHash(tx)
  <2>1. tx \in TxIds
    BY DEF ReadInv, IndInv, TypeOK, TxIds
  <2>2. generation[tx] # NoRow
    BY <1>1 DEF SearchByHash
  <2>3. \E c \in EventsOfGeneration(tx) : c.type = "created" /\ c.tx = tx /\ c \in log
    BY <2>1, <2>2, GenerationTold
  <2> DEFINE S == {r \in log : r.tx = tx}
  <2>4. Sortable(S) /\ S # {}
    BY <2>3, LogSortable, SortableSubset DEF ReadInv
  <2>5. TransactionEvents(tx) = EventRows(S)
    BY DEF TransactionEvents
  <2> HIDE DEF S
  <2>6. EventRows(S) # <<>>
    <3>1. PICK r \in S : TRUE
      BY <2>4
    <3>2. \E j \in DOMAIN EventRows(S) : EventRows(S)[j] = r
      BY <2>4, IsListed
    <3> QED BY <3>2
  <2> QED BY <2>5, <2>6 DEF SearchByHash
<1>2. \A tx \in 1 .. txs : Pages(tx) = TransactionEvents(tx)
  BY PagesShowAll DEF ReadInv
<1> QED BY <1>1, <1>2 DEF PagesComplete

-----------------------------------------------------------------------------
(***************************************************************************)
(* Schemas. What resolution returns over a catalog that keeps its own      *)
(* resolutions is one merge; so the catalog that the transactions of the   *)
(* ledger build up is determined, the tables hold it until a row has a     *)
(* fault, and the checks of the API accept of a row nothing else.          *)
(***************************************************************************)

USE SchemaConstants

\* SchemaCatalog counts with the library's operator.
LEMMA SameCardinality == \A S : Catalog!Cardinality(S) = Cardinality(S)
BY DEF Cardinality, Catalog!Cardinality

-----------------------------------------------------------------------------
(* Resolution.                                                             *)

\* A resolution is not a refusal.
LEMMA NotInvalid ==
    ASSUME NEW d, NEW n, NEW l
    PROVE  [definition |-> d, fields |-> n, lineage |-> l] # Catalog!Invalid
<1>1. DOMAIN [definition |-> d, fields |-> n, lineage |-> l] # DOMAIN [error |-> "invalid"]
  OBVIOUS
<1> QED BY <1>1 DEF Catalog!Invalid

\* Nor is that of a schema that extends nothing.
LEMMA RootNotInvalid == Catalog!Root # Catalog!Invalid
<1>1. DOMAIN [fields |-> {}, lineage |-> <<>>] # DOMAIN [error |-> "invalid"]
  OBVIOUS
<1> QED BY <1>1 DEF Catalog!Invalid, Catalog!Root

\* What Merge asks for.
Mergeable(row, c, p) ==
    /\ p # Catalog!Invalid
    /\ p.fields \cap row.definition.fields = {}
    /\ Catalog!Cardinality(p.fields \cup row.definition.fields) <= MaxFields
    /\ Catalog!Follows(row, c)

\* What it makes of it.
MergedInto(row, p) ==
    [definition |-> row.definition, fields |-> p.fields \cup row.definition.fields,
     lineage |-> IF row.definition.extends = Catalog!None THEN <<>>
                 ELSE Append(p.lineage, row.definition.extends)]

LEMMA MergeIs ==
    ASSUME NEW row, NEW c, NEW p
    PROVE  /\ Mergeable(row, c, p) => Catalog!Merge(row, c, p) = MergedInto(row, p)
           /\ ~Mergeable(row, c, p) => Catalog!Merge(row, c, p) = Catalog!Invalid
           /\ MergedInto(row, p) # Catalog!Invalid
<1>1. MergedInto(row, p) # Catalog!Invalid
  BY NotInvalid DEF MergedInto
<1>2. CASE Mergeable(row, c, p)
  <2>1. Catalog!Merge(row, c, p) = MergedInto(row, p)
    BY <1>2 DEF Catalog!Merge, Mergeable, MergedInto
  <2> QED BY <1>1, <1>2, <2>1
<1>3. CASE ~Mergeable(row, c, p)
  <2>1. Catalog!Merge(row, c, p) = Catalog!Invalid
    BY SMTT(30), <1>3 DEF Catalog!Merge, Mergeable
  <2> QED BY <1>1, <1>3, <2>1
<1> QED BY <1>2, <1>3

\* The resolution a catalog keeps of what a row extends.
StoredParent(row, c) ==
    IF row.definition.extends = Catalog!None THEN Catalog!Root ELSE c[row.definition.extends].resolved

\* A catalog that keeps with each row the resolution of its definition.
RowSound(c, u) ==
    /\ c[u].at = u
    /\ c[u].resolved = Catalog!Merge(c[u], c, StoredParent(c[u], c)) /\ c[u].resolved # Catalog!Invalid
    /\ c[u].definition.extends # Catalog!None =>
         /\ c[u].definition.extends \in DOMAIN c /\ c[u].definition.extends < u
         /\ Len(c[c[u].definition.extends].resolved.lineage) < MaxDepth - 1
    /\ c[u].resolved.lineage \in Seq(DOMAIN c)
    /\ \A i \in DOMAIN c[u].resolved.lineage : c[u].resolved.lineage[i] < u

Sound(c) == DOMAIN c \subseteq Catalog!Positions /\ \A u \in DOMAIN c : RowSound(c, u)

\* Such a row is the merge of its definition with its parent's resolution.
LEMMA RowMerged ==
    ASSUME NEW c, Sound(c), NEW u \in DOMAIN c
    PROVE  /\ Mergeable(c[u], c, StoredParent(c[u], c))
           /\ c[u].resolved = MergedInto(c[u], StoredParent(c[u], c))
           /\ c[u].resolved.definition = c[u].definition
           /\ c[u].resolved.fields = StoredParent(c[u], c).fields \cup c[u].definition.fields
           /\ c[u].definition.extends = Catalog!None => c[u].resolved.lineage = <<>>
           /\ c[u].definition.extends # Catalog!None =>
                c[u].resolved.lineage =
                  Append(c[c[u].definition.extends].resolved.lineage, c[u].definition.extends)
<1>1. Mergeable(c[u], c, StoredParent(c[u], c))
  BY MergeIs DEF Sound, RowSound
<1>2. c[u].resolved = MergedInto(c[u], StoredParent(c[u], c))
  BY <1>1, MergeIs DEF Sound, RowSound
<1>3. /\ c[u].resolved.definition = c[u].definition
      /\ c[u].resolved.fields = StoredParent(c[u], c).fields \cup c[u].definition.fields
      /\ c[u].resolved.lineage =
           IF c[u].definition.extends = Catalog!None THEN <<>>
           ELSE Append(StoredParent(c[u], c).lineage, c[u].definition.extends)
  BY <1>2 DEF MergedInto
<1>4. c[u].definition.extends # Catalog!None =>
        StoredParent(c[u], c).lineage = c[c[u].definition.extends].resolved.lineage
  BY DEF StoredParent
<1> QED BY <1>1, <1>2, <1>3, <1>4

\* The recursive call for a schema: there is room for its ancestors, and none of them is
\* being resolved.
Room(c, u, visiting) ==
    LET l == c[u].resolved.lineage
    IN \/ l = <<>>
       \/ Catalog!Cardinality(visiting) + Len(l) <= MaxDepth - 1 /\ \A i \in DOMAIN l : l[i] \notin visiting

Found(c) ==
    [u \in DOMAIN c |-> [visiting \in SUBSET DOMAIN c |->
        IF Room(c, u, visiting) THEN c[u].resolved ELSE Catalog!Invalid]]

\* A call returns what is stored, if the calls it makes do.
LEMMA CallIs ==
    ASSUME NEW c, Sound(c), NEW u \in DOMAIN c, NEW visiting \in SUBSET DOMAIN c, NEW f,
           c[u].definition.extends # Catalog!None =>
             f[c[u].definition.extends] = Found(c)[c[u].definition.extends]
    PROVE  Catalog!Merge(c[u], c, Catalog!Parent(c[u], c, visiting, f)) = Found(c)[u][visiting]
<1> DEFINE e == c[u].definition.extends
           l == c[u].resolved.lineage
<1>1. RowSound(c, u) /\ u \in Nat
  BY DEF Sound, Catalog!Positions
<1>2. Found(c)[u][visiting] = IF Room(c, u, visiting) THEN c[u].resolved ELSE Catalog!Invalid
  BY DEF Found
<1>3. CASE e = Catalog!None
  <2>1. Catalog!Parent(c[u], c, visiting, f) = StoredParent(c[u], c)
    BY SMTT(30), <1>3 DEF Catalog!Parent, StoredParent
  <2>2. l = <<>>
    BY <1>3, RowMerged
  <2> QED BY <1>1, <1>2, <2>1, <2>2 DEF Room, RowSound
<1>4. CASE e # Catalog!None
  <2> DEFINE k == c[e].resolved.lineage
             more == visiting \cup {e}
  <2>1. /\ e \in DOMAIN c /\ e < u /\ e \in Nat /\ c[e].at = e
        /\ Catalog!Referenced(c, e, c[u].at)
    <3>1. e \in DOMAIN c /\ e < u /\ c[u].at = u
      BY <1>1, <1>4 DEF RowSound
    <3>2. c[e].at = e
      BY <3>1 DEF Sound, RowSound
    <3>3. e \in Nat
      BY <3>1 DEF Sound, Catalog!Positions
    <3> HIDE DEF e
    <3> QED BY <3>1, <3>2, <3>3 DEF Catalog!Referenced
  <2>2. /\ k \in Seq(DOMAIN c) /\ l = Append(k, e) /\ Len(k) \in Nat
        /\ \A i \in DOMAIN k : k[i] < e /\ k[i] \in Nat
    <3>1. k \in Seq(DOMAIN c) /\ \A i \in DOMAIN k : k[i] < e
      BY <2>1 DEF Sound, RowSound
    <3>2. \A i \in DOMAIN k : k[i] \in DOMAIN c
      BY SMTT(30), <3>1
    <3>3. l = Append(k, e)
      BY <1>4, RowMerged
    <3>4. \A i \in DOMAIN k : k[i] \in Nat
      BY <3>2 DEF Sound, Catalog!Positions
    <3>5. Len(k) \in Nat
      BY <3>1
    <3> HIDE DEF k, l, e
    <3> QED BY <3>1, <3>3, <3>4, <3>5
  <2>3. /\ Len(l) = Len(k) + 1 /\ l # <<>> /\ DOMAIN l = 1 .. Len(k) + 1 /\ l[Len(k) + 1] = e
        /\ DOMAIN k = 1 .. Len(k)
        /\ \A i \in DOMAIN k : l[i] = k[i]
    <3>1. k \in Seq(DOMAIN c) /\ e \in DOMAIN c /\ l = Append(k, e)
      BY <2>1, <2>2
    <3> HIDE DEF k, l, e
    <3>2. /\ l \in Seq(DOMAIN c) /\ l # <<>> /\ Len(l) = Len(k) + 1 /\ l[Len(k) + 1] = e
          /\ \A i \in 1 .. Len(k) : l[i] = k[i]
      BY ONLY <3>1, AppendProperties
    <3>3. DOMAIN k = 1 .. Len(k) /\ DOMAIN l = 1 .. Len(l)
      BY ONLY <3>1, <3>2
    <3> QED BY ONLY SMTT(30), <3>2, <3>3
  <2>4. IsFiniteSet(visiting) /\ Catalog!Cardinality(visiting) \in Nat
    <3>1. IsFiniteSet(Catalog!Positions)
      BY SameCardinality, FS_Interval DEF Catalog!Positions
    <3> QED BY SameCardinality, <3>1, FS_Subset, FS_CardinalityType DEF Sound
  <2>5. e \notin visiting => Catalog!Cardinality(more) = Catalog!Cardinality(visiting) + 1
    BY SameCardinality, <2>4, FS_AddElement
  <2>6. more \in SUBSET DOMAIN c
    BY <2>1
  <2>7. f[e][more] = IF Room(c, e, more) THEN c[e].resolved ELSE Catalog!Invalid
    BY <1>4, <2>1, <2>6 DEF Found
  <2>8. Room(c, e, more) <=> \/ k = <<>>
                             \/ Catalog!Cardinality(more) + Len(k) <= MaxDepth - 1
                                /\ \A i \in DOMAIN k : k[i] \notin more
    BY DEF Room
  <2>9. Room(c, u, visiting) <=> /\ Catalog!Cardinality(visiting) + Len(l) <= MaxDepth - 1
                                 /\ \A i \in DOMAIN l : l[i] \notin visiting
    BY <2>3 DEF Room
  <2>10. (\A i \in DOMAIN l : l[i] \notin visiting)
           <=> e \notin visiting /\ \A i \in DOMAIN k : k[i] \notin visiting
    <3> HIDE DEF l, k, e
    <3>1. \A i \in DOMAIN l : i \in DOMAIN k \/ i = Len(k) + 1
      BY <2>2, <2>3
    <3>2. DOMAIN k \subseteq DOMAIN l /\ Len(k) + 1 \in DOMAIN l
      BY <2>2, <2>3
    <3> QED BY <2>3, <3>1, <3>2
  <2>11. (\A i \in DOMAIN k : k[i] \notin more) <=> \A i \in DOMAIN k : k[i] \notin visiting
    <3> HIDE DEF k, e
    <3>1. \A i \in DOMAIN k : k[i] # e
      BY <2>1, <2>2
    <3> QED BY ONLY <3>1
  <2>12. k = <<>> => Len(k) = 0 /\ DOMAIN k = {}
    BY <2>3
  <2> DEFINE Admitted == Catalog!Cardinality(visiting) < MaxDepth - 1 /\ e \notin visiting
  <2>13. Catalog!Parent(c[u], c, visiting, f) = IF Admitted THEN f[e][more] ELSE Catalog!Invalid
    BY <1>4, <2>1 DEF Catalog!Parent
  <2>14. Room(c, u, visiting) <=> Admitted /\ Room(c, e, more)
    <3> DEFINE Clear == \A i \in DOMAIN k : k[i] \notin visiting
    <3> HIDE DEF l, k, e, more
    <3>1. Room(c, u, visiting) <=>
              Catalog!Cardinality(visiting) + (Len(k) + 1) <= MaxDepth - 1 /\ e \notin visiting /\ Clear
      BY <2>3, <2>9, <2>10
    <3>2. Room(c, e, more) <=> k = <<>> \/ (Catalog!Cardinality(more) + Len(k) <= MaxDepth - 1 /\ Clear)
      BY <2>8, <2>11
    <3>3. k = <<>> => Len(k) = 0 /\ Clear
      BY <2>12
    <3>4. Len(k) \in Nat /\ Catalog!Cardinality(visiting) \in Nat /\ MaxDepth \in Int
      BY <2>2, <2>4
    <3> HIDE DEF Clear
    <3> QED BY ONLY <2>5, <3>1, <3>2, <3>3, <3>4
  <2>15. StoredParent(c[u], c) = c[e].resolved
    BY <1>4 DEF StoredParent
  <2>16. CASE Admitted /\ Room(c, e, more)
    <3>1. Catalog!Parent(c[u], c, visiting, f) = StoredParent(c[u], c)
      BY <2>7, <2>13, <2>15, <2>16
    <3> QED BY <1>1, <1>2, <2>14, <2>16, <3>1 DEF RowSound
  <2>17. CASE ~(Admitted /\ Room(c, e, more))
    <3>1. Catalog!Parent(c[u], c, visiting, f) = Catalog!Invalid
      BY <2>7, <2>13, <2>17
    <3>2. Catalog!Merge(c[u], c, Catalog!Invalid) = Catalog!Invalid
      BY DEF Catalog!Merge
    <3> QED BY <1>2, <2>14, <2>17, <3>1, <3>2
  <2> QED BY <2>16, <2>17
<1> QED BY <1>3, <1>4

\* The calls of resolve for the schemas of a catalog.
Calls(c, u, f) ==
    [visiting \in SUBSET DOMAIN c |-> Catalog!Merge(c[u], c, Catalog!Parent(c[u], c, visiting, f))]

Recurses(f, c) == f = [u \in DOMAIN c |-> Calls(c, u, f)]

Ancestors(c) == CHOOSE f : f = [u \in DOMAIN c |-> Calls(c, u, f)]

LEMMA ResolveCalls ==
    ASSUME NEW row, NEW c
    PROVE  Catalog!Resolve(row, c) = Catalog!Merge(row, c, Catalog!Parent(row, c, {}, Ancestors(c)))
BY Zenon DEF Catalog!Resolve, Ancestors, Calls

\* They return what the catalog keeps.
LEMMA AncestorsAre ==
    ASSUME NEW c, Sound(c)
    PROVE  Ancestors(c) = Found(c)
<1> DEFINE g == Found(c)
           h == Ancestors(c)
<1>1. g = [u \in DOMAIN c |-> g[u]]
  BY DEF Found
<1>2. \A u \in DOMAIN c : g[u] = [visiting \in SUBSET DOMAIN c |-> g[u][visiting]]
  BY DEF Found
<1>3. Recurses(g, c)
  <2>1. ASSUME NEW u \in DOMAIN c PROVE g[u] = Calls(c, u, g)
    <3>1. \A visiting \in SUBSET DOMAIN c :
             Catalog!Merge(c[u], c, Catalog!Parent(c[u], c, visiting, g)) = g[u][visiting]
      BY CallIs
    <3> HIDE DEF g
    <3> QED BY <1>2, <3>1 DEF Calls
  <2> HIDE DEF g
  <2> QED BY <1>1, <2>1 DEF Recurses
<1>4. Recurses(h, c)
  BY <1>3, Zenon DEF Ancestors, Recurses
<1> DEFINE Wrong == {u \in DOMAIN c : h[u] # g[u]}
<1>5. Wrong = {}
  <2> SUFFICES ASSUME Wrong # {} PROVE FALSE
    OBVIOUS
  <2>1. Wrong \subseteq Nat
    BY DEF Sound, Catalog!Positions
  <2>2. PICK u \in Wrong : \A v \in Wrong : u <= v
    BY <2>1, SmallestExists
  <2>3. u \in DOMAIN c /\ u \in Nat /\ RowSound(c, u)
    BY <2>1 DEF Sound
  <2>4. c[u].definition.extends # Catalog!None => h[c[u].definition.extends] = g[c[u].definition.extends]
    <3> SUFFICES ASSUME c[u].definition.extends # Catalog!None
                 PROVE  h[c[u].definition.extends] = g[c[u].definition.extends]
      OBVIOUS
    <3>1. c[u].definition.extends \in DOMAIN c /\ c[u].definition.extends < u
      BY <2>3 DEF RowSound
    <3>2. c[u].definition.extends \in Nat
      BY <3>1 DEF Sound, Catalog!Positions
    <3>3. c[u].definition.extends \notin Wrong
      BY <2>2, <2>3, <3>1, <3>2
    <3> QED BY <3>1, <3>3
  <2>5. \A visiting \in SUBSET DOMAIN c :
           Catalog!Merge(c[u], c, Catalog!Parent(c[u], c, visiting, h)) = g[u][visiting]
    <3> HIDE DEF h
    <3> QED BY <2>3, <2>4, CallIs
  <2>6. h[u] = Calls(c, u, h)
    <3> HIDE DEF h
    <3> QED BY <1>4, <2>3 DEF Recurses
  <2>7. h[u] = g[u]
    <3> HIDE DEF h, g
    <3> QED BY <1>2, <2>3, <2>5, <2>6 DEF Calls
  <2> QED BY <2>2, <2>7
<1>6. h = [u \in DOMAIN c |-> h[u]]
  <2> HIDE DEF h
  <2> QED BY <1>4 DEF Recurses
<1> HIDE DEF h, g
<1>7. h = g
  BY <1>1, <1>5, <1>6
<1> QED BY <1>7 DEF h, g

\* The resolution of what a row extends, as resolve finds it.
KnownParent(row, c) ==
    IF row.definition.extends = Catalog!None THEN Catalog!Root
    ELSE IF /\ Catalog!Referenced(c, row.definition.extends, row.at)
            /\ Len(c[row.definition.extends].resolved.lineage) < MaxDepth - 1
    THEN c[row.definition.extends].resolved ELSE Catalog!Invalid

\* Over a sound catalog resolve is one merge.
LEMMA ResolveIs ==
    ASSUME NEW c, Sound(c), NEW row
    PROVE  Catalog!Resolve(row, c) = Catalog!Merge(row, c, KnownParent(row, c))
<1> DEFINE e == row.definition.extends
<1>1. Catalog!Resolve(row, c) = Catalog!Merge(row, c, Catalog!Parent(row, c, {}, Found(c)))
  BY ResolveCalls, AncestorsAre
<1>2. Catalog!Parent(row, c, {}, Found(c)) = KnownParent(row, c)
  <2>1. Catalog!Cardinality({}) = 0
    BY SameCardinality, FS_EmptySet
  <2>2. CASE e = Catalog!None
    BY <2>2 DEF Catalog!Parent, KnownParent
  <2>3. CASE e # Catalog!None /\ ~Catalog!Referenced(c, e, row.at)
    BY <2>3 DEF Catalog!Parent, KnownParent
  <2>4. CASE e # Catalog!None /\ Catalog!Referenced(c, e, row.at)
    <3> DEFINE k == c[e].resolved.lineage
    <3>1. e \in DOMAIN c /\ RowSound(c, e) /\ e \in Nat
      BY <2>4 DEF Catalog!Referenced, Sound, Catalog!Positions
    <3>2. k \in Seq(DOMAIN c) /\ Len(k) \in Nat /\ \A i \in DOMAIN k : k[i] < e /\ k[i] \in Nat
      <4>1. k \in Seq(DOMAIN c) /\ \A i \in DOMAIN k : k[i] < e
        BY <3>1 DEF RowSound
      <4>2. \A i \in DOMAIN k : k[i] \in DOMAIN c
        BY <4>1
      <4>3. DOMAIN c \subseteq Nat
        BY DEF Sound, Catalog!Positions
      <4> HIDE DEF k
      <4>4. Len(k) \in Nat
        BY ONLY <4>1
      <4> QED BY ONLY SMTT(30), <4>1, <4>2, <4>3, <4>4
    <3>3. Found(c)[e][{} \cup {e}] = IF Room(c, e, {e}) THEN c[e].resolved ELSE Catalog!Invalid
      BY <3>1 DEF Found
    <3>4. Catalog!Cardinality({e}) = 1
      BY SameCardinality, FS_Singleton
    <3>5. \A i \in DOMAIN k : k[i] \notin {e}
      BY SMTT(30), <3>1, <3>2
    <3>6. Room(c, e, {e}) <=> k = <<>> \/ 1 + Len(k) <= MaxDepth - 1
      BY <3>4, <3>5 DEF Room
    <3>7. k = <<>> => Len(k) = 0
      OBVIOUS
    <3>8. (0 < MaxDepth - 1 /\ Room(c, e, {e})) <=> Len(k) < MaxDepth - 1
      <4> HIDE DEF k
      <4> QED BY <3>2, <3>6, <3>7
    <3>9. Catalog!Parent(row, c, {}, Found(c)) =
            IF 0 < MaxDepth - 1 THEN Found(c)[e][{} \cup {e}] ELSE Catalog!Invalid
      BY <2>1, <2>4 DEF Catalog!Parent
    <3>10. KnownParent(row, c) = IF Len(k) < MaxDepth - 1 THEN c[e].resolved ELSE Catalog!Invalid
      BY <2>4 DEF KnownParent
    <3> HIDE DEF k
    <3> QED BY <3>3, <3>8, <3>9, <3>10
  <2> QED BY <2>2, <2>3, <2>4
<1> QED BY <1>1, <1>2


-----------------------------------------------------------------------------
(* The transactions of the ledger, replayed.                               *)

\* What a transaction makes of the schemas before it.
ReplayStep(led, before, n) ==
    LET result == Catalog!Interpret(led[n], n, before)
    IN IF result.status = "accepted"
       THEN Catalog!With(before, n, Catalog!SchemaRow(led[n], n, result.resolved)) ELSE before

\* The schemas of the first transactions.
CatalogBefore(c, n) == [u \in {v \in DOMAIN c : v <= n} |-> c[u]]

\* A catalog that the transactions build up.
Built(led, c) ==
    /\ c = [u \in DOMAIN c |-> c[u]] /\ DOMAIN c \subseteq 1 .. Len(led)
    /\ \A n \in 1 .. Len(led) : CatalogBefore(c, n) = ReplayStep(led, CatalogBefore(c, n - 1), n)

Replays(led, f) ==
    f = [n \in 0 .. Len(led) |-> IF n = 0 THEN <<>> ELSE ReplayStep(led, f[n - 1], n)]

UpTo(led) == CHOOSE f : f = [n \in 0 .. Len(led) |->
                          IF n = 0 THEN <<>> ELSE ReplayStep(led, f[n - 1], n)]

\* The schemas of a ledger.
OfLedger(led) == UpTo(led)[Len(led)]

LEMMA ReplayedUpTo == Catalog!Replayed = OfLedger(chain) /\ Catalog!Replayed' = OfLedger(chain')
BY Zenon DEF Catalog!Replayed, UpTo, ReplayStep, OfLedger

\* There is one such catalog.
LEMMA ReplayedIs ==
    ASSUME NEW led, Len(led) \in Nat, NEW c, Built(led, c)
    PROVE  OfLedger(led) = c
<1> DEFINE n == Len(led)
           g == [m \in 0 .. n |-> CatalogBefore(c, m)]
<1>1. CatalogBefore(c, 0) = <<>>
  <2>1. {v \in DOMAIN c : v <= 0} = {}
    BY SMTT(30) DEF Built
  <2>2. CatalogBefore(c, 0) = [u \in {} |-> c[u]]
    BY <2>1 DEF CatalogBefore
  <2> QED BY <2>2
<1>2. Replays(led, g)
  <2>1. ASSUME NEW m \in 0 .. n
        PROVE  g[m] = IF m = 0 THEN <<>> ELSE ReplayStep(led, g[m - 1], m)
    <3>1. CASE m = 0
      BY <1>1, <3>1
    <3>2. CASE m # 0
      <4>1. m \in 1 .. n /\ m - 1 \in 0 .. n
        BY <3>2
      <4>2. g[m] = CatalogBefore(c, m) /\ g[m - 1] = CatalogBefore(c, m - 1)
        BY <4>1
      <4>3. CatalogBefore(c, m) = ReplayStep(led, CatalogBefore(c, m - 1), m)
        BY <4>1 DEF Built
      <4> HIDE DEF g
      <4> QED BY <3>2, <4>2, <4>3
    <3> QED BY <3>1, <3>2
  <2>2. g = [m \in 0 .. n |-> g[m]]
    OBVIOUS
  <2> HIDE DEF g
  <2> QED BY <2>1, <2>2 DEF Replays
<1>3. Replays(led, UpTo(led))
  BY <1>2, Zenon DEF UpTo, Replays
<1>h. PICK h : h = UpTo(led)
  OBVIOUS
<1> DEFINE Wrong == {m \in 0 .. n : h[m] # g[m]}
<1>4. Wrong = {}
  <2> SUFFICES ASSUME Wrong # {} PROVE FALSE
    OBVIOUS
  <2>1. Wrong \subseteq Nat
    OBVIOUS
  <2>2. PICK m \in Wrong : \A v \in Wrong : m <= v
    <3> HIDE DEF Wrong
    <3> QED BY <2>1, SmallestExists
  <2> HIDE DEF g
  <2>3. m \in 0 .. n /\ m \in Nat
    OBVIOUS
  <2>4. h[m] = IF m = 0 THEN <<>> ELSE ReplayStep(led, h[m - 1], m)
    BY <1>3, <1>h, <2>3 DEF Replays
  <2>5. g[m] = IF m = 0 THEN <<>> ELSE ReplayStep(led, g[m - 1], m)
    BY <1>2, <2>3 DEF Replays
  <2>6. m # 0 => h[m - 1] = g[m - 1]
    <3>1. m # 0 => m - 1 \in 0 .. n /\ ~(m <= m - 1)
      BY <2>3
    <3>2. m # 0 => m - 1 \notin Wrong
      BY <2>2, <3>1
    <3> QED BY <3>1, <3>2
  <2> QED BY <2>2, <2>4, <2>5, <2>6
<1>5. UpTo(led)[n] = g[n]
  <2>1. n \in 0 .. n
    OBVIOUS
  <2>2. h[n] = g[n]
    <3> HIDE DEF g
    <3> QED BY <1>4, <2>1
  <2> QED BY <1>h, <2>2
<1>6. g[n] = c
  <2>1. {v \in DOMAIN c : v <= n} = DOMAIN c
    <3>1. \A v \in DOMAIN c : v \in 1 .. n
      BY DEF Built
    <3>2. \A v \in DOMAIN c : v <= n
      BY <3>1
    <3> QED BY <3>2
  <2>2. g[n] = [u \in DOMAIN c |-> c[u]]
    BY <2>1 DEF CatalogBefore
  <2> QED BY <2>2 DEF Built
<1> QED BY <1>5, <1>6 DEF OfLedger

-----------------------------------------------------------------------------
(* The catalog of the ledger.                                              *)

\* A row is that of its transaction.
RowTrue(led, c, u) ==
    /\ c[u] = Catalog!SchemaRow(led[u], u, c[u].resolved)
    /\ led[u].definition \in Catalog!Definitions /\ Catalog!ParseSchema(led[u].definition)

\* A schema with its ancestors, from the root on.
Line(c, u) == Append(c[u].resolved.lineage, u)

\* The line of an ancestor is the beginning of the line, in which each extends the one
\* before, and the fields are those of all.
LineTrue(c, u) ==
    /\ \A i \in DOMAIN Line(c, u) :
         /\ Line(c, u)[i] \in DOMAIN c /\ Line(c, Line(c, u)[i]) = SubSeq(Line(c, u), 1, i)
         /\ c[Line(c, u)[i]].definition.extends = IF i = 1 THEN Catalog!None ELSE Line(c, u)[i - 1]
    /\ \A i, j \in DOMAIN Line(c, u) : i < j => Line(c, u)[i] < Line(c, u)[j]
    /\ c[u].resolved.fields = UNION {c[Line(c, u)[j]].definition.fields : j \in DOMAIN Line(c, u)}

Good(led, c) ==
    /\ Built(led, c) /\ Sound(c)
    /\ \A u \in DOMAIN c : RowTrue(led, c, u) /\ LineTrue(c, u)

\* To merge, only what comes before a row matters.
LEMMA MergeSame ==
    ASSUME NEW row, NEW other, NEW c, NEW d, NEW p,
           row.definition = other.definition, row.publisher = other.publisher, row.at = other.at,
           \A v : /\ v = row.definition.supersedes =>
                       (Catalog!Referenced(c, v, row.at) <=> Catalog!Referenced(d, v, row.at))
                  /\ Catalog!Referenced(c, v, row.at) /\ Catalog!Referenced(d, v, row.at) =>
                       c[v].publisher = d[v].publisher
    PROVE  Catalog!Merge(row, c, p) = Catalog!Merge(other, d, p)
<1>1. Catalog!Follows(row, c) <=> Catalog!Follows(other, d)
  BY DEF Catalog!Follows
<1> QED BY <1>1 DEF Catalog!Merge

\* What resolution makes of a transaction.
Accepts(t, at, c) == Catalog!Interpret(t, at, c).status = "accepted"

Resolution(t, at, c) ==
    LET row == [definition |-> t.definition, publisher |-> t.publisher, at |-> at]
    IN Catalog!Merge(row, c, KnownParent(row, c))

LEMMA InterpretIs ==
    ASSUME NEW t, NEW at, NEW c, Sound(c), Accepts(t, at, c)
    PROVE  /\ Catalog!ParseSchema(t.definition)
           /\ t \in Catalog!Transactions => t.definition \in Catalog!Definitions
           /\ Catalog!Interpret(t, at, c).resolved = Resolution(t, at, c)
           /\ Resolution(t, at, c) # Catalog!Invalid
<1> DEFINE row == [definition |-> t.definition, publisher |-> t.publisher, at |-> at]
<1>1. Catalog!Resolve(row, c) = Resolution(t, at, c)
  BY ResolveIs DEF Resolution
<1>2. /\ Catalog!ParseSchema(t.definition) /\ Catalog!Interpret(t, at, c).resolved = Resolution(t, at, c)
      /\ Resolution(t, at, c) # Catalog!Invalid
  BY <1>1 DEF Catalog!Interpret, Accepts
<1>3. ASSUME t \in Catalog!Transactions PROVE t.definition \in Catalog!Definitions
  <2>1. t.envelope \notin {"lookalike", "memo_rejected", "not_canonical"}
    BY DEF Accepts, Catalog!Interpret
  <2> QED BY <1>3, <2>1 DEF Catalog!Transactions, Catalog!Envelopes
<1> QED BY <1>2, <1>3

\* A refused transaction leaves the catalog as it is.
LEMMA GoodKept ==
    ASSUME NEW led \in Seq(Catalog!Transactions), NEW more, NEW t \in Catalog!Transactions, NEW c, Good(led, c),
           more = Append(led, t), ~Accepts(t, Len(led) + 1, c)
    PROVE  Good(more, c)
<1> DEFINE n == Len(led)
           at == n + 1
<1>1. /\ n \in Nat /\ Len(more) = at /\ more[at] = t /\ at \in Nat
      /\ \A m \in 1 .. n : more[m] = led[m]
  OBVIOUS
<1>2. DOMAIN c \subseteq 1 .. n /\ c = [u \in DOMAIN c |-> c[u]]
  BY DEF Good, Built
<1>3. Built(more, c)
  <2>1. ASSUME NEW m \in 1 .. at PROVE CatalogBefore(c, m) = ReplayStep(more, CatalogBefore(c, m - 1), m)
    <3>1. CASE m \in 1 .. n
      <4>1. CatalogBefore(c, m) = ReplayStep(led, CatalogBefore(c, m - 1), m)
        BY <3>1 DEF Good, Built
      <4> QED BY <1>1, <3>1, <4>1 DEF ReplayStep, CatalogBefore
    <3>2. CASE m = at
      <4>1. CatalogBefore(c, m) = c /\ CatalogBefore(c, m - 1) = c
        <5>1. \A v \in DOMAIN c : v <= m - 1 /\ v <= m
          <6>1. \A v \in DOMAIN c : v \in 1 .. n
            BY <1>2
          <6> QED BY <1>1, <3>2, <6>1
        <5>2. {v \in DOMAIN c : v <= m} = DOMAIN c /\ {v \in DOMAIN c : v <= m - 1} = DOMAIN c
          BY <5>1
        <5> QED BY <1>2, <5>2 DEF CatalogBefore
      <4>2. ~Accepts(more[m], m, c)
        BY <1>1, <3>2
      <4>3. ReplayStep(more, c, m) = c
        BY <4>2 DEF ReplayStep, Accepts
      <4> QED BY <4>1, <4>3
    <3> QED BY <1>1, <3>1, <3>2
  <2>2. DOMAIN c \subseteq 1 .. at
    BY SMTT(30), <1>1, <1>2
  <2> QED BY <1>1, <1>2, <2>1, <2>2 DEF Built
<1>4. \A u \in DOMAIN c : RowTrue(more, c, u)
  <2>1. \A u \in DOMAIN c : RowTrue(led, c, u) /\ more[u] = led[u]
    BY <1>1, <1>2 DEF Good
  <2> QED BY <2>1 DEF RowTrue, Catalog!SchemaRow
<1> QED BY <1>3, <1>4 DEF Good

\* A sequence with its elements in a smaller set.
LEMMA SeqNarrow ==
    ASSUME NEW S, NEW k \in Seq(S), NEW T, \A i \in DOMAIN k : k[i] \in T
    PROVE  k \in Seq(T)
OBVIOUS

\* A line ends with its schema.
LEMMA LineIs ==
    ASSUME NEW c, Sound(c), NEW u \in DOMAIN c
    PROVE  /\ Line(c, u) \in Seq(DOMAIN c) /\ Len(Line(c, u)) = Len(c[u].resolved.lineage) + 1
           /\ Len(c[u].resolved.lineage) \in Nat /\ DOMAIN Line(c, u) = 1 .. Len(Line(c, u))
           /\ Line(c, u)[Len(Line(c, u))] = u /\ Line(c, u) # <<>>
           /\ \A i \in DOMAIN Line(c, u) : Line(c, u)[i] \in DOMAIN c
<1> DEFINE k == c[u].resolved.lineage
<1>1. k \in Seq(DOMAIN c)
  BY DEF Sound, RowSound
<1>2. Line(c, u) = Append(k, u)
  BY DEF Line
<1> HIDE DEF k
<1>3. Line(c, u) \in Seq(DOMAIN c) /\ Len(Line(c, u)) = Len(k) + 1 /\ Len(k) \in Nat
  BY <1>1, <1>2
<1>4. Line(c, u)[Len(Line(c, u))] = u /\ Line(c, u) # <<>>
  BY <1>1, <1>2
<1> QED BY <1>3, <1>4 DEF k

\* The beginning of a longer sequence.
LEMMA BeginningOfAppend ==
    ASSUME NEW S, NEW k \in Seq(S), NEW x, NEW i \in 1 .. Len(k)
    PROVE  SubSeq(Append(k, x), 1, i) = SubSeq(k, 1, i)
OBVIOUS

\* The union of one set more.
LEMMA UnionAdd ==
    ASSUME NEW A, NEW x
    PROVE  UNION (A \cup {x}) = (UNION A) \cup x
<1>1. \A y : y \in UNION (A \cup {x}) <=> y \in (UNION A) \cup x
  OBVIOUS
<1> QED BY <1>1

\* What an accepted one adds.
Added(t, at, c) == Catalog!With(c, at, Catalog!SchemaRow(t, at, Catalog!Interpret(t, at, c).resolved))

\* An accepted transaction adds a schema to the catalog.
LEMMA GoodGrows ==
    ASSUME NEW led \in Seq(Catalog!Transactions), NEW more, NEW t \in Catalog!Transactions, NEW c, Good(led, c),
           more = Append(led, t), Len(led) < MaxRegistrations, NEW at, at = Len(led) + 1,
           Accepts(t, at, c), NEW d, d = Added(t, at, c)
    PROVE  Good(more, d)
<1> DEFINE n == Len(led)
           r == Resolution(t, at, c)
           row == [definition |-> t.definition, publisher |-> t.publisher, at |-> at]
           new == Catalog!SchemaRow(t, at, r)
           e == t.definition.extends
<1>1. /\ n \in Nat /\ Len(more) = at /\ more[at] = t /\ at \in Catalog!Positions
      /\ at \in Nat /\ at = n + 1
      /\ \A m \in 1 .. n : more[m] = led[m]
  BY DEF Catalog!Positions
<1>2. /\ DOMAIN c \subseteq 1 .. n /\ c = [u \in DOMAIN c |-> c[u]]
      /\ \A u \in DOMAIN c : u \in Nat /\ u < at /\ u # at
  <2>1. DOMAIN c \subseteq 1 .. n /\ c = [u \in DOMAIN c |-> c[u]]
    BY DEF Good, Built
  <2>2. \A u \in DOMAIN c : u \in 1 .. n
    BY <2>1
  <2> QED BY SMTT(30), <1>1, <2>1, <2>2
<1>3. /\ Catalog!ParseSchema(t.definition) /\ t.definition \in Catalog!Definitions
      /\ Catalog!Interpret(t, at, c).resolved = r /\ r # Catalog!Invalid
  BY InterpretIs DEF Good
<1>4. /\ d = [u \in DOMAIN c \cup {at} |-> IF u = at THEN new ELSE c[u]]
      /\ DOMAIN d = DOMAIN c \cup {at} /\ d[at] = new
      /\ \A u \in DOMAIN c : d[u] = c[u]
  BY <1>2, <1>3 DEF Added, Catalog!With
<1>5. /\ new.definition = t.definition /\ new.publisher = t.publisher /\ new.at = at
      /\ new.resolved = r
  BY DEF Catalog!SchemaRow
<1>6. Built(more, d)
  <2>1. ASSUME NEW m \in 1 .. at PROVE CatalogBefore(d, m) = ReplayStep(more, CatalogBefore(d, m - 1), m)
    <3>1. CASE m \in 1 .. n
      <4>1. CatalogBefore(c, m) = ReplayStep(led, CatalogBefore(c, m - 1), m)
        BY <3>1 DEF Good, Built
      <4>2. CatalogBefore(d, m) = CatalogBefore(c, m) /\ CatalogBefore(d, m - 1) = CatalogBefore(c, m - 1)
        <5>1. {v \in DOMAIN d : v <= m} = {v \in DOMAIN c : v <= m}
          BY <1>1, <1>4, <3>1
        <5>2. {v \in DOMAIN d : v <= m - 1} = {v \in DOMAIN c : v <= m - 1}
          BY <1>1, <1>4, <3>1
        <5> HIDE DEF new
        <5> QED BY <1>4, <5>1, <5>2 DEF CatalogBefore
      <4> QED BY <1>1, <3>1, <4>1, <4>2 DEF ReplayStep
    <3>2. CASE m = at
      <4>1. CatalogBefore(d, m) = d /\ CatalogBefore(d, m - 1) = c
        <5>0. /\ \A v \in DOMAIN c : v <= m - 1 /\ v <= m
              /\ at <= m /\ ~(at <= m - 1)
          BY SMTT(30), <1>1, <1>2, <3>2
        <5>1. {v \in DOMAIN d : v <= m} = DOMAIN d
          BY <1>4, <5>0
        <5>2. {v \in DOMAIN d : v <= m - 1} = DOMAIN c
          BY <1>4, <5>0
        <5> HIDE DEF new
        <5>3. CatalogBefore(d, m) = d
          BY <1>4, <5>1 DEF CatalogBefore
        <5>4. CatalogBefore(d, m - 1) = [u \in DOMAIN c |-> c[u]]
          BY <1>4, <5>2 DEF CatalogBefore
        <5> QED BY <1>2, <5>3, <5>4
      <4>2. Accepts(more[m], m, c) /\ more[m] = t
        BY <1>1, <3>2
      <4>3. ReplayStep(more, c, m) = d
        BY <3>2, <4>2 DEF ReplayStep, Accepts, Added
      <4> QED BY <4>1, <4>3
    <3> QED BY <1>1, <3>1, <3>2
  <2>2. DOMAIN d \subseteq 1 .. at
    BY SMTT(30), <1>1, <1>2, <1>4
  <2>3. d = [u \in DOMAIN d |-> d[u]]
    <3> HIDE DEF new
    <3> QED BY <1>4
  <2> QED BY <1>1, <2>1, <2>2, <2>3 DEF Built
<1>7. /\ Mergeable(row, c, KnownParent(row, c)) /\ r = MergedInto(row, KnownParent(row, c))
      /\ row.definition = t.definition /\ row.publisher = t.publisher /\ row.at = at
  BY SMTT(30), <1>3, MergeIs DEF Resolution
<1>8. e # Catalog!None => /\ e \in DOMAIN c /\ e < at /\ c[e].at = e
                  /\ Len(c[e].resolved.lineage) < MaxDepth - 1
                  /\ KnownParent(row, c) = c[e].resolved
  <2> SUFFICES ASSUME e # Catalog!None
               PROVE  /\ e \in DOMAIN c /\ e < at /\ c[e].at = e
                      /\ Len(c[e].resolved.lineage) < MaxDepth - 1
                      /\ KnownParent(row, c) = c[e].resolved
    BY SMTT(30)
  <2>1. Catalog!Referenced(c, e, at) /\ Len(c[e].resolved.lineage) < MaxDepth - 1
    BY <1>7 DEF KnownParent, Mergeable
  <2>2. KnownParent(row, c) = c[e].resolved
    BY <2>1, <1>7 DEF KnownParent
  <2>3. e \in DOMAIN c /\ RowSound(c, e)
    BY <2>1 DEF Catalog!Referenced, Good, Sound
  <2> QED BY <1>2, <2>1, <2>2, <2>3 DEF RowSound
<1>9. e = Catalog!None => KnownParent(row, c) = Catalog!Root
  BY <1>7 DEF KnownParent
<1>10. StoredParent(d[at], d) = KnownParent(row, c)
  <2> HIDE DEF new, row
  <2> QED BY <1>4, <1>5, <1>8, <1>9 DEF StoredParent
<1>11. r.definition = t.definition /\ r.fields = KnownParent(row, c).fields \cup t.definition.fields
  BY <1>7 DEF MergedInto
<1>12. r.lineage = IF e = Catalog!None THEN <<>> ELSE Append(c[e].resolved.lineage, e)
  <2>1. r.lineage = IF e = Catalog!None THEN <<>> ELSE Append(KnownParent(row, c).lineage, e)
    <3> HIDE DEF row, r
    <3> QED BY <1>7 DEF MergedInto
  <2> HIDE DEF r
  <2> QED BY <1>8, <2>1
<1> HIDE DEF new, r, row
<1>13. Sound(d)
  <2>1. ASSUME NEW u \in DOMAIN c PROVE RowSound(d, u)
    <3>1. RowSound(c, u) /\ d[u] = c[u] /\ u < at
      BY <1>2, <1>4 DEF Good, Sound
    <3>2. StoredParent(d[u], d) = StoredParent(c[u], c)
      BY <1>4, <3>1 DEF StoredParent, RowSound
    <3>3. \A v : Catalog!Referenced(c, v, u) <=> Catalog!Referenced(d, v, u)
      <4>1. ~(at < u)
        BY SMTT(30), <1>1, <1>2, <3>1
      <4> QED BY <1>4, <1>5, <4>1 DEF Catalog!Referenced
    <3>4. \A v : Catalog!Referenced(c, v, u) => c[v].publisher = d[v].publisher
      BY <1>4 DEF Catalog!Referenced
    <3>5. Catalog!Merge(d[u], d, StoredParent(d[u], d)) = Catalog!Merge(c[u], c, StoredParent(c[u], c))
      BY SMTT(30), <3>1, <3>2, <3>3, <3>4, MergeSame DEF RowSound
    <3>6. \A v \in DOMAIN c : d[v] = c[v] /\ v \in DOMAIN d
      BY <1>4
    <3>7. c[u].resolved.lineage \in Seq(DOMAIN d)
      <4>1. c[u].resolved.lineage \in Seq(DOMAIN c)
        BY SMTT(30), <3>1 DEF RowSound
      <4> QED BY <3>6, <4>1
    <3> QED BY <3>1, <3>5, <3>6, <3>7 DEF RowSound
  <2>2. RowSound(d, at)
    <3>1. \A v : Catalog!Referenced(c, v, at) <=> Catalog!Referenced(d, v, at)
      <4>1. \A v \in DOMAIN c : d[v] = c[v]
        BY <1>4
      <4>2. d[at].at = at /\ ~(at < at)
        BY <1>1, <1>4, <1>5
      <4>3. at \notin DOMAIN c
        BY <1>2
      <4> QED BY <1>4, <4>1, <4>2, <4>3 DEF Catalog!Referenced
    <3>2. \A v : Catalog!Referenced(c, v, at) => c[v].publisher = d[v].publisher
      BY <1>4 DEF Catalog!Referenced
    <3>3. Catalog!Merge(d[at], d, KnownParent(row, c)) = Catalog!Merge(row, c, KnownParent(row, c))
      <4>1. d[at].definition = row.definition /\ d[at].publisher = row.publisher /\ d[at].at = row.at /\ row.at = at
        BY <1>4, <1>5, <1>7
      <4>2. \A v : /\ v = d[at].definition.supersedes =>
                          (Catalog!Referenced(d, v, d[at].at) <=> Catalog!Referenced(c, v, d[at].at))
                   /\ Catalog!Referenced(d, v, d[at].at) /\ Catalog!Referenced(c, v, d[at].at) =>
                          d[v].publisher = c[v].publisher
        BY ONLY <3>1, <3>2, <4>1
      <4> QED BY ONLY <4>1, <4>2, MergeSame
    <3>4. Catalog!Merge(row, c, KnownParent(row, c)) = r
      BY DEF r, row, Resolution
    <3>5. /\ e # Catalog!None => e \in DOMAIN d /\ Len(d[e].resolved.lineage) < MaxDepth - 1
          /\ d[at].resolved = r /\ d[at].definition = t.definition
      BY <1>4, <1>5, <1>8
    <3>6. r.lineage \in Seq(DOMAIN d) /\ \A i \in DOMAIN r.lineage : r.lineage[i] < at
      <4>1. CASE e = Catalog!None
        BY <1>12, <4>1
      <4>2. CASE e # Catalog!None
        <5> DEFINE k == c[e].resolved.lineage
        <5>1. RowSound(c, e) /\ e \in DOMAIN d /\ e < at /\ e \in Nat
          BY <1>2, <1>4, <1>8, <4>2 DEF Good, Sound
        <5>2. k \in Seq(DOMAIN c) /\ \A i \in DOMAIN k : k[i] < e /\ k[i] \in DOMAIN c
          <6>1. k \in Seq(DOMAIN c) /\ \A i \in DOMAIN k : k[i] < e
            BY ONLY ZenonT(40), <5>1 DEF RowSound
          <6> HIDE DEF k
          <6> QED BY ONLY <6>1
        <5>3. r.lineage = Append(k, e)
          BY <1>12, <4>2
        <5>4. \A i \in DOMAIN k : k[i] < at /\ k[i] \in DOMAIN d
          BY <1>2, <1>4, <5>2
        <5>5. k \in Seq(DOMAIN d)
          BY <5>2, <5>4, SeqNarrow
        <5> HIDE DEF k
        <5> QED BY <5>1, <5>3, <5>4, <5>5
      <4> QED BY <4>1, <4>2
    <3> QED BY <1>3, <1>4, <1>5, <1>8, <1>10, <3>3, <3>4, <3>5, <3>6 DEF RowSound
  <2>3. DOMAIN d \subseteq Catalog!Positions
    BY <1>1, <1>4 DEF Good, Sound
  <2> QED BY SMTT(30), <1>4, <2>1, <2>2, <2>3 DEF Sound
<1>14. \A u \in DOMAIN d : RowTrue(more, d, u)
  <2>1. ASSUME NEW u \in DOMAIN c PROVE RowTrue(more, d, u)
    <3>1. RowTrue(led, c, u) /\ more[u] = led[u] /\ d[u] = c[u]
      BY <1>1, <1>2, <1>4 DEF Good
    <3> QED BY <3>1 DEF RowTrue, Catalog!SchemaRow
  <2>2. RowTrue(more, d, at)
    <3>1. new = Catalog!SchemaRow(t, at, new.resolved)
      BY <1>5 DEF new
    <3> QED BY <1>1, <1>3, <1>4, <3>1 DEF RowTrue, Catalog!SchemaRow
  <2> QED BY <1>4, <2>1, <2>2
<1>15. \A u \in DOMAIN d : LineTrue(d, u)
  <2>1. ASSUME NEW u \in DOMAIN c PROVE LineTrue(d, u)
    <3>1. LineTrue(c, u) /\ \A v \in DOMAIN c : d[v] = c[v] /\ Line(d, v) = Line(c, v)
      BY <1>4 DEF Good, Line
    <3>2. \A i \in DOMAIN Line(c, u) : Line(c, u)[i] \in DOMAIN c
      BY LineIs DEF Good
    <3>3. \A i \in DOMAIN Line(c, u) : /\ d[Line(c, u)[i]] = c[Line(c, u)[i]]
                                       /\ Line(d, Line(c, u)[i]) = Line(c, Line(c, u)[i])
                                       /\ Line(c, u)[i] \in DOMAIN d
      BY <1>4, <3>1, <3>2
    <3>4. UNION {d[Line(c, u)[j]].definition.fields : j \in DOMAIN Line(c, u)}
            = UNION {c[Line(c, u)[j]].definition.fields : j \in DOMAIN Line(c, u)}
      BY <3>3
    <3> DEFINE K == Line(c, u)
    <3>5. Line(d, u) = K /\ d[u] = c[u]
      BY <3>1
    <3>6. /\ \A i \in DOMAIN K :
               /\ Line(c, K[i]) = SubSeq(K, 1, i)
               /\ c[K[i]].definition.extends = IF i = 1 THEN Catalog!None ELSE K[i - 1]
          /\ \A i, j \in DOMAIN K : i < j => K[i] < K[j]
          /\ c[u].resolved.fields = UNION {c[K[j]].definition.fields : j \in DOMAIN K}
      BY <3>1 DEF LineTrue
    <3>7. \A i \in DOMAIN K :
             /\ K[i] \in DOMAIN d /\ Line(d, K[i]) = SubSeq(K, 1, i)
             /\ d[K[i]].definition.extends = IF i = 1 THEN Catalog!None ELSE K[i - 1]
      BY <3>3, <3>6
    <3> HIDE DEF K
    <3>8. d[u].resolved.fields = UNION {d[K[j]].definition.fields : j \in DOMAIN K}
      BY <3>4, <3>5, <3>6 DEF K
    <3> QED BY <3>5, <3>6, <3>7, <3>8 DEF LineTrue
  <2>2. LineTrue(d, at)
    <3> DEFINE L == Line(d, at)
    <3>1. d[at].resolved = r /\ d[at].definition = t.definition
      BY <1>4, <1>5
    <3>2. CASE e = Catalog!None
      <4>1. L = <<at>>
        <5>1. r.lineage = <<>>
          BY <1>12, <3>2
        <5>2. L = Append(<<>>, at)
          BY <3>1, <5>1 DEF Line
        <5> HIDE DEF L
        <5> QED BY <5>2
      <4>2. KnownParent(row, c).fields = {}
        BY <1>9, <3>2 DEF Catalog!Root
      <4> HIDE DEF L
      <4>3. \A i \in DOMAIN L : i = 1 /\ L[i] = at /\ SubSeq(L, 1, i) = L
        <5>1. L \in Seq({at}) /\ Len(L) = 1 /\ DOMAIN L = {1} /\ L[1] = at
          BY <4>1
        <5>2. SubSeq(L, 1, 1) = L
          BY <5>1
        <5> QED BY <5>1, <5>2
      <4>4. UNION {d[L[j]].definition.fields : j \in DOMAIN L} = t.definition.fields
        <5>1. {d[L[j]].definition.fields : j \in DOMAIN L} = {t.definition.fields}
          BY <3>1, <4>1
        <5> QED BY <5>1
      <4>5. L = Line(d, at) /\ at \in DOMAIN d
        BY <1>4 DEF L
      <4>6. r.fields = UNION {d[L[j]].definition.fields : j \in DOMAIN L}
        BY <1>11, <4>2, <4>4
      <4>7. \A i \in DOMAIN L :
               /\ L[i] \in DOMAIN d /\ Line(d, L[i]) = SubSeq(L, 1, i)
               /\ d[L[i]].definition.extends = IF i = 1 THEN Catalog!None ELSE L[i - 1]
        <5>1. d[at].definition.extends = Catalog!None
          BY <3>1, <3>2
        <5> TAKE i \in DOMAIN L
        <5>2. i = 1 /\ L[i] = at /\ SubSeq(L, 1, i) = L
          BY <4>3
        <5>3. L[i] \in DOMAIN d /\ Line(d, L[i]) = L
          BY ONLY <4>5, <5>2
        <5>4. d[L[i]].definition.extends = Catalog!None
          BY ONLY <5>1, <5>2
        <5> QED BY ONLY <5>2, <5>3, <5>4
      <4>8. \A i, j \in DOMAIN L : i < j => L[i] < L[j]
        BY <4>3
      <4> QED BY <3>1, <4>5, <4>6, <4>7, <4>8 DEF LineTrue
    <3>3. CASE e # Catalog!None
      <4> DEFINE K == Line(c, e)
      <4>1. /\ K \in Seq(DOMAIN c) /\ K # <<>> /\ DOMAIN K = 1 .. Len(K) /\ K[Len(K)] = e
            /\ Len(K) \in Nat /\ LineTrue(c, e)
            /\ \A i \in DOMAIN K : K[i] \in DOMAIN c
        <5>1. e \in DOMAIN c /\ Sound(c) /\ LineTrue(c, e)
          BY <1>8, <3>3 DEF Good
        <5>2. /\ K \in Seq(DOMAIN c) /\ K # <<>> /\ DOMAIN K = 1 .. Len(K) /\ K[Len(K)] = e
              /\ \A i \in DOMAIN K : K[i] \in DOMAIN c
          BY ONLY <5>1, LineIs
        <5> HIDE DEF K
        <5> QED BY <5>1, <5>2
      <4>2. r.lineage = K
        BY ONLY <1>12, <3>3 DEF Line
      <4>3. L = Append(K, at)
        BY <3>1, <4>2 DEF Line
      <4>4. LineTrue(c, e)
        BY <4>1
      <4>5. /\ \A i \in DOMAIN K :
                 /\ Line(c, K[i]) = SubSeq(K, 1, i)
                 /\ c[K[i]].definition.extends = IF i = 1 THEN Catalog!None ELSE K[i - 1]
            /\ \A i, j \in DOMAIN K : i < j => K[i] < K[j]
            /\ c[e].resolved.fields = UNION {c[K[j]].definition.fields : j \in DOMAIN K}
        BY <4>4 DEF LineTrue
      <4>6. \A v \in DOMAIN c : d[v] = c[v] /\ Line(d, v) = Line(c, v) /\ v \in DOMAIN d
        BY <1>4 DEF Line
      <4>7. \A i \in DOMAIN K : K[i] < at
        BY <1>2, <4>1
      <4> DEFINE n1 == Len(K) + 1
      <4> HIDE DEF L, K
      <4>8. /\ Len(L) = n1 /\ DOMAIN L = 1 .. n1 /\ L[n1] = at /\ n1 \in Nat /\ n1 # 1
            /\ \A i \in DOMAIN K : L[i] = K[i] /\ i \in DOMAIN L /\ i # n1
            /\ \A i \in DOMAIN L : i \in DOMAIN K \/ i = n1
        BY <4>1, <4>3
      <4>9. \A i \in DOMAIN K : SubSeq(L, 1, i) = SubSeq(K, 1, i)
        BY SMTT(30), <4>1, <4>3, BeginningOfAppend
      <4>10. SubSeq(L, 1, n1) = L
        BY <4>1, <4>3, <4>8
      <4>11. L = Line(d, at) /\ at \in DOMAIN d /\ Line(d, L[n1]) = L
        BY <1>4, <4>8 DEF L
      <4>12. \A i \in DOMAIN L : L[i] \in DOMAIN d /\ Line(d, L[i]) = SubSeq(L, 1, i)
        <5> TAKE i \in DOMAIN L
        <5>1. CASE i \in DOMAIN K
          <6>1. L[i] = K[i] /\ K[i] \in DOMAIN c
            BY <4>1, <4>8, <5>1
          <6>2. Line(c, K[i]) = SubSeq(K, 1, i) /\ SubSeq(L, 1, i) = SubSeq(K, 1, i)
            BY <4>5, <4>9, <5>1
          <6>3. K[i] \in DOMAIN d /\ Line(d, K[i]) = Line(c, K[i])
            BY <4>6, <6>1
          <6> QED BY ONLY <6>1, <6>2, <6>3
        <5>2. CASE i = n1
          BY <4>8, <4>10, <4>11, <5>2
        <5> QED BY <4>8, <5>1, <5>2
      <4>13. \A i \in DOMAIN L : d[L[i]].definition.extends = IF i = 1 THEN Catalog!None ELSE L[i - 1]
        <5>1. d[L[n1]].definition.extends = L[n1 - 1]
          <6>1. n1 - 1 = Len(K) /\ n1 - 1 \in DOMAIN K
            BY <4>1, <4>8
          <6> QED BY <3>1, <4>1, <4>8, <6>1
        <5>2. \A i \in DOMAIN K : i # 1 => i - 1 \in DOMAIN K
          BY <4>1
        <5> QED BY SMTT(30), <4>1, <4>5, <4>6, <4>8, <5>1, <5>2
      <4>14. \A i, j \in DOMAIN L : i < j => L[i] < L[j]
        <5>1. \A i, j \in DOMAIN L : i < j => i \in DOMAIN K
          BY <4>1, <4>8
        <5>2. \A i \in DOMAIN K : L[i] < L[n1]
          BY <4>7, <4>8
        <5>3. \A i, j \in DOMAIN K : i < j => L[i] < L[j]
          BY <4>5, <4>8
        <5> HIDE DEF n1
        <5> QED BY <4>8, <5>1, <5>2, <5>3
      <4>15. r.fields = UNION {d[L[j]].definition.fields : j \in DOMAIN L}
        <5>1. r.fields = c[e].resolved.fields \cup t.definition.fields
          BY <1>8, <1>11, <3>3
        <5>2. UNION {d[L[j]].definition.fields : j \in DOMAIN L}
                = (UNION {c[K[j]].definition.fields : j \in DOMAIN K}) \cup t.definition.fields
          <6>1. \A j \in DOMAIN K : d[L[j]].definition.fields = c[K[j]].definition.fields
            BY <4>1, <4>6, <4>8
          <6>2. d[L[n1]].definition.fields = t.definition.fields
            BY <3>1, <4>8
          <6>3. DOMAIN L = DOMAIN K \cup {n1}
            BY <4>1, <4>8
          <6> HIDE DEF n1
          <6>4. {d[L[j]].definition.fields : j \in DOMAIN L}
                  = {c[K[j]].definition.fields : j \in DOMAIN K} \cup {t.definition.fields}
            BY SMTT(30), <6>1, <6>2, <6>3
          <6> QED BY <6>4, UnionAdd
        <5>3. c[e].resolved.fields = UNION {c[K[j]].definition.fields : j \in DOMAIN K}
          BY <4>5
        <5> DEFINE all == UNION {d[L[j]].definition.fields : j \in DOMAIN L}
                   some == UNION {c[K[j]].definition.fields : j \in DOMAIN K}
        <5>4. all = some \cup t.definition.fields
          BY Zenon, <5>2
        <5>6. c[e].resolved.fields = some
          BY Zenon, <5>3
        <5> HIDE DEF all, some
        <5>5. r.fields = all
          BY <5>1, <5>4, <5>6
        <5> QED BY <5>5 DEF all
      <4> QED BY <3>1, <4>11, <4>12, <4>13, <4>14, <4>15 DEF LineTrue
    <3> QED BY <3>2, <3>3
  <2> QED BY <1>4, <2>1, <2>2
<1> QED BY <1>6, <1>13, <1>14, <1>15 DEF Good

-----------------------------------------------------------------------------
(* The invariant of the tables.                                            *)

\* The event of a transaction, as it was written.
EventTrue(at) ==
    registrations[at] = Catalog!EventRow(chain[at], at, IF at \in DOMAIN schemas THEN "accepted" ELSE "rejected")

\* What a fault leaves of a row.
Readable(u) ==
    /\ schemas[u].uid = u /\ schemas[u].definition \in Catalog!Definitions
    /\ schemas[u].resolved.lineage \in Seq(DOMAIN schemas)

\* The schemas of the ledger, which the tables hold until a row has a fault.
TablesInv ==
    /\ chain \in Seq(Catalog!Transactions) /\ Len(chain) <= MaxRegistrations /\ corrupt \in BOOLEAN
    /\ Good(chain, Catalog!Replayed)
    /\ DOMAIN schemas = DOMAIN Catalog!Replayed /\ DOMAIN schemas \subseteq DOMAIN registrations
    /\ DOMAIN registrations \subseteq DOMAIN chain
    /\ \A u \in DOMAIN schemas : Readable(u)
    /\ ~corrupt => schemas = Catalog!Replayed /\ \A at \in DOMAIN registrations : EventTrue(at)

\* So the schemas of the ledger are those of a good catalog.
LEMMA GoodIsReplayed ==
    ASSUME NEW led, Len(led) \in Nat, NEW c, Good(led, c)
    PROVE  OfLedger(led) = c
BY ReplayedIs DEF Good

LEMMA InitTables == Catalog!Init => TablesInv
<1> SUFFICES ASSUME Catalog!Init PROVE TablesInv
  OBVIOUS
<1>1. /\ chain = <<>> /\ schemas = <<>> /\ registrations = <<>> /\ corrupt = FALSE
      /\ DOMAIN schemas = {} /\ DOMAIN registrations = {} /\ Len(chain) = 0
  BY DEF Catalog!Init
<1>2. Built(chain, schemas)
  BY <1>1 DEF Built
<1>3. Good(chain, schemas)
  BY <1>1, <1>2 DEF Good, Sound
<1>4. Catalog!Replayed = schemas
  BY <1>1, <1>3, GoodIsReplayed, ReplayedUpTo
<1>5. Good(chain, Catalog!Replayed)
  BY <1>3, <1>4
<1>6. chain \in Seq(Catalog!Transactions) /\ DOMAIN chain = {}
  BY <1>1
<1>7. Len(chain) <= MaxRegistrations /\ corrupt \in BOOLEAN
  <2>1. Len(chain) <= MaxRegistrations
    BY <1>1
  <2>2. corrupt \in BOOLEAN
    BY Zenon, <1>1
  <2> QED BY <2>1, <2>2
<1> QED BY <1>1, <1>4, <1>5, <1>6, <1>7 DEF TablesInv

\* A transaction keeps it.
LEMMA RegisterTables ==
    ASSUME TablesInv, NEW t \in Catalog!Transactions, Catalog!Register(t)
    PROVE  TablesInv'
<1> DEFINE at == Len(chain) + 1
           result == Catalog!Interpret(t, at, schemas)
<1>1. /\ Len(chain) < MaxRegistrations /\ ~corrupt /\ chain' = Append(chain, t) /\ corrupt' = corrupt
      /\ registrations' = IF result.status = "none" THEN registrations
                   ELSE Catalog!With(registrations, at, Catalog!EventRow(t, at, result.status))
      /\ schemas' = IF result.status = "accepted"
                    THEN Catalog!With(schemas, at, Catalog!SchemaRow(t, at, result.resolved)) ELSE schemas
  BY DEF Catalog!Register, Catalog!Open
<1>2. /\ chain \in Seq(Catalog!Transactions) /\ schemas = Catalog!Replayed /\ Good(chain, Catalog!Replayed)
      /\ DOMAIN schemas \subseteq DOMAIN registrations /\ DOMAIN registrations \subseteq 1 .. Len(chain)
      /\ \A u \in DOMAIN schemas : Readable(u)
      /\ \A a \in DOMAIN registrations : EventTrue(a)
  BY <1>1 DEF TablesInv
<1>3. /\ chain' \in Seq(Catalog!Transactions) /\ Len(chain') = at /\ at \in Nat /\ Len(chain') <= MaxRegistrations
      /\ DOMAIN chain' = 1 .. at /\ chain'[at] = t /\ Len(chain) \in Nat /\ at \notin DOMAIN registrations
      /\ 1 .. Len(chain) \subseteq 1 .. at /\ at \in 1 .. at
      /\ \A n \in 1 .. Len(chain) : chain'[n] = chain[n]
  BY <1>1, <1>2
<1>4. result.status \in {"none", "rejected", "accepted"}
  BY DEF Catalog!Interpret
<1>5. PICK c : c = schemas
  OBVIOUS
<1>6. PICK d : d = schemas'
  OBVIOUS
<1>7. PICK n : n = at
  OBVIOUS
<1>0. PICK l : l = chain'
  OBVIOUS
<1>8. Good(l, d)
  <2>1. CASE Accepts(t, n, c)
    <3>1. d = Added(t, n, c)
      BY <1>1, <1>5, <1>6, <1>7, <2>1 DEF Accepts, Added
    <3> QED BY <1>0, <1>1, <1>2, <1>5, <1>7, <2>1, <3>1, GoodGrows
  <2>2. CASE ~Accepts(t, n, c)
    <3>1. d = c
      BY <1>1, <1>5, <1>6, <1>7, <2>2 DEF Accepts
    <3> QED BY <1>0, <1>1, <1>2, <1>5, <1>7, <2>2, <3>1, GoodKept
  <2> QED BY <2>1, <2>2
<1>9. Catalog!Replayed' = d
  BY <1>0, <1>3, <1>8, GoodIsReplayed, ReplayedUpTo
<1>10. Good(chain, Catalog!Replayed)'
  BY <1>0, <1>8, <1>9
<1> HIDE DEF at, result
<1>11. CASE result.status = "none"
  <2>1. registrations' = registrations /\ schemas' = schemas
    BY <1>1, <1>11
  <2>4. \A u \in DOMAIN schemas' : Readable(u)'
    BY <1>2, <2>1 DEF Readable
  <2>2. \A a \in DOMAIN registrations' : EventTrue(a)'
    BY <1>2, <1>3, <2>1 DEF EventTrue, Catalog!EventRow
  <2>3. DOMAIN registrations' \subseteq DOMAIN chain'
    BY <1>2, <1>3, <2>1
  <2> QED BY <1>1, <1>2, <1>3, <1>6, <1>9, <1>10, <2>1, <2>2, <2>3, <2>4 DEF TablesInv
<1>12. CASE result.status = "rejected"
  <2>1. /\ schemas' = schemas /\ DOMAIN registrations' = DOMAIN registrations \cup {at}
        /\ registrations'[at] = Catalog!EventRow(t, at, "rejected")
        /\ \A a \in DOMAIN registrations : registrations'[a] = registrations[a]
    BY <1>1, <1>3, <1>12 DEF Catalog!With
  <2>2. at \notin DOMAIN schemas
    BY <1>2, <1>3
  <2>3. \A a \in DOMAIN registrations' : EventTrue(a)'
    BY <1>2, <1>3, <2>1, <2>2 DEF EventTrue, Catalog!EventRow
  <2>4. DOMAIN registrations' \subseteq DOMAIN chain' /\ DOMAIN schemas \subseteq DOMAIN registrations'
    BY <1>2, <1>3, <2>1
  <2>5. \A u \in DOMAIN schemas' : Readable(u)'
    BY <1>2, <2>1 DEF Readable
  <2> QED BY <1>1, <1>2, <1>3, <1>6, <1>9, <1>10, <2>1, <2>3, <2>4, <2>5 DEF TablesInv
<1>13. CASE result.status = "accepted"
  <2>1. /\ DOMAIN registrations' = DOMAIN registrations \cup {at}
        /\ registrations'[at] = Catalog!EventRow(t, at, "accepted")
        /\ \A a \in DOMAIN registrations : registrations'[a] = registrations[a]
    BY <1>1, <1>3, <1>13 DEF Catalog!With
  <2>2. /\ DOMAIN schemas' = DOMAIN schemas \cup {at}
        /\ schemas'[at] = Catalog!SchemaRow(t, at, result.resolved)
        /\ \A u \in DOMAIN schemas : schemas'[u] = schemas[u]
    BY <1>1, <1>2, <1>3, <1>13 DEF Catalog!With
  <2>3. \A a \in DOMAIN registrations' : EventTrue(a)'
    BY <1>2, <1>3, <2>1, <2>2 DEF EventTrue, Catalog!EventRow
  <2>4. DOMAIN registrations' \subseteq DOMAIN chain' /\ DOMAIN schemas' \subseteq DOMAIN registrations'
    BY <1>2, <1>3, <2>1, <2>2
  <2>5. t.definition \in Catalog!Definitions
    <3>1. Accepts(t, n, c) /\ Sound(c)
      BY <1>2, <1>5, <1>7, <1>13 DEF Accepts, result, at, Good
    <3> QED BY <3>1, InterpretIs
  <2>6. \A u \in DOMAIN schemas' : Readable(u)'
    <3>1. \A u \in DOMAIN schemas' : schemas'[u].uid = u /\ schemas'[u].definition \in Catalog!Definitions
      BY <1>2, <2>2, <2>5 DEF Catalog!SchemaRow, Readable
    <3>2. \A u \in DOMAIN schemas' : schemas'[u].resolved.lineage \in Seq(DOMAIN schemas')
      <4>1. \A u \in DOMAIN d : d[u].resolved.lineage \in Seq(DOMAIN d)
        BY <1>8 DEF Good, Sound, RowSound
      <4> QED BY <1>6, <4>1
    <3> QED BY <3>1, <3>2 DEF Readable
  <2> QED BY <1>1, <1>2, <1>3, <1>6, <1>9, <1>10, <2>3, <2>4, <2>6 DEF TablesInv
<1> QED BY <1>4, <1>11, <1>12, <1>13

\* As long as the ledger does not grow, its schemas stay.
LEMMA ReplayedStays ==
    ASSUME TablesInv, chain' = chain
    PROVE  Catalog!Replayed' = Catalog!Replayed /\ Good(chain, Catalog!Replayed)'
<1>1. Catalog!Replayed' = Catalog!Replayed
  BY ReplayedUpTo
<1> QED BY <1>1 DEF TablesInv

\* A fault leaves a row its key, a definition and a list of ancestors.
LEMMA FaultyRow ==
    ASSUME NEW u \in DOMAIN schemas, Readable(u), NEW row \in Catalog!Corruptions(schemas[u])
    PROVE  /\ row.uid = u /\ row.definition \in Catalog!Definitions
           /\ row.resolved.lineage \in Seq(DOMAIN schemas)
<1>0. PICK r : r = schemas[u]
  OBVIOUS
<1>1. PICK x : \/ row = [r EXCEPT !.publisher = x] \/ row = [r EXCEPT !.parent = x]
               \/ row = [r EXCEPT !.supersedes = x] \/ row = [r EXCEPT !.at = x]
               \/ row = [r EXCEPT !.tx = x] \/ row = [r EXCEPT !.resolved.fields = x]
               \/ x \in Seq(DOMAIN schemas) /\ row = [r EXCEPT !.resolved.lineage = x]
               \/ x \in (SUBSET FieldNames) \ {{}} /\ row = [r EXCEPT !.definition.fields = x]
  <2>1. \A x : x \in {<<>>} \cup {<<v>> : v \in DOMAIN schemas} => x \in Seq(DOMAIN schemas)
    <3>1. <<>> \in Seq(DOMAIN schemas)
      OBVIOUS
    <3>2. ASSUME NEW v \in DOMAIN schemas PROVE <<v>> \in Seq(DOMAIN schemas)
      OBVIOUS
    <3> QED BY <3>1, <3>2
  <2> QED BY <1>0, <2>1 DEF Catalog!Corruptions
<1>2. r.uid = u /\ r.definition \in Catalog!Definitions /\ r.resolved.lineage \in Seq(DOMAIN schemas)
  BY <1>0 DEF Readable
<1> DEFINE Same == /\ row.uid = r.uid /\ row.definition = r.definition
                   /\ row.resolved.lineage = r.resolved.lineage
<1>3. row = [r EXCEPT !.publisher = x] => Same
  OBVIOUS
<1>4. row = [r EXCEPT !.parent = x] => Same
  OBVIOUS
<1>5. row = [r EXCEPT !.supersedes = x] => Same
  OBVIOUS
<1>6. row = [r EXCEPT !.at = x] => Same
  OBVIOUS
<1>7. row = [r EXCEPT !.tx = x] => Same
  OBVIOUS
<1>8. row = [r EXCEPT !.resolved.fields = x] => Same
  <2> SUFFICES ASSUME row = [r EXCEPT !.resolved.fields = x] PROVE Same
    OBVIOUS
  <2>1. row.uid = r.uid /\ row.definition = r.definition
    OBVIOUS
  <2>2. row.resolved \in {r.resolved, [r.resolved EXCEPT !.fields = x]}
    OBVIOUS
  <2>3. [r.resolved EXCEPT !.fields = x].lineage = r.resolved.lineage
    OBVIOUS
  <2> QED BY <2>1, <2>2, <2>3
<1>9. CASE x \in Seq(DOMAIN schemas) /\ row = [r EXCEPT !.resolved.lineage = x]
  <2>1. row.uid = r.uid /\ row.definition = r.definition
    BY <1>9
  <2>2. row.resolved \in {r.resolved, [r.resolved EXCEPT !.lineage = x]}
    BY <1>9
  <2>3. [r.resolved EXCEPT !.lineage = x].lineage \in {r.resolved.lineage, x}
    OBVIOUS
  <2> QED BY <1>2, <1>9, <2>1, <2>2, <2>3
<1>10. CASE x \in (SUBSET FieldNames) \ {{}} /\ row = [r EXCEPT !.definition.fields = x]
  <2>1. row.uid = r.uid /\ row.resolved = r.resolved
    BY <1>10
  <2>2. row.definition \in {r.definition, [r.definition EXCEPT !.fields = x]}
    BY <1>10
  <2>3. [r.definition EXCEPT !.fields = x] \in Catalog!Definitions
    BY <1>2, <1>10 DEF Catalog!Definitions
  <2> QED BY <1>2, <2>1, <2>2, <2>3
<1>11. Same => /\ row.uid = u /\ row.definition \in Catalog!Definitions
               /\ row.resolved.lineage \in Seq(DOMAIN schemas)
  BY <1>2
<1> HIDE DEF Same
<1> QED BY <1>1, <1>3, <1>4, <1>5, <1>6, <1>7, <1>8, <1>9, <1>10, <1>11

\* A fault keeps the invariant.
LEMMA FaultTables ==
    ASSUME TablesInv,
           \/ \E u \in DOMAIN schemas : \E row \in Catalog!Corruptions(schemas[u]) : Catalog!CorruptSchema(u, row)
           \/ \E u \in DOMAIN registrations : \E row \in Catalog!EventCorruptions(registrations[u]) : Catalog!CorruptEvent(u, row)
    PROVE  TablesInv'
<1>1. chain' = chain /\ corrupt' = TRUE
  BY DEF Catalog!CorruptSchema, Catalog!CorruptEvent
<1>2. Catalog!Replayed' = Catalog!Replayed /\ Good(chain, Catalog!Replayed)'
  BY <1>1, ReplayedStays
<1>3. /\ DOMAIN schemas' = DOMAIN schemas /\ DOMAIN registrations' = DOMAIN registrations
      /\ \A u \in DOMAIN schemas : Readable(u)'
  <2>1. CASE \E u \in DOMAIN schemas : \E row \in Catalog!Corruptions(schemas[u]) : Catalog!CorruptSchema(u, row)
    <3>0. PICK u \in DOMAIN schemas : \E row \in Catalog!Corruptions(schemas[u]) : Catalog!CorruptSchema(u, row)
      BY <2>1
    <3>1. PICK row \in Catalog!Corruptions(schemas[u]) : Catalog!CorruptSchema(u, row)
      BY <3>0
    <3>2. schemas' = [schemas EXCEPT ![u] = row] /\ registrations' = registrations
      BY <3>1 DEF Catalog!CorruptSchema
    <3>3. row.uid = u /\ row.definition \in Catalog!Definitions /\ row.resolved.lineage \in Seq(DOMAIN schemas)
      BY FaultyRow DEF TablesInv
    <3>4. \A v \in DOMAIN schemas : schemas'[v] = IF v = u THEN row ELSE schemas[v]
      BY <3>2
    <3> QED BY <3>2, <3>3, <3>4 DEF TablesInv, Readable
  <2>2. CASE \E u \in DOMAIN registrations : \E row \in Catalog!EventCorruptions(registrations[u]) : Catalog!CorruptEvent(u, row)
    <3>0. PICK u \in DOMAIN registrations : \E row \in Catalog!EventCorruptions(registrations[u]) : Catalog!CorruptEvent(u, row)
      BY <2>2
    <3>1. PICK row \in Catalog!EventCorruptions(registrations[u]) : Catalog!CorruptEvent(u, row)
      BY <3>0
    <3>2. schemas' = schemas /\ registrations' = [registrations EXCEPT ![u] = row]
      BY <3>1 DEF Catalog!CorruptEvent
    <3> QED BY <3>2 DEF TablesInv, Readable
  <2> QED BY <2>1, <2>2
<1> QED BY <1>1, <1>2, <1>3 DEF TablesInv

\* A client changes nothing.
LEMMA ReadingTables ==
    ASSUME TablesInv, UNCHANGED <<chain, registrations, schemas, corrupt>>
    PROVE  TablesInv'
<1>1. Catalog!Replayed' = Catalog!Replayed /\ Good(chain, Catalog!Replayed)'
  BY ReplayedStays
<1>2. \A a : EventTrue(a) => EventTrue(a)'
  BY DEF EventTrue
<1> QED BY <1>1, <1>2 DEF TablesInv, Readable

LEMMA NextTables == TablesInv /\ [Catalog!Next]_(Catalog!vars) => TablesInv'
<1> SUFFICES ASSUME TablesInv, [Catalog!Next]_(Catalog!vars) PROVE TablesInv'
  OBVIOUS
<1>1. ASSUME NEW t \in Catalog!Transactions, Catalog!Register(t) PROVE TablesInv'
  BY <1>1, RegisterTables
<1>2. ASSUME NEW kind, Catalog!StartPaging(kind) PROVE TablesInv'
  BY <1>2, ReadingTables DEF Catalog!StartPaging
<1>3. CASE Catalog!NextPage
  BY <1>3, ReadingTables DEF Catalog!NextPage
<1>4. CASE UNCHANGED Catalog!vars
  BY <1>4, ReadingTables DEF Catalog!vars
<1>5. CASE \/ \E u \in DOMAIN schemas : \E row \in Catalog!Corruptions(schemas[u]) : Catalog!CorruptSchema(u, row)
           \/ \E u \in DOMAIN registrations : \E row \in Catalog!EventCorruptions(registrations[u]) : Catalog!CorruptEvent(u, row)
  BY <1>5, FaultTables
<1> QED BY <1>1, <1>2, <1>3, <1>4, <1>5 DEF Catalog!Next

-----------------------------------------------------------------------------
(* What the API makes of rows that may have a fault.                       *)

\* The evidence of a registration binds a row to its transaction.
LEMMA EvidenceBinds ==
    ASSUME TablesInv, NEW u \in DOMAIN schemas, Catalog!ValidateEvidenceRow(schemas[u])
    PROVE  /\ u \in DOMAIN Catalog!Replayed /\ u \in Catalog!Positions
           /\ schemas[u].definition = Catalog!Replayed[u].definition
           /\ schemas[u].publisher = Catalog!Replayed[u].publisher
           /\ schemas[u].at = u /\ Catalog!Replayed[u].at = u
           /\ schemas[u].parent = schemas[u].definition.extends
           /\ schemas[u].supersedes = schemas[u].definition.supersedes
<1> DEFINE row == schemas[u]
           e == registrations[row.tx]
<1>1. /\ u \in DOMAIN Catalog!Replayed /\ Good(chain, Catalog!Replayed) /\ row.uid = u
  BY DEF TablesInv, Readable
<1>2. u \in Catalog!Positions /\ RowTrue(chain, Catalog!Replayed, u)
  BY <1>1 DEF Good, Sound
<1>3. /\ e.at = row.at /\ e.publisher = row.publisher /\ e.memo = row.definition
      /\ Catalog!ComputeSchemaUid(e.at, e.publisher, e.memo) = u
      /\ row.parent = row.definition.extends /\ row.supersedes = row.definition.supersedes
  BY <1>1 DEF Catalog!ValidateEvidenceRow, Catalog!StoredResolvedSchema
<1>4. u # Catalog!Unknown
  BY <1>2 DEF Catalog!Positions, Catalog!Unknown
<1>5. /\ row.at = u /\ chain[u].publisher = row.publisher /\ chain[u].definition = row.definition
  <2> HIDE DEF e, row
  <2> QED BY <1>3, <1>4 DEF Catalog!ComputeSchemaUid
<1>6. /\ Catalog!Replayed[u].publisher = chain[u].publisher /\ Catalog!Replayed[u].definition = chain[u].definition
      /\ Catalog!Replayed[u].at = u
  BY <1>2 DEF RowTrue, Catalog!SchemaRow
<1> QED BY <1>1, <1>2, <1>3, <1>5, <1>6

\* Fields of a line of schemas, from the root on.
MergedTo(d, uids, i) == UNION {d[uids[j]].definition.fields : j \in 1 .. i}

LEMMA MergedNext ==
    ASSUME NEW d, NEW uids, NEW i \in Nat
    PROVE  MergedTo(d, uids, i + 1) = MergedTo(d, uids, i) \cup d[uids[i + 1]].definition.fields
<1>1. 1 .. i + 1 = (1 .. i) \cup {i + 1}
  OBVIOUS
<1>2. {d[uids[j]].definition.fields : j \in 1 .. i + 1}
        = {d[uids[j]].definition.fields : j \in 1 .. i} \cup {d[uids[i + 1]].definition.fields}
  BY <1>1
<1>3. UNION {d[uids[j]].definition.fields : j \in 1 .. i + 1}
        = (UNION {d[uids[j]].definition.fields : j \in 1 .. i}) \cup d[uids[i + 1]].definition.fields
  BY <1>2, UnionAdd
<1> QED BY Zenon, <1>3 DEF MergedTo

\* Those of no schema, and of the first.
LEMMA MergedOne ==
    ASSUME NEW d, NEW uids
    PROVE  /\ MergedTo(d, uids, 0) = {}
           /\ MergedTo(d, uids, 1) = d[uids[1]].definition.fields
<1>1. MergedTo(d, uids, 0) = {}
  <2>1. 1 .. 0 = {}
    OBVIOUS
  <2> QED BY <2>1 DEF MergedTo
<1>2. PICK one : one = d[uids[1]].definition.fields
  OBVIOUS
<1>3. 1 .. 1 = {1}
  OBVIOUS
<1>4. {d[uids[j]].definition.fields : j \in 1 .. 1} = {one}
  BY <1>2, <1>3
<1>5. UNION {one} = one
  BY Zenon
<1> QED BY <1>1, <1>2, <1>4, <1>5 DEF MergedTo

\* A row of a line, as authoritativeResolvedSchema wants it.
RowMatches(d, uids, i) ==
    /\ d[uids[i]].definition.extends = IF i = 1 THEN Catalog!None ELSE uids[i - 1]
    /\ d[uids[i]].resolved = [definition |-> d[uids[i]].definition, fields |-> MergedTo(d, uids, i),
                              lineage |-> SubSeq(uids, 1, i - 1)]

\* Rows with true definitions that match are what the ledger made of them.
LEMMA LineAgrees ==
    ASSUME NEW c, Sound(c), NEW d, NEW uids \in Seq(DOMAIN c),
           \A i \in DOMAIN uids : RowMatches(d, uids, i) /\ d[uids[i]].definition = c[uids[i]].definition
    PROVE  \A i \in DOMAIN uids : d[uids[i]].resolved = c[uids[i]].resolved
<1> DEFINE Wrong == {i \in DOMAIN uids : d[uids[i]].resolved # c[uids[i]].resolved}
<1>1. SUFFICES ASSUME Wrong # {} PROVE FALSE
  OBVIOUS
<1>2. Wrong \subseteq Nat
  OBVIOUS
<1>3. PICK i \in Wrong : \A j \in Wrong : i <= j
  <2> HIDE DEF Wrong
  <2> QED BY <1>1, <1>2, SmallestExists
<1> DEFINE v == uids[i]
<1>4. i \in DOMAIN uids /\ i \in Nat /\ i >= 1 /\ v \in DOMAIN c /\ RowMatches(d, uids, i)
      /\ d[v].definition = c[v].definition
  OBVIOUS
<1>5. c[v].resolved = MergedInto(c[v], StoredParent(c[v], c))
  BY <1>4, RowMerged
<1>6. d[v].resolved = [definition |-> c[v].definition, fields |-> MergedTo(d, uids, i),
                       lineage |-> SubSeq(uids, 1, i - 1)]
  BY <1>4 DEF RowMatches
<1>7. CASE i = 1
  <2>1. c[v].definition.extends = Catalog!None
    BY <1>4, <1>7 DEF RowMatches
  <2>2. c[v].resolved = [definition |-> c[v].definition, fields |-> c[v].definition.fields,
                         lineage |-> <<>>]
    BY <1>5, <2>1 DEF MergedInto, StoredParent, Catalog!Root
  <2>3. MergedTo(d, uids, i) = c[v].definition.fields
    BY <1>4, <1>7, MergedOne
  <2>4. SubSeq(uids, 1, i - 1) = <<>>
    BY <1>7
  <2> HIDE DEF v
  <2>5. d[v].resolved = c[v].resolved
    BY <1>6, <2>2, <2>3, <2>4
  <2> QED BY <1>3, <2>5 DEF v
<1>8. CASE i # 1
  <2> DEFINE e == uids[i - 1]
  <2>1. i - 1 \in DOMAIN uids /\ i - 1 \in Nat /\ ~(i <= i - 1) /\ i = (i - 1) + 1
    BY <1>4, <1>8
  <2>2. i - 1 \notin Wrong
    BY <1>3, <2>1
  <2>3. d[e].resolved = c[e].resolved /\ e \in DOMAIN c /\ RowMatches(d, uids, i - 1)
    BY <2>1, <2>2
  <2>4. e # Catalog!None
    BY <2>3 DEF Sound, Catalog!Positions, Catalog!None
  <2>5. c[v].definition.extends = e
    BY <1>4, <1>8 DEF RowMatches
  <2>6. StoredParent(c[v], c) = d[e].resolved
    BY <2>3, <2>4, <2>5 DEF StoredParent
  <2>7. d[e].resolved.fields = MergedTo(d, uids, i - 1)
        /\ d[e].resolved.lineage = SubSeq(uids, 1, (i - 1) - 1)
    <3>1. d[e].resolved = [definition |-> d[e].definition, fields |-> MergedTo(d, uids, i - 1),
                           lineage |-> SubSeq(uids, 1, (i - 1) - 1)]
      BY <2>3 DEF RowMatches
    <3> HIDE DEF e
    <3> QED BY <3>1
  <2>8. c[v].resolved = [definition |-> c[v].definition,
                         fields |-> MergedTo(d, uids, i - 1) \cup c[v].definition.fields,
                         lineage |-> Append(SubSeq(uids, 1, (i - 1) - 1), e)]
    BY SMTT(30), <1>5, <2>4, <2>5, <2>6, <2>7 DEF MergedInto
  <2>9. MergedTo(d, uids, i) = MergedTo(d, uids, i - 1) \cup c[v].definition.fields
    <3>1. PICK m : m = i - 1
      OBVIOUS
    <3>2. MergedTo(d, uids, m + 1) = MergedTo(d, uids, m) \cup d[uids[m + 1]].definition.fields
      <4>1. m \in Nat
        BY <2>1, <3>1
      <4> QED BY <4>1, MergedNext
    <3>3. i = m + 1
      BY <2>1, <3>1
    <3> QED BY <1>4, <3>1, <3>2, <3>3
  <2>10. SubSeq(uids, 1, i - 1) = Append(SubSeq(uids, 1, (i - 1) - 1), e)
    BY SMTT(30), <2>1
  <2> HIDE DEF v, e
  <2>11. d[v].resolved = c[v].resolved
    BY <1>6, <2>8, <2>9, <2>10
  <2> QED BY <1>3, <2>11 DEF v
<1> QED BY <1>7, <1>8

\* What authoritativeResolvedSchema checks.
LEMMA AuthoritativeIs ==
    ASSUME NEW row, NEW evidence, NEW uids, uids = Append(row.resolved.lineage, row.uid),
           Catalog!AuthoritativeResolvedSchema(row, evidence) # Catalog!Invalid
    PROVE  /\ Catalog!AuthoritativeResolvedSchema(row, evidence) = row.resolved
           /\ \A i \in DOMAIN uids : uids[i] \in evidence /\ uids[i] \in DOMAIN schemas
           /\ \A i \in DOMAIN uids : Catalog!ValidateEvidenceRow(schemas[uids[i]])
           /\ \A i \in DOMAIN uids : RowMatches(schemas, uids, i)
<1>1. /\ Catalog!AuthoritativeResolvedSchema(row, evidence) = row.resolved
      /\ \A i \in DOMAIN uids : uids[i] \in evidence /\ uids[i] \in DOMAIN schemas
      /\ \A i \in DOMAIN uids : Catalog!ValidateEvidenceRow(schemas[uids[i]])
  BY ZenonT(40) DEF Catalog!AuthoritativeResolvedSchema
<1>2. ASSUME NEW i \in DOMAIN uids PROVE RowMatches(schemas, uids, i)
  <2> DEFINE us == Append(row.resolved.lineage, row.uid)
             Matches(j) ==
               /\ schemas[us[j]].definition.extends = IF j = 1 THEN Catalog!None ELSE us[j - 1]
               /\ schemas[us[j]].resolved =
                    [definition |-> schemas[us[j]].definition,
                     fields |-> UNION {schemas[us[m]].definition.fields : m \in 1 .. j},
                     lineage |-> SubSeq(us, 1, j - 1)]
  <2>1. \A j \in DOMAIN us : Matches(j)
    BY DEF Catalog!AuthoritativeResolvedSchema
  <2>2. uids = us
    BY SMTT(30)
  <2>3. Matches(i)
    BY <2>1, <2>2
  <2>4. Matches(i) <=> RowMatches(schemas, us, i)
    BY DEF RowMatches, MergedTo
  <2> QED BY ZenonT(40), <2>2, <2>3, <2>4
<1> QED BY SMTT(30), <1>1, <1>2

\* What the API accepts of a schema is what the ledger made of it and of its ancestors.
LEMMA AcceptedIsTrue ==
    ASSUME TablesInv, NEW u \in DOMAIN schemas, NEW evidence,
           Catalog!AuthoritativeResolvedSchema(schemas[u], evidence) # Catalog!Invalid
    PROVE  /\ Catalog!AuthoritativeResolvedSchema(schemas[u], evidence) = schemas[u].resolved
           /\ schemas[u].resolved = Catalog!Replayed[u].resolved
           /\ Catalog!ValidateEvidenceRow(schemas[u])
           /\ \A i \in DOMAIN Line(schemas, u) : Line(schemas, u)[i] \in evidence
<1> DEFINE uids == Line(schemas, u)
           k == schemas[u].resolved.lineage
           n == Len(uids)
<1>1. schemas[u].uid = u /\ k \in Seq(DOMAIN schemas) /\ Sound(Catalog!Replayed)
      /\ DOMAIN Catalog!Replayed = DOMAIN schemas
  BY DEF TablesInv, Readable, Good
<1>2. uids = Append(k, u) /\ uids = Append(schemas[u].resolved.lineage, schemas[u].uid)
  BY <1>1 DEF Line
<1>3. /\ Catalog!AuthoritativeResolvedSchema(schemas[u], evidence) = schemas[u].resolved
      /\ \A i \in DOMAIN uids : uids[i] \in evidence /\ uids[i] \in DOMAIN schemas
      /\ \A i \in DOMAIN uids : Catalog!ValidateEvidenceRow(schemas[uids[i]])
      /\ \A i \in DOMAIN uids : RowMatches(schemas, uids, i)
  <2> HIDE DEF uids
  <2> QED BY <1>2, AuthoritativeIs
<1>4. /\ uids \in Seq(DOMAIN schemas) /\ uids[n] = u /\ n \in DOMAIN uids
  <2>1. k \in Seq(DOMAIN schemas) /\ uids = Append(k, u)
    BY <1>1, <1>2
  <2> HIDE DEF uids
  <2> QED BY <2>1
<1>5. \A i \in DOMAIN uids : schemas[uids[i]].definition = Catalog!Replayed[uids[i]].definition
  BY <1>3, EvidenceBinds
<1>6. \A i \in DOMAIN uids : schemas[uids[i]].resolved = Catalog!Replayed[uids[i]].resolved
  <2> HIDE DEF uids
  <2> QED BY <1>1, <1>3, <1>4, <1>5, LineAgrees
<1>7. schemas[u].resolved = Catalog!Replayed[u].resolved /\ Catalog!ValidateEvidenceRow(schemas[u])
  <2> HIDE DEF uids
  <2> QED BY <1>3, <1>4, <1>6
<1> QED BY <1>3, <1>7

\* The invariant: no fault of a row is passed on.
LEMMA TablesServed == TablesInv => Catalog!SchemaTrue
<1> SUFFICES ASSUME TablesInv, NEW u \in DOMAIN schemas
             PROVE  Catalog!GetSchema(u) \in {Catalog!Invalid, Catalog!Replayed[u].resolved}
  BY DEF Catalog!SchemaTrue
<1>1. Catalog!GetSchema(u) = Catalog!Invalid \/ Catalog!GetSchema(u) = Catalog!AuthoritativeResolvedSchema(schemas[u], Catalog!Evidence({schemas[u]}))
  BY DEF Catalog!GetSchema
<1>2. Catalog!AuthoritativeResolvedSchema(schemas[u], Catalog!Evidence({schemas[u]})) \in {Catalog!Invalid, Catalog!Replayed[u].resolved}
  BY AcceptedIsTrue
<1> QED BY <1>1, <1>2
-----------------------------------------------------------------------------
(* The order of rows.                                                      *)

\* Finitely many rows of which any two differ in their place.
Placed(R) ==
    /\ IsFiniteSet(R) /\ \A r \in R : r.at \in Nat
    /\ \A a, b \in R : a.at = b.at => a = b

\* The ranks of rows: from 0, below the number of rows, and in their order.
LEMMA RankIs ==
    ASSUME NEW R, Placed(R), NEW r \in R
    PROVE  /\ Catalog!Rank(r, R) \in Nat /\ Catalog!Rank(r, R) < Catalog!Cardinality(R) /\ Catalog!Cardinality(R) \in Nat
           /\ \A s \in R : s.at < r.at => Catalog!Rank(s, R) < Catalog!Rank(r, R)
<1> DEFINE Lower(x) == {s \in R : s.at < x.at}
<1>1. IsFiniteSet(R) /\ Catalog!Cardinality(R) \in Nat
  BY SameCardinality, FS_CardinalityType DEF Placed
<1>2. ASSUME NEW x \in R
      PROVE  IsFiniteSet(Lower(x)) /\ Catalog!Rank(x, R) = Catalog!Cardinality(Lower(x)) /\ Catalog!Rank(x, R) \in Nat
  <2>1. Lower(x) \in SUBSET R
    OBVIOUS
  <2>2. IsFiniteSet(Lower(x))
    BY SameCardinality, <1>1, <2>1, FS_Subset
  <2>3. Catalog!Rank(x, R) = Catalog!Cardinality(Lower(x))
    BY DEF Catalog!Rank
  <2> HIDE DEF Lower
  <2> QED BY SameCardinality, <2>2, <2>3, FS_CardinalityType
<1>3. Catalog!Rank(r, R) < Catalog!Cardinality(R)
  <2>1. Lower(r) \in SUBSET R /\ r \notin Lower(r)
    BY DEF Placed
  <2>2. Lower(r) # R
    BY <2>1
  <2> HIDE DEF Lower
  <2>3. Catalog!Cardinality(Lower(r)) <= Catalog!Cardinality(R) /\ Catalog!Cardinality(Lower(r)) # Catalog!Cardinality(R)
    BY SameCardinality, <1>1, <2>1, <2>2, FS_Subset
  <2> QED BY <1>1, <1>2, <2>3
<1>4. ASSUME NEW s \in R, s.at < r.at
      PROVE  Catalog!Rank(s, R) < Catalog!Rank(r, R)
  <2>1. Lower(s) \in SUBSET Lower(r) /\ s \in Lower(r) /\ s \notin Lower(s)
    BY <1>4 DEF Placed
  <2>2. Lower(s) # Lower(r)
    BY <2>1
  <2> HIDE DEF Lower
  <2>3. Catalog!Cardinality(Lower(s)) <= Catalog!Cardinality(Lower(r)) /\ Catalog!Cardinality(Lower(s)) # Catalog!Cardinality(Lower(r))
    BY SameCardinality, <1>2, <2>1, <2>2, FS_Subset
  <2> QED BY <1>2, <2>3
<1> QED BY <1>1, <1>2, <1>3, <1>4

\* No rank is left out.
LEMMA RanksFilled ==
    ASSUME NEW R, Placed(R), NEW i \in 1 .. Catalog!Cardinality(R)
    PROVE  \E r \in R : Catalog!Rank(r, R) = i - 1
<1> DEFINE n == Catalog!Cardinality(R)
           f == [r \in R |-> Catalog!Rank(r, R)]
<1>1. IsFiniteSet(R) /\ n \in Nat
  BY SameCardinality, FS_CardinalityType DEF Placed
<1>2. f \in [R -> 0 .. n - 1]
  BY <1>1, RankIs
<1>3. \A a, b \in R : f[a] = f[b] => a = b
  <2> SUFFICES ASSUME NEW a \in R, NEW b \in R, a # b PROVE f[a] # f[b]
    OBVIOUS
  <2>1. a.at < b.at \/ b.at < a.at
    BY DEF Placed
  <2>2. Catalog!Rank(a, R) \in Nat /\ Catalog!Rank(b, R) \in Nat
    BY RankIs
  <2>3. Catalog!Rank(a, R) < Catalog!Rank(b, R) \/ Catalog!Rank(b, R) < Catalog!Rank(a, R)
    BY <2>1, RankIs
  <2>4. Catalog!Rank(a, R) # Catalog!Rank(b, R)
    BY ONLY <2>2, <2>3
  <2> QED BY <2>4
<1>4. f \in Injection(R, 0 .. n - 1)
  BY <1>2, <1>3 DEF Injection, IsInjective
<1>5. IsFiniteSet(0 .. n - 1) /\ Catalog!Cardinality(0 .. n - 1) = n
  <2> HIDE DEF n
  <2>1. n - 1 \in Int /\ 0 \in Int
    BY <1>1
  <2> QED BY SameCardinality, <1>1, <2>1, FS_Interval
<1> HIDE DEF f
<1>6. f \in Surjection(R, 0 .. n - 1)
  BY SameCardinality, <1>4, <1>5, FS_Injection
<1>7. i - 1 \in 0 .. n - 1
  BY <1>1
<1>8. PICK r \in R : f[r] = i - 1
  BY <1>6, <1>7 DEF Surjection
<1> QED BY <1>8 DEF f

\* Ascending lists every row once, in its order.
LEMMA AscendingIs ==
    ASSUME NEW R, Placed(R), NEW s, s = Catalog!Ascending(R)
    PROVE  /\ s \in Seq(R) /\ Len(s) \in Nat /\ DOMAIN s = 1 .. Len(s)
           /\ \A i \in DOMAIN s : s[i] \in R
           /\ \A r \in R : \E i \in DOMAIN s : s[i] = r
           /\ \A i, j \in DOMAIN s : i < j => s[i].at < s[j].at
<1> DEFINE n == Catalog!Cardinality(R)
<1>1. n \in Nat
  BY SameCardinality, FS_CardinalityType DEF Placed
<1>2. ASSUME NEW i \in 1 .. n
      PROVE  s[i] \in R /\ Catalog!Rank(s[i], R) = i - 1
  <2>1. s[i] = CHOOSE r \in R : Catalog!Rank(r, R) = i - 1
    BY DEF Catalog!Ascending
  <2>2. \E r \in R : Catalog!Rank(r, R) = i - 1
    BY RanksFilled
  <2> QED BY <2>1, <2>2
<1>3. DOMAIN s = 1 .. n /\ s = [i \in 1 .. n |-> s[i]]
  <2> DEFINE t == Catalog!Ascending(R)
  <2>1. DOMAIN t = 1 .. n /\ t = [i \in 1 .. n |-> t[i]]
    BY DEF Catalog!Ascending
  <2> HIDE DEF t
  <2>2. s = t
    BY DEF t
  <2> QED BY <2>1, <2>2
<1> HIDE DEF n
<1>4. s \in [1 .. n -> R]
  BY <1>2, <1>3
<1>5. s \in Seq(R) /\ Len(s) = n
  BY <1>1, <1>4, <1>3
<1>6. ASSUME NEW a \in R, NEW b \in R, Catalog!Rank(a, R) <= Catalog!Rank(b, R)
      PROVE  ~(b.at < a.at)
  BY <1>6, RankIs
<1>7. ASSUME NEW r \in R PROVE \E i \in 1 .. n : s[i] = r
  <2>1. Catalog!Rank(r, R) \in Nat /\ Catalog!Rank(r, R) < n
    BY RankIs DEF n
  <2> DEFINE i == Catalog!Rank(r, R) + 1
  <2>2. i \in 1 .. n /\ i - 1 = Catalog!Rank(r, R)
    BY <1>1, <2>1
  <2>3. s[i] \in R /\ Catalog!Rank(s[i], R) = Catalog!Rank(r, R)
    BY <1>2, <2>2
  <2>4. ~(s[i].at < r.at) /\ ~(r.at < s[i].at)
    BY <1>6, <2>1, <2>3
  <2> HIDE DEF i
  <2>5. s[i] = r
    BY <2>3, <2>4 DEF Placed
  <2> QED BY <2>2, <2>5
<1>8. ASSUME NEW i \in 1 .. n, NEW j \in 1 .. n, i < j PROVE s[i].at < s[j].at
  <2>1. s[i] \in R /\ s[j] \in R /\ Catalog!Rank(s[i], R) = i - 1 /\ Catalog!Rank(s[j], R) = j - 1
    BY <1>2
  <2>2. i - 1 <= j - 1 /\ i - 1 # j - 1
    BY <1>1, <1>8
  <2>3. ~(s[j].at < s[i].at) /\ s[i] # s[j]
    BY <1>6, <2>1, <2>2
  <2> QED BY <2>1, <2>3 DEF Placed
<1> QED BY <1>1, <1>2, <1>3, <1>5, <1>7, <1>8

\* Backwards.
LEMMA ReverseIs ==
    ASSUME NEW S, NEW s \in Seq(S), NEW t, t = Catalog!Reverse(s)
    PROVE  /\ t \in Seq(S) /\ Len(t) = Len(s) /\ DOMAIN t = DOMAIN s /\ DOMAIN s = 1 .. Len(s)
           /\ \A i \in DOMAIN t : Len(s) - i + 1 \in DOMAIN s /\ t[i] = s[Len(s) - i + 1]
<1>1. t = [i \in 1 .. Len(s) |-> s[Len(s) - i + 1]]
  BY DEF Catalog!Reverse
<1> QED BY <1>1

\* In the descending order, too, every row is there once.
LEMMA DescendingIs ==
    ASSUME NEW R, Placed(R), NEW t, t = Catalog!Reverse(Catalog!Ascending(R))
    PROVE  /\ t \in Seq(R) /\ Len(t) \in Nat /\ DOMAIN t = 1 .. Len(t)
           /\ \A i \in DOMAIN t : t[i] \in R
           /\ \A r \in R : \E i \in DOMAIN t : t[i] = r
           /\ \A i, j \in DOMAIN t : i < j => t[i].at > t[j].at
<1> DEFINE s == Catalog!Ascending(R)
           n == Len(s)
<1>1. /\ s \in Seq(R) /\ n \in Nat /\ DOMAIN s = 1 .. n
      /\ \A i \in DOMAIN s : s[i] \in R
      /\ \A r \in R : \E i \in DOMAIN s : s[i] = r
      /\ \A i, j \in DOMAIN s : i < j => s[i].at < s[j].at
  BY AscendingIs
<1> HIDE DEF s
<1>2. /\ t \in Seq(R) /\ Len(t) = n /\ DOMAIN t = DOMAIN s
      /\ \A i \in DOMAIN t : n - i + 1 \in DOMAIN s /\ t[i] = s[n - i + 1]
  <2>1. s \in Seq(R) /\ t = Catalog!Reverse(s)
    BY <1>1 DEF s
  <2> QED BY ONLY <2>1, ReverseIs
<1> HIDE DEF n
<1>3. \A r \in R : \E i \in DOMAIN t : t[i] = r
  <2> SUFFICES ASSUME NEW r \in R PROVE \E i \in DOMAIN t : t[i] = r
    OBVIOUS
  <2>1. PICK i \in DOMAIN s : s[i] = r
    BY <1>1
  <2>2. n - i + 1 \in DOMAIN t /\ n - (n - i + 1) + 1 = i
    BY SMTT(30), <1>1, <1>2
  <2> QED BY <1>2, <2>1, <2>2
<1>4. \A i, j \in DOMAIN t : i < j => t[i].at > t[j].at
  <2> SUFFICES ASSUME NEW i \in DOMAIN t, NEW j \in DOMAIN t, i < j PROVE t[i].at > t[j].at
    OBVIOUS
  <2>1. n - j + 1 < n - i + 1
    BY <1>1, <1>2
  <2>2. s[n - j + 1].at < s[n - i + 1].at
    BY <1>1, <1>2, <2>1
  <2> QED BY <1>2, <2>2
<1> QED BY <1>1, <1>2, <1>3, <1>4
-----------------------------------------------------------------------------
(* Tables without a fault.                                                 *)

\* A row as the indexer writes it is one that the API accepts.
LEMMA StoredIsWhole ==
    ASSUME TablesInv, ~corrupt, NEW u \in DOMAIN schemas
    PROVE  Catalog!StoredResolvedSchema(schemas[u])
<1>0. PICK c : c = schemas
  OBVIOUS
<1> DEFINE row == c[u]
           r == c[u].resolved
           e == c[u].definition.extends
           L == Line(c, u)
<1>1. /\ Good(chain, c) /\ u \in DOMAIN c /\ row = schemas[u] /\ row.uid = u
  BY <1>0 DEF TablesInv, Readable
<1>2. RowTrue(chain, c, u) /\ LineTrue(c, u) /\ RowSound(c, u) /\ Sound(c) /\ u \in Catalog!Positions
  BY <1>1 DEF Good, Sound
<1>3. /\ Catalog!ParseSchema(row.definition) /\ row.definition.fields # {}
      /\ row.parent = row.definition.extends /\ row.supersedes = row.definition.supersedes
  <2>1. row = Catalog!SchemaRow(chain[u], u, r) /\ chain[u].definition \in Catalog!Definitions
        /\ Catalog!ParseSchema(chain[u].definition)
    BY <1>2 DEF RowTrue
  <2>2. /\ row.definition = chain[u].definition /\ row.parent = row.definition.extends
        /\ row.supersedes = row.definition.supersedes
    BY <2>1 DEF Catalog!SchemaRow
  <2>3. chain[u].definition.fields # {}
    BY SMTT(30), <2>1 DEF Catalog!Definitions
  <2> QED BY <2>1, <2>2, <2>3
<1>4. /\ Mergeable(row, c, StoredParent(row, c)) /\ r.definition = row.definition
      /\ r.fields = StoredParent(row, c).fields \cup row.definition.fields
      /\ e = Catalog!None => r.lineage = <<>>
      /\ e # Catalog!None => r.lineage = Append(c[e].resolved.lineage, e)
  BY ZenonT(40), <1>1, <1>2, RowMerged
<1>5. r.fields # {} /\ Catalog!Cardinality(r.fields) <= MaxFields
  BY <1>3, <1>4 DEF Mergeable
<1>6. /\ r.lineage \in Seq(DOMAIN c) /\ \A i \in DOMAIN r.lineage : r.lineage[i] < u
  BY <1>2 DEF RowSound
<1>7. Len(r.lineage) <= MaxDepth - 1
      /\ IF e = Catalog!None THEN r.lineage = <<>> ELSE r.lineage # <<>> /\ Catalog!Last(r.lineage) = e
  <2>1. CASE e = Catalog!None
    <3>1. r.lineage = <<>>
      BY <1>4, <2>1
    <3>2. Len(<<>>) = 0
      OBVIOUS
    <3> HIDE DEF r
    <3> QED BY <2>1, <3>1, <3>2
  <2>2. CASE e # Catalog!None
    <3> DEFINE k == c[e].resolved.lineage
    <3>1. r.lineage = Append(k, e) /\ Len(k) < MaxDepth - 1 /\ e \in DOMAIN c
      BY ZenonT(40), <1>2, <1>4, <2>2 DEF RowSound
    <3>2. k \in Seq(DOMAIN c)
      BY <1>2, <3>1 DEF Sound, RowSound
    <3> HIDE DEF r, k, e
    <3>3. Len(r.lineage) = Len(k) + 1 /\ Len(k) \in Nat /\ r.lineage # <<>>
          /\ r.lineage[Len(r.lineage)] = e
      BY SMTT(30), <3>1, <3>2
    <3> QED BY SMTT(30), <2>2, <3>1, <3>3 DEF Catalog!Last
  <2> QED BY <2>1, <2>2
<1>8. \A i, j \in DOMAIN r.lineage : r.lineage[i] = r.lineage[j] => i = j
  <2>1. /\ \A i \in DOMAIN r.lineage : i \in DOMAIN L /\ L[i] = r.lineage[i] /\ i \in Nat
    BY <1>6 DEF Line
  <2>2. \A i, j \in DOMAIN L : i < j => L[i] < L[j]
    BY <1>2 DEF LineTrue
  <2>3. \A i \in DOMAIN L : L[i] \in Nat
    <3>1. \A i \in DOMAIN L : L[i] \in DOMAIN c
      BY <1>1, <1>2, LineIs
    <3> HIDE DEF L
    <3> QED BY <1>2, <3>1 DEF Sound, Catalog!Positions
  <2> SUFFICES ASSUME NEW i \in DOMAIN r.lineage, NEW j \in DOMAIN r.lineage, i # j
               PROVE  r.lineage[i] # r.lineage[j]
    OBVIOUS
  <2>4. L[i] < L[j] \/ L[j] < L[i]
    <3> HIDE DEF L, r
    <3> QED BY <2>1, <2>2
  <2>5. L[i] \in Nat /\ L[j] \in Nat
    <3> HIDE DEF L, r
    <3> QED BY <2>1, <2>3
  <2>6. L[i] # L[j]
    BY ONLY <2>4, <2>5
  <2> HIDE DEF L, r
  <2> QED BY <2>1, <2>6
<1>9. row.uid \notin Catalog!ToSet(r.lineage)
  <2>1. \A i \in DOMAIN r.lineage : r.lineage[i] # u
    BY <1>2, <1>6 DEF Catalog!Positions
  <2>2. row.uid = u
    BY SMTT(30), <1>1
  <2> QED BY <2>1, <2>2 DEF Catalog!ToSet
<1>10. Catalog!StoredResolvedSchema(row)
  BY <1>3, <1>4, <1>5, <1>7, <1>8, <1>9 DEF Catalog!StoredResolvedSchema
<1> QED BY <1>1, <1>10

\* And so is its evidence.
LEMMA EvidenceIsWhole ==
    ASSUME TablesInv, ~corrupt, NEW u \in DOMAIN schemas
    PROVE  Catalog!ValidateEvidenceRow(schemas[u])
<1> DEFINE row == schemas[u]
<1>1. Good(chain, schemas) /\ EventTrue(u) /\ u \in DOMAIN registrations /\ u \in DOMAIN chain
      /\ row.uid = u
  BY DEF TablesInv, Readable
<1>2. RowTrue(chain, schemas, u) /\ u \in Catalog!Positions
  BY <1>1 DEF Good, Sound
<1>3. /\ row.tx = u /\ row.at = u /\ row.publisher = chain[u].publisher
      /\ row.definition = chain[u].definition /\ Catalog!ParseSchema(row.definition)
  BY <1>2 DEF RowTrue, Catalog!SchemaRow
<1>4. /\ registrations[u].at = u /\ registrations[u].publisher = chain[u].publisher
      /\ registrations[u].status = "accepted" /\ registrations[u].uid = u /\ registrations[u].memo = chain[u].definition
  BY <1>1 DEF EventTrue, Catalog!EventRow
<1>5. Catalog!ComputeSchemaUid(u, chain[u].publisher, chain[u].definition) = u
  BY <1>1 DEF Catalog!ComputeSchemaUid
<1>6. Catalog!StoredResolvedSchema(row)
  BY StoredIsWhole
<1> QED BY <1>1, <1>3, <1>4, <1>5, <1>6 DEF Catalog!ValidateEvidenceRow

\* What a row of a good catalog has before it.
LEMMA LineMatches ==
    ASSUME NEW c, NEW led, Good(led, c), NEW u \in DOMAIN c, NEW i \in DOMAIN Line(c, u)
    PROVE  /\ RowMatches(c, Line(c, u), i)
           /\ i > 1 => /\ c[Line(c, u)[i - 1]].at < c[Line(c, u)[i]].at
                       /\ MergedTo(c, Line(c, u), i - 1) \cap c[Line(c, u)[i]].definition.fields = {}
<1> DEFINE L == Line(c, u)
<1>1. Sound(c) /\ LineTrue(c, u) /\ \A v \in DOMAIN c : LineTrue(c, v)
  BY DEF Good
<1>2. /\ L \in Seq(DOMAIN c) /\ DOMAIN L = 1 .. Len(L) /\ Len(L) \in Nat /\ i \in DOMAIN L
      /\ \A j \in DOMAIN L : L[j] \in DOMAIN c
  <2>1. /\ L \in Seq(DOMAIN c) /\ DOMAIN L = 1 .. Len(L)
        /\ \A j \in DOMAIN L : L[j] \in DOMAIN c
    BY <1>1, LineIs
  <2>2. i \in DOMAIN L
    OBVIOUS
  <2> HIDE DEF L
  <2> QED BY <2>1, <2>2
<1>3. ASSUME NEW j \in DOMAIN L
      PROVE  /\ c[L[j]].resolved.lineage = SubSeq(L, 1, j - 1)
             /\ c[L[j]].resolved.fields = MergedTo(c, L, j)
             /\ c[L[j]].definition.extends = IF j = 1 THEN Catalog!None ELSE L[j - 1]
  <2> DEFINE k == c[L[j]].resolved.lineage
             K == Line(c, L[j])
  <2>1. L[j] \in DOMAIN c /\ K = SubSeq(L, 1, j)
        /\ c[L[j]].definition.extends = IF j = 1 THEN Catalog!None ELSE L[j - 1]
    BY SMTT(30), <1>1 DEF LineTrue
  <2>2. K = Append(k, L[j]) /\ k \in Seq(DOMAIN c)
    BY <1>1, <2>1 DEF Line, Sound, RowSound
  <2>3. c[L[j]].resolved.fields = UNION {c[K[m]].definition.fields : m \in DOMAIN K}
    BY <1>1, <2>1 DEF LineTrue
  <2> HIDE DEF K, k, L
  <2>4. DOMAIN K = 1 .. j /\ Len(K) = j /\ \A m \in DOMAIN K : K[m] = L[m]
    BY <1>2, <2>1
  <2>5. k = SubSeq(L, 1, j - 1)
    <3>1. Len(k) = j - 1 /\ Len(K) = Len(k) + 1 /\ \A m \in 1 .. Len(k) : k[m] = K[m]
      BY <1>2, <2>2, <2>4
    <3>2. \A m \in 1 .. j - 1 : k[m] = L[m]
      BY <1>2, <2>4, <3>1
    <3> QED BY <1>2, <2>2, <3>1, <3>2
  <2>6. c[L[j]].resolved.fields = MergedTo(c, L, j)
    <3>1. {c[K[m]].definition.fields : m \in DOMAIN K} = {c[L[m]].definition.fields : m \in 1 .. j}
      BY <2>4
    <3> QED BY Zenon, <2>3, <3>1 DEF MergedTo
  <2> QED BY <2>1, <2>5, <2>6 DEF k
<1>4. RowMatches(c, L, i)
  <2>1. L[i] \in DOMAIN c
    BY SMTT(30), <1>2
  <2>2. c[L[i]].resolved = MergedInto(c[L[i]], StoredParent(c[L[i]], c))
    BY <1>1, <2>1, RowMerged
  <2>3. c[L[i]].resolved = [definition |-> c[L[i]].definition, fields |-> c[L[i]].resolved.fields,
                            lineage |-> c[L[i]].resolved.lineage]
    <3> HIDE DEF L
    <3> QED BY <2>2 DEF MergedInto
  <2>4. /\ c[L[i]].resolved.lineage = SubSeq(L, 1, i - 1)
        /\ c[L[i]].resolved.fields = MergedTo(c, L, i)
        /\ c[L[i]].definition.extends = IF i = 1 THEN Catalog!None ELSE L[i - 1]
    BY <1>3
  <2> HIDE DEF L
  <2> QED BY <2>3, <2>4 DEF RowMatches
<1>5. ASSUME i > 1
      PROVE  /\ c[L[i - 1]].at < c[L[i]].at
             /\ MergedTo(c, L, i - 1) \cap c[L[i]].definition.fields = {}
  <2>1. i - 1 \in DOMAIN L /\ L[i - 1] \in DOMAIN c /\ L[i] \in DOMAIN c /\ i - 1 < i /\ i # 1
    <3> HIDE DEF L
    <3> QED BY <1>2, <1>5
  <2>2. L[i - 1] < L[i]
    BY <1>1, <2>1 DEF LineTrue
  <2>3. c[L[i - 1]].at = L[i - 1] /\ c[L[i]].at = L[i]
    BY <1>1, <2>1 DEF Sound, RowSound
  <2>4. c[L[i]].definition.extends = L[i - 1]
    BY <1>3, <2>1
  <2>5. L[i - 1] # Catalog!None
    BY <1>1, <2>1 DEF Sound, Catalog!Positions, Catalog!None
  <2>6. StoredParent(c[L[i]], c) = c[L[i - 1]].resolved
    <3> HIDE DEF L
    <3> QED BY <2>4, <2>5 DEF StoredParent
  <2>7. c[L[i - 1]].resolved.fields = MergedTo(c, L, i - 1)
    BY SMTT(30), <1>3, <2>1
  <2>8. Mergeable(c[L[i]], c, StoredParent(c[L[i]], c))
    BY <1>1, <2>1, RowMerged
  <2>9. MergedTo(c, L, i - 1) \cap c[L[i]].definition.fields = {}
    BY <2>6, <2>7, <2>8 DEF Mergeable
  <2> QED BY <2>2, <2>3, <2>9
<1> QED BY <1>4, <1>5

\* With the evidence of its ancestors the API accepts a row.
LEMMA RowIsServed ==
    ASSUME TablesInv, ~corrupt, NEW u \in DOMAIN schemas, NEW evidence,
           \A i \in DOMAIN Line(schemas, u) : Line(schemas, u)[i] \in evidence
    PROVE  Catalog!AuthoritativeResolvedSchema(schemas[u], evidence) # Catalog!Invalid
<1> DEFINE us == Append(schemas[u].resolved.lineage, schemas[u].uid)
           L == Line(schemas, u)
<1>1. schemas[u].uid = u /\ Good(chain, schemas) /\ Sound(schemas)
  BY DEF TablesInv, Readable, Good
<1>2. us = L
  BY <1>1 DEF Line
<1>3. \A i \in DOMAIN us : us[i] \in DOMAIN schemas /\ us[i] \in evidence
  BY <1>1, <1>2, LineIs
<1>4. \A i \in DOMAIN us : Catalog!ValidateEvidenceRow(schemas[us[i]])
  BY <1>3, EvidenceIsWhole
<1>5. \A i \in DOMAIN us :
         /\ RowMatches(schemas, us, i)
         /\ i > 1 => /\ schemas[us[i - 1]].at < schemas[us[i]].at
                     /\ MergedTo(schemas, us, i - 1) \cap schemas[us[i]].definition.fields = {}
  BY SMTT(30), <1>1, <1>2, LineMatches
<1>6. Catalog!StoredResolvedSchema(schemas[u]) /\ schemas[schemas[u].uid] = schemas[u]
  BY <1>1, StoredIsWhole
<1>7. schemas[u].resolved # Catalog!Invalid
  BY <1>1 DEF Sound, RowSound
<1>8. Catalog!AuthoritativeResolvedSchema(schemas[u], evidence) = schemas[u].resolved
  BY <1>3, <1>4, <1>5, <1>6 DEF Catalog!AuthoritativeResolvedSchema, RowMatches, MergedTo
<1> QED BY <1>7, <1>8
\* The evidence of rows has their lines.
LEMMA EvidenceHolds ==
    ASSUME TablesInv, ~corrupt, NEW rows, NEW u \in DOMAIN schemas, schemas[u] \in rows
    PROVE  \A i \in DOMAIN Line(schemas, u) : Line(schemas, u)[i] \in Catalog!Evidence(rows)
<1> DEFINE k == schemas[u].resolved.lineage
           L == Line(schemas, u)
<1>1. schemas[u].uid = u /\ Good(chain, schemas) /\ Sound(schemas)
  BY DEF TablesInv, Readable, Good
<1>2. \A i \in DOMAIN L : L[i] \in DOMAIN schemas
  BY <1>1, LineIs
<1>3. k \in Seq(DOMAIN schemas) /\ L = Append(k, u)
  BY <1>1 DEF Sound, RowSound, Line
<1>4. {u} \cup Catalog!ToSet(k) \subseteq UNION {{r.uid} \cup Catalog!ToSet(r.resolved.lineage) : r \in rows}
  BY <1>1
<1>5. \A i \in DOMAIN L : L[i] = u \/ L[i] \in Catalog!ToSet(k)
  <2> HIDE DEF k, L
  <2> QED BY <1>3 DEF Catalog!ToSet
<1> QED BY <1>2, <1>4, <1>5 DEF Catalog!Evidence

\* Whatever rows of schemas a page has, it is valid.
LEMMA SchemaPageValid ==
    ASSUME TablesInv, ~corrupt, NEW kind, kind # "activity", NEW rows,
           \A i \in DOMAIN rows : rows[i] \in Catalog!Rows(schemas)
    PROVE  Catalog!PageValid(kind, rows)
<1> SUFFICES ASSUME NEW row \in Catalog!ToSet(rows)
             PROVE  /\ Catalog!StoredResolvedSchema(row)
                    /\ Catalog!AuthoritativeResolvedSchema(row, Catalog!Evidence(Catalog!ToSet(rows))) # Catalog!Invalid
  BY DEF Catalog!PageValid
<1>1. PICK u \in DOMAIN schemas : row = schemas[u]
  BY DEF Catalog!ToSet, Catalog!Rows
<1>2. \A i \in DOMAIN Line(schemas, u) : Line(schemas, u)[i] \in Catalog!Evidence(Catalog!ToSet(rows))
  BY <1>1, EvidenceHolds
<1>3. Catalog!AuthoritativeResolvedSchema(schemas[u], Catalog!Evidence(Catalog!ToSet(rows))) # Catalog!Invalid
  BY <1>2, RowIsServed
<1> QED BY <1>1, <1>3, StoredIsWhole

\* Every event is one the API can tell.
LEMMA RegistrationIsPublic ==
    ASSUME TablesInv, ~corrupt, NEW u \in DOMAIN registrations
    PROVE  Catalog!PublicRegistration(registrations[u]) /\ registrations[u].at = u
<1>1. EventTrue(u) /\ u \in DOMAIN chain /\ Good(chain, schemas)
  BY DEF TablesInv
<1>2. CASE u \in DOMAIN schemas
  <2>1. RowTrue(chain, schemas, u) /\ u \in Catalog!Positions
    BY <1>1, <1>2 DEF Good, Sound
  <2>2. Catalog!ParseSchema(chain[u].definition)
    BY <2>1 DEF RowTrue
  <2>3. /\ registrations[u].at = u /\ registrations[u].publisher = chain[u].publisher
        /\ registrations[u].status = "accepted" /\ registrations[u].uid = u /\ registrations[u].memo = chain[u].definition
    BY <1>1, <1>2 DEF EventTrue, Catalog!EventRow
  <2>4. Catalog!ComputeSchemaUid(u, chain[u].publisher, chain[u].definition) = u /\ u # Catalog!None
    BY <1>1, <2>1 DEF Catalog!ComputeSchemaUid, Catalog!Positions, Catalog!None
  <2> QED BY <2>2, <2>3, <2>4 DEF Catalog!PublicRegistration
<1>3. CASE u \notin DOMAIN schemas
  <2>1. registrations[u].at = u /\ registrations[u].status = "rejected" /\ registrations[u].uid = Catalog!None
    BY <1>1, <1>3 DEF EventTrue, Catalog!EventRow
  <2> QED BY <2>1 DEF Catalog!PublicRegistration
<1> QED BY <1>2, <1>3

LEMMA ActivityPageValid ==
    ASSUME TablesInv, ~corrupt, NEW rows, \A i \in DOMAIN rows : rows[i] \in Catalog!Rows(registrations)
    PROVE  Catalog!PageValid("activity", rows)
<1> SUFFICES ASSUME NEW row \in Catalog!ToSet(rows) PROVE Catalog!PublicRegistration(row)
  BY DEF Catalog!PageValid
<1>1. PICK u \in DOMAIN registrations : row = registrations[u]
  BY DEF Catalog!ToSet, Catalog!Rows
<1> QED BY <1>1, RegistrationIsPublic

\* The rows of a table can be put in their order.
LEMMA TablePlaced ==
    ASSUME NEW table, DOMAIN table \subseteq Catalog!Positions,
           \A u \in DOMAIN table : table[u].at = u, NEW R, R \subseteq Catalog!Rows(table)
    PROVE  Placed(R)
<1>1. IsFiniteSet(DOMAIN table)
  <2>1. IsFiniteSet(Catalog!Positions)
    BY SameCardinality, FS_Interval DEF Catalog!Positions
  <2> QED BY SameCardinality, <2>1, FS_Subset
<1>2. IsFiniteSet(Catalog!Rows(table))
  <2> DEFINE f == [u \in DOMAIN table |-> table[u]]
  <2>1. f \in Surjection(DOMAIN table, Catalog!Rows(table))
    BY DEF Catalog!Rows, Surjection
  <2> HIDE DEF f
  <2> QED BY <1>1, <2>1, FS_Surjection
<1>3. IsFiniteSet(R)
  BY SameCardinality, <1>2, FS_Subset
<1>4. \A r \in R : \E u \in DOMAIN table : r = table[u]
  BY DEF Catalog!Rows
<1>5. \A r \in R : r.at \in Nat
  BY <1>4 DEF Catalog!Positions
<1>6. \A a, b \in R : a.at = b.at => a = b
  BY <1>4
<1> QED BY <1>3, <1>5, <1>6 DEF Placed

\* So can those of both tables as long as they have no fault.
LEMMA TablesPlaced ==
    ASSUME TablesInv, ~corrupt
    PROVE  /\ \A R : R \subseteq Catalog!Rows(schemas) => Placed(R)
           /\ \A R : R \subseteq Catalog!Rows(registrations) => Placed(R)
           /\ \A u \in DOMAIN schemas : schemas[u].at = u
           /\ \A u \in DOMAIN registrations : registrations[u].at = u
<1>1. Good(chain, schemas) /\ DOMAIN registrations \subseteq Catalog!Positions
  <2>1. DOMAIN registrations \subseteq 1 .. Len(chain) /\ Len(chain) <= MaxRegistrations /\ Len(chain) \in Nat
    BY DEF TablesInv
  <2> QED BY <2>1 DEF TablesInv, Catalog!Positions
<1>2. DOMAIN schemas \subseteq Catalog!Positions /\ \A u \in DOMAIN schemas : schemas[u].at = u
  BY <1>1 DEF Good, Sound, RowSound
<1>3. \A u \in DOMAIN registrations : registrations[u].at = u
  BY RegistrationIsPublic
<1> QED BY <1>1, <1>2, <1>3, TablePlaced

\* A closure has the schema, and with each one its parent and its predecessor.
LEMMA ClosureIs ==
    ASSUME NEW uids, uids \subseteq DOMAIN schemas
    PROVE  /\ uids \subseteq Catalog!Closure(uids) /\ Catalog!Closure(uids) \subseteq DOMAIN schemas
           /\ \A u \in Catalog!Closure(uids) : \A v \in {schemas[u].parent, schemas[u].supersedes} :
                 v \in DOMAIN schemas => v \in Catalog!Closure(uids)
BY DEF Catalog!Closure

\* So it has the lines of its schemas.
LEMMA ClosureHoldsLines ==
    ASSUME TablesInv, ~corrupt, NEW uids, uids \subseteq DOMAIN schemas, NEW u \in Catalog!Closure(uids)
    PROVE  \A i \in DOMAIN Line(schemas, u) : Line(schemas, u)[i] \in Catalog!Closure(uids)
<1> DEFINE L == Line(schemas, u)
           n == Len(L)
           Missing == {i \in DOMAIN L : L[i] \notin Catalog!Closure(uids)}
           Distances == {n - i : i \in Missing}
<1>1. Good(chain, schemas) /\ Sound(schemas) /\ u \in DOMAIN schemas
  BY ClosureIs DEF TablesInv, Good
<1>2. /\ n \in Nat /\ DOMAIN L = 1 .. n /\ L[n] = u /\ \A i \in DOMAIN L : L[i] \in DOMAIN schemas
  <2>1. L \in Seq(DOMAIN schemas) /\ DOMAIN L = 1 .. n /\ L[n] = u
        /\ \A i \in DOMAIN L : L[i] \in DOMAIN schemas
    BY <1>1, LineIs
  <2> HIDE DEF L
  <2> QED BY <2>1
<1>3. SUFFICES ASSUME Missing # {} PROVE FALSE
  OBVIOUS
<1>4. Distances \subseteq Nat /\ Distances # {}
  <2> HIDE DEF L, n
  <2> QED BY <1>2, <1>3
<1>5. PICK m \in Distances : \A d \in Distances : m <= d
  <2> HIDE DEF Distances
  <2> QED BY <1>4, SmallestExists
<1>6. PICK i \in Missing : m = n - i
  OBVIOUS
<1>7. i \in DOMAIN L /\ i # n /\ i + 1 \in DOMAIN L /\ i + 1 # 1 /\ (i + 1) - 1 = i
  <2>1. u \in Catalog!Closure(uids)
    OBVIOUS
  <2>2. i \in DOMAIN L /\ L[i] \notin Catalog!Closure(uids)
    BY <1>6
  <2> HIDE DEF L, n
  <2> QED BY <1>2, <2>1, <2>2
<1>8. i + 1 \notin Missing
  <2>1. n - (i + 1) < n - i
    <3> HIDE DEF n, L
    <3> QED BY SMTT(30), <1>2, <1>7
  <2>2. n - (i + 1) \in Nat /\ n - i \in Nat
    <3> HIDE DEF n, L
    <3> QED BY <1>2, <1>7
  <2>3. n - (i + 1) \notin Distances
    <3> HIDE DEF Distances
    <3>1. n - (i + 1) \in Distances => m <= n - (i + 1)
      BY <1>5
    <3> HIDE DEF n, L
    <3> QED BY <1>6, <2>1, <2>2, <3>1
  <2> QED BY <2>3
<1>9. L[i + 1] \in Catalog!Closure(uids) /\ L[i] \notin Catalog!Closure(uids)
  BY <1>6, <1>7, <1>8
<1>10. schemas[L[i + 1]].parent = L[i]
  <2>1. schemas[L[i + 1]].definition.extends = L[i]
    <3>1. LineTrue(schemas, u)
      BY <1>1 DEF Good
    <3>2. schemas[L[i + 1]].definition.extends = IF i + 1 = 1 THEN Catalog!None ELSE L[(i + 1) - 1]
      BY <1>7, <3>1 DEF LineTrue
    <3> HIDE DEF L, n
    <3> QED BY <1>7, <3>2
  <2>2. RowTrue(chain, schemas, L[i + 1])
    BY <1>1, <1>2, <1>7 DEF Good
  <2> QED BY <2>1, <2>2 DEF RowTrue, Catalog!SchemaRow
<1>11. L[i] \in Catalog!Closure(uids)
  BY <1>2, <1>7, <1>9, <1>10, ClosureIs
<1> QED BY <1>9, <1>11

\* The invariant: what the indexer accepted is served.
LEMMA TablesAccepted == TablesInv => Catalog!AcceptedServed
<1> SUFFICES ASSUME TablesInv, ~corrupt
             PROVE  /\ \A u \in DOMAIN schemas : Catalog!GetSchema(u) # Catalog!Invalid
                    /\ \A u \in DOMAIN registrations : Catalog!GetRegistration(u) # "invalid"
                    /\ Catalog!PageValid("list", Catalog!ListRows(Catalog!None)) /\ Catalog!PageValid("activity", Catalog!ActivityRows(Catalog!None))
                    /\ \A p \in Accounts : Catalog!PageValid("search", Catalog!SearchRows(p))
                    /\ \A u \in DOMAIN schemas :
                          Catalog!Cardinality(Catalog!Closure({u})) <= MaxEntries => Catalog!Catalog(u) # {}
  BY DEF Catalog!AcceptedServed
<1>1. ASSUME NEW u \in DOMAIN schemas PROVE Catalog!GetSchema(u) # Catalog!Invalid
  <2>1. \A i \in DOMAIN Line(schemas, u) : Line(schemas, u)[i] \in Catalog!Evidence({schemas[u]})
    BY EvidenceHolds
  <2>2. Catalog!AuthoritativeResolvedSchema(schemas[u], Catalog!Evidence({schemas[u]})) # Catalog!Invalid
    BY <2>1, RowIsServed
  <2>3. Catalog!StoredResolvedSchema(schemas[u])
    BY StoredIsWhole
  <2> QED BY <2>2, <2>3 DEF Catalog!GetSchema
<1>2. ASSUME NEW u \in DOMAIN registrations PROVE Catalog!GetRegistration(u) # "invalid"
  <2>1. Catalog!PublicRegistration(registrations[u])
    BY RegistrationIsPublic
  <2>2. registrations[u].status # "invalid"
    BY <2>1 DEF Catalog!PublicRegistration
  <2> QED BY <2>1, <2>2 DEF Catalog!GetRegistration
<1>3. Catalog!PageValid("list", Catalog!ListRows(Catalog!None))
  <2> DEFINE R == {r \in Catalog!Rows(schemas) : r.at > Catalog!None}
  <2>1. Placed(R)
    BY TablesPlaced
  <2>2. \A i \in DOMAIN Catalog!Ascending(R) : Catalog!Ascending(R)[i] \in Catalog!Rows(schemas)
    <3>1. \A i \in DOMAIN Catalog!Ascending(R) : Catalog!Ascending(R)[i] \in R
      BY <2>1, AscendingIs
    <3> QED BY <3>1
  <2> QED BY <2>2, SchemaPageValid DEF Catalog!ListRows
<1>4. Catalog!PageValid("activity", Catalog!ActivityRows(Catalog!None))
  <2> DEFINE R == {r \in Catalog!Rows(registrations) : Catalog!None = Catalog!None \/ r.at < Catalog!None}
             t == Catalog!Reverse(Catalog!Ascending(R))
  <2>1. Placed(R)
    BY TablesPlaced
  <2>2. \A i \in DOMAIN t : t[i] \in Catalog!Rows(registrations)
    <3>1. \A i \in DOMAIN t : t[i] \in R
      BY <2>1, DescendingIs
    <3> QED BY <3>1
  <2> QED BY <2>2, ActivityPageValid DEF Catalog!ActivityRows
<1>5. ASSUME NEW p \in Accounts PROVE Catalog!PageValid("search", Catalog!SearchRows(p))
  <2> DEFINE R == {r \in Catalog!Rows(schemas) : r.publisher = p}
             t == Catalog!Reverse(Catalog!Ascending(R))
  <2>1. Placed(R)
    BY TablesPlaced
  <2>2. \A i \in DOMAIN t : t[i] \in Catalog!Rows(schemas)
    <3>1. \A i \in DOMAIN t : t[i] \in R
      BY <2>1, DescendingIs
    <3> QED BY <3>1
  <2> QED BY <2>2, SchemaPageValid DEF Catalog!SearchRows
<1>6. ASSUME NEW u \in DOMAIN schemas, Catalog!Cardinality(Catalog!Closure({u})) <= MaxEntries
      PROVE  Catalog!Catalog(u) # {}
  <2>1. u \in Catalog!Closure({u}) /\ Catalog!Closure({u}) \subseteq DOMAIN schemas
    BY ClosureIs
  <2>2. ASSUME NEW v \in Catalog!Closure({u})
        PROVE  Catalog!AuthoritativeResolvedSchema(schemas[v], Catalog!Closure({u})) # Catalog!Invalid
    <3>1. \A i \in DOMAIN Line(schemas, v) : Line(schemas, v)[i] \in Catalog!Closure({u})
      BY ClosureHoldsLines
    <3> QED BY <2>1, <3>1, RowIsServed
  <2>3. Catalog!Catalog(u) = Catalog!Closure({u})
    BY <1>6, <2>2 DEF Catalog!Catalog
  <2> QED BY <2>1, <2>3
<1> QED BY <1>1, <1>2, <1>3, <1>4, <1>5, <1>6
-----------------------------------------------------------------------------
(* Catalogs.                                                               *)

\* What a served catalog has of a schema: the row of the ledger, and what it refers to.
LEMMA ServedRow ==
    ASSUME TablesInv, NEW u \in DOMAIN schemas, NEW v \in Catalog!Catalog(u)
    PROVE  /\ v \in DOMAIN schemas /\ v \in DOMAIN Catalog!Replayed
           /\ schemas[v].resolved = Catalog!Replayed[v].resolved
           /\ schemas[v].definition = Catalog!Replayed[v].definition
           /\ schemas[v].publisher = Catalog!Replayed[v].publisher
           /\ schemas[v].at = v /\ Catalog!Replayed[v].at = v
           /\ \A i \in DOMAIN schemas[v].resolved.lineage :
                 schemas[v].resolved.lineage[i] \in Catalog!Catalog(u)
           /\ \A w \in {schemas[v].definition.extends, schemas[v].definition.supersedes} :
                 w \in DOMAIN schemas => w \in Catalog!Catalog(u)
<1>1. /\ Catalog!Catalog(u) = Catalog!Closure({u}) /\ Catalog!Closure({u}) \subseteq DOMAIN schemas
      /\ \A w \in Catalog!Closure({u}) : Catalog!AuthoritativeResolvedSchema(schemas[w], Catalog!Closure({u})) # Catalog!Invalid
  <2>1. {u} \subseteq DOMAIN schemas
    OBVIOUS
  <2>2. Catalog!Closure({u}) \subseteq DOMAIN schemas
    BY ONLY <2>1, ClosureIs
  <2>3. Catalog!Catalog(u) # {}
    OBVIOUS
  <2> QED BY <2>2, <2>3 DEF Catalog!Catalog
<1>2. v \in DOMAIN schemas
  BY <1>1
<1>3. /\ schemas[v].resolved = Catalog!Replayed[v].resolved /\ Catalog!ValidateEvidenceRow(schemas[v])
      /\ \A i \in DOMAIN Line(schemas, v) : Line(schemas, v)[i] \in Catalog!Catalog(u)
  BY <1>1, <1>2, AcceptedIsTrue
<1>4. /\ v \in DOMAIN Catalog!Replayed /\ schemas[v].definition = Catalog!Replayed[v].definition
      /\ schemas[v].publisher = Catalog!Replayed[v].publisher /\ schemas[v].at = v /\ Catalog!Replayed[v].at = v
      /\ schemas[v].parent = schemas[v].definition.extends
      /\ schemas[v].supersedes = schemas[v].definition.supersedes
  BY <1>2, <1>3, EvidenceBinds
<1>5. \A i \in DOMAIN schemas[v].resolved.lineage : schemas[v].resolved.lineage[i] \in Catalog!Catalog(u)
  <2> DEFINE k == schemas[v].resolved.lineage
             L == Line(schemas, v)
  <2>1. k \in Seq(DOMAIN schemas) /\ L = Append(k, v)
    BY <1>2 DEF TablesInv, Readable, Line
  <2>2. \A i \in DOMAIN L : L[i] \in Catalog!Catalog(u)
    BY <1>3
  <2> HIDE DEF k, L
  <2>3. \A i \in DOMAIN k : i \in DOMAIN L /\ L[i] = k[i]
    BY <2>1
  <2>4. \A i \in DOMAIN k : k[i] \in Catalog!Catalog(u)
    BY <2>2, <2>3
  <2> QED BY <2>4 DEF k
<1>6. \A w \in {schemas[v].definition.extends, schemas[v].definition.supersedes} :
         w \in DOMAIN schemas => w \in Catalog!Catalog(u)
  <2>1. \A w \in {schemas[v].parent, schemas[v].supersedes} :
           w \in DOMAIN schemas => w \in Catalog!Closure({u})
    BY <1>1, ClosureIs
  <2> QED BY <1>1, <1>4, <2>1
<1> QED BY <1>2, <1>3, <1>4, <1>5, <1>6

\* A served catalog keeps with each row the resolution of its definition.
LEMMA BundleIsSound ==
    ASSUME TablesInv, NEW u \in DOMAIN schemas, NEW b, b = [v \in Catalog!Catalog(u) |-> schemas[v]]
    PROVE  Sound(b)
<1>0. PICK c : c = Catalog!Replayed
  OBVIOUS
<1>1. Good(chain, c) /\ Sound(c) /\ DOMAIN c = DOMAIN schemas /\ DOMAIN c \subseteq Catalog!Positions
  BY <1>0 DEF TablesInv, Good, Sound
<1>2. /\ DOMAIN b = Catalog!Catalog(u) /\ DOMAIN b \subseteq DOMAIN c
      /\ \A v \in DOMAIN b : b[v] = schemas[v]
  <2>1. DOMAIN b = Catalog!Catalog(u) /\ \A v \in DOMAIN b : b[v] = schemas[v]
    OBVIOUS
  <2>2. \A v \in Catalog!Catalog(u) : v \in DOMAIN c
    BY <1>0, ServedRow
  <2> QED BY <2>1, <2>2
<1>3. ASSUME NEW v \in DOMAIN b
      PROVE  /\ b[v].resolved = c[v].resolved /\ b[v].definition = c[v].definition
             /\ b[v].publisher = c[v].publisher /\ b[v].at = v /\ c[v].at = v
             /\ \A i \in DOMAIN c[v].resolved.lineage : c[v].resolved.lineage[i] \in DOMAIN b
             /\ \A w \in {c[v].definition.extends, c[v].definition.supersedes} :
                   w \in DOMAIN c => w \in DOMAIN b
  <2>1. v \in Catalog!Catalog(u) /\ b[v] = schemas[v]
    BY <1>2
  <2>2. /\ schemas[v].resolved = c[v].resolved /\ schemas[v].definition = c[v].definition
        /\ schemas[v].publisher = c[v].publisher /\ schemas[v].at = v /\ c[v].at = v
    BY <1>0, <2>1, ServedRow
  <2>3. \A i \in DOMAIN c[v].resolved.lineage : c[v].resolved.lineage[i] \in DOMAIN b
    <3>1. \A i \in DOMAIN schemas[v].resolved.lineage :
             schemas[v].resolved.lineage[i] \in Catalog!Catalog(u)
      BY <2>1, ServedRow
    <3> QED BY <1>2, <2>2, <3>1
  <2>4. \A w \in {c[v].definition.extends, c[v].definition.supersedes} :
           w \in DOMAIN c => w \in DOMAIN b
    <3>1. \A w \in {schemas[v].definition.extends, schemas[v].definition.supersedes} :
             w \in DOMAIN schemas => w \in Catalog!Catalog(u)
      BY SMTT(30), <2>1, ServedRow
    <3> QED BY <1>1, <1>2, <2>2, <3>1
  <2> QED BY <2>1, <2>2, <2>3, <2>4
<1>4. ASSUME NEW v \in DOMAIN b PROVE RowSound(b, v)
  <2> DEFINE e == c[v].definition.extends
  <2>1. v \in DOMAIN c /\ RowSound(c, v)
    BY <1>1, <1>2 DEF Sound
  <2>2. e # Catalog!None => /\ e \in DOMAIN b /\ e < v
                    /\ Len(b[e].resolved.lineage) < MaxDepth - 1 /\ b[e].resolved = c[e].resolved
    BY <1>3, <2>1 DEF RowSound
  <2>3. StoredParent(b[v], b) = StoredParent(c[v], c)
    BY <1>3, <2>2 DEF StoredParent
  <2>4. Catalog!Merge(b[v], b, StoredParent(b[v], b)) = Catalog!Merge(c[v], c, StoredParent(c[v], c))
    <3>1. \A w : w = b[v].definition.supersedes =>
                    (Catalog!Referenced(b, w, v) <=> Catalog!Referenced(c, w, v))
      BY <1>2, <1>3 DEF Catalog!Referenced
    <3>2. \A w : Catalog!Referenced(b, w, v) => b[w].publisher = c[w].publisher
      BY <1>3 DEF Catalog!Referenced
    <3> QED BY <1>3, <2>3, <3>1, <3>2, MergeSame
  <2>5. c[v].resolved.lineage \in Seq(DOMAIN b)
    <3>1. c[v].resolved.lineage \in Seq(DOMAIN c)
      BY <2>1 DEF RowSound
    <3> QED BY <1>3, <3>1, SeqNarrow
  <2> QED BY SMTT(30), <1>3, <2>1, <2>2, <2>4, <2>5 DEF RowSound
<1> QED BY <1>1, <1>2, <1>4 DEF Sound

\* The invariant: a catalog is enough to check its schemas.
LEMMA TablesSelfContained == TablesInv => Catalog!CatalogSelfContained
<1> SUFFICES ASSUME TablesInv, NEW u \in DOMAIN schemas, NEW v \in Catalog!Catalog(u)
             PROVE  Catalog!Resolve(schemas[v], [w \in Catalog!Catalog(u) |-> schemas[w]]) = schemas[v].resolved
  BY DEF Catalog!CatalogSelfContained
<1>1. PICK b : b = [w \in Catalog!Catalog(u) |-> schemas[w]]
  OBVIOUS
<1>2. Sound(b) /\ v \in DOMAIN b /\ b[v] = schemas[v]
  BY <1>1, BundleIsSound
<1>3. Catalog!Resolve(b[v], b) = Catalog!Merge(b[v], b, KnownParent(b[v], b))
  BY <1>2, ResolveIs
<1>4. KnownParent(b[v], b) = StoredParent(b[v], b)
  BY <1>2 DEF KnownParent, StoredParent, Catalog!Referenced, Sound, RowSound
<1>5. Catalog!Resolve(b[v], b) = b[v].resolved
  BY <1>2, <1>3, <1>4 DEF Sound, RowSound
<1> QED BY <1>1, <1>2, <1>5
-----------------------------------------------------------------------------
(* Pages.                                                                  *)

Increasing(s) == \A i, j \in DOMAIN s : i < j => s[i] < s[j]
Decreasing(s) == \A i, j \in DOMAIN s : i < j => s[i] > s[j]

PageStates == [kind : {"none", "list", "activity", "list_done", "activity_done"}, cursor : Nat,
          seen : Seq(Nat), from : Nat]

\* A client has seen every row up to its cursor, in order.
ListInv ==
    /\ Increasing(page.seen) /\ \A i \in DOMAIN page.seen : page.seen[i] <= page.cursor
    /\ \A u \in DOMAIN schemas : u <= page.cursor => u \in Catalog!ToSet(page.seen)

\* Or every row from its cursor to the first one.
ActivityInv ==
    \/ page.cursor = Catalog!None /\ page.seen = <<>>
    \/ /\ Decreasing(page.seen) /\ \A i \in DOMAIN page.seen : page.seen[i] >= page.cursor
       /\ page.cursor # Catalog!None
       /\ \A u \in DOMAIN registrations : page.cursor <= u /\ u <= page.from => u \in Catalog!ToSet(page.seen)

PageInv ==
    /\ page \in PageStates /\ (page.kind # "none" => ~corrupt)
    /\ page.cursor <= Len(chain) /\ page.from <= Len(chain)
    /\ page.kind = "list" => ListInv
    /\ page.kind = "activity" => ActivityInv
    /\ Catalog!PagesComplete

\* The rows of a page are the first ones.
FirstOf(S, all, rows, shown) ==
    /\ Len(rows) > ListLimit <=> Len(all) > ListLimit
    /\ shown \in Seq(S) /\ Len(shown) \in Nat /\ DOMAIN shown = 1 .. Len(shown)
    /\ Len(shown) = IF Len(all) > ListLimit THEN ListLimit ELSE Len(all)
    /\ \A i \in DOMAIN shown : shown[i] = all[i] /\ i \in DOMAIN all

LEMMA ShownIs ==
    ASSUME NEW S, NEW all \in Seq(S), NEW rows, rows = Catalog!Fetched(all), NEW shown,
           shown = SubSeq(rows, 1, IF Len(rows) > ListLimit THEN ListLimit ELSE Len(rows))
    PROVE  FirstOf(S, all, rows, shown)
<1>1. Len(all) \in Nat /\ DOMAIN all = 1 .. Len(all) /\ ListLimit \in Nat /\ ListLimit >= 1
  OBVIOUS
<1> DEFINE n == IF Len(all) < ListLimit + 1 THEN Len(all) ELSE ListLimit + 1
<1>2. n \in Nat /\ n <= Len(all) /\ (n > ListLimit <=> Len(all) > ListLimit)
      /\ (IF n > ListLimit THEN ListLimit ELSE n) = (IF Len(all) > ListLimit THEN ListLimit ELSE Len(all))
  BY <1>1
<1>3. rows = SubSeq(all, 1, n)
  BY DEF Catalog!Fetched
<1> HIDE DEF n
<1>4. rows \in Seq(S) /\ Len(rows) = n /\ DOMAIN rows = 1 .. n
      /\ \A i \in 1 .. n : rows[i] = all[i] /\ i \in DOMAIN all
  BY <1>1, <1>2, <1>3
<1> DEFINE m == IF n > ListLimit THEN ListLimit ELSE n
<1>5. m \in Nat /\ m <= n /\ shown = SubSeq(rows, 1, m)
  BY <1>1, <1>2, <1>4
<1>6. m = IF Len(all) > ListLimit THEN ListLimit ELSE Len(all)
  BY <1>2
<1> HIDE DEF m
<1>7. shown \in Seq(S) /\ Len(shown) = m /\ DOMAIN shown = 1 .. m
      /\ \A i \in 1 .. m : shown[i] = rows[i] /\ i \in 1 .. n
  BY <1>2, <1>4, <1>5
<1> QED BY <1>2, <1>4, <1>5, <1>6, <1>7 DEF FirstOf

\* What a client has seen after it.
Grown(seen, shown, after) ==
    /\ after \in Seq(Nat) /\ DOMAIN seen \subseteq DOMAIN after
    /\ \A i \in DOMAIN seen : after[i] = seen[i]
    /\ \A i \in DOMAIN after : i \in DOMAIN seen \/ i - Len(seen) \in DOMAIN shown
    /\ \A i \in DOMAIN shown : Len(seen) + i \in DOMAIN after
                               /\ after[Len(seen) + i] = shown[i].at
    /\ Len(seen) \in Nat /\ DOMAIN seen = 1 .. Len(seen)

LEMMA SeenIs ==
    ASSUME NEW seen \in Seq(Nat), NEW shown, Len(shown) \in Nat, DOMAIN shown = 1 .. Len(shown),
           \A i \in DOMAIN shown : shown[i].at \in Nat,
           NEW after, after = seen \o [i \in DOMAIN shown |-> shown[i].at]
    PROVE  Grown(seen, shown, after)
<1> DEFINE new == [i \in DOMAIN shown |-> shown[i].at]
           n == Len(shown)
<1>1. new \in Seq(Nat) /\ Len(new) = n /\ DOMAIN new = 1 .. n /\ n \in Nat
      /\ \A i \in 1 .. n : new[i] = shown[i].at
  OBVIOUS
<1> QED BY SMTT(30), <1>1 DEF Grown
\* What a page makes of the client.
Turned(all, shown, after) ==
    /\ Len(shown) \in Nat /\ DOMAIN shown = 1 .. Len(shown)
    /\ Len(shown) = IF Len(all) > ListLimit THEN ListLimit ELSE Len(all)
    /\ \A i \in DOMAIN shown : shown[i] = all[i] /\ i \in DOMAIN all
    /\ page.kind \in {"list", "activity"}
    /\ after = page.seen \o [i \in DOMAIN shown |-> shown[i].at]
    /\ page'.seen = after /\ page'.from = page.from /\ page' \in PageStates
    /\ page'.cursor = IF Len(all) > ListLimit THEN all[ListLimit].at ELSE page.cursor
    /\ page'.kind = IF Len(all) > ListLimit THEN page.kind
                    ELSE IF page.kind = "list" THEN "list_done" ELSE "activity_done"
    /\ UNCHANGED <<chain, registrations, schemas, corrupt>>

LEMMA NextPageIs ==
    ASSUME Catalog!NextPage, page \in PageStates, NEW S, NEW all \in Seq(S),
           all = IF page.kind = "activity" THEN Catalog!ActivityRows(page.cursor) ELSE Catalog!ListRows(page.cursor),
           \A i \in DOMAIN all : all[i].at \in Nat
    PROVE  \E shown, after : Turned(all, shown, after)
<1>1. PICK rows : rows = Catalog!Fetched(all)
  OBVIOUS
<1>2. PICK shown : shown = SubSeq(rows, 1, IF Len(rows) > ListLimit THEN ListLimit ELSE Len(rows))
  OBVIOUS
<1>3. PICK after : after = page.seen \o [i \in DOMAIN shown |-> shown[i].at]
  OBVIOUS
<1>4. /\ Len(rows) > ListLimit <=> Len(all) > ListLimit
      /\ shown \in Seq(S) /\ Len(shown) \in Nat /\ DOMAIN shown = 1 .. Len(shown)
      /\ Len(shown) = IF Len(all) > ListLimit THEN ListLimit ELSE Len(all)
      /\ \A i \in DOMAIN shown : shown[i] = all[i] /\ i \in DOMAIN all
  <2>1. all \in Seq(S)
    OBVIOUS
  <2>2. FirstOf(S, all, rows, shown)
    BY ONLY <1>1, <1>2, <2>1, ShownIs
  <2> QED BY ONLY <2>2 DEF FirstOf
<1>5. Len(all) > ListLimit => Catalog!Last(shown).at = all[ListLimit].at /\ all[ListLimit].at \in Nat
  <2> SUFFICES ASSUME Len(all) > ListLimit
               PROVE  Catalog!Last(shown).at = all[ListLimit].at /\ all[ListLimit].at \in Nat
    OBVIOUS
  <2>1. Len(shown) = ListLimit /\ ListLimit \in DOMAIN shown
    BY <1>4
  <2> QED BY <1>4, <2>1 DEF Catalog!Last
<1>6. /\ page.kind \in {"list", "activity"}
      /\ page' = [page EXCEPT !.seen = after,
                              !.cursor = IF Len(all) > ListLimit THEN Catalog!Last(shown).at ELSE page.cursor,
                              !.kind = IF Len(all) > ListLimit THEN page.kind
                                       ELSE IF page.kind = "list" THEN "list_done"
                                            ELSE "activity_done"]
      /\ UNCHANGED <<chain, registrations, schemas, corrupt>>
  <2>1. /\ page.kind \in {"list", "activity"}
        /\ page' = [page EXCEPT !.seen = page.seen \o [i \in DOMAIN shown |-> shown[i].at],
                                !.cursor = IF Len(rows) > ListLimit THEN Catalog!Last(shown).at ELSE page.cursor,
                                !.kind = IF Len(rows) > ListLimit THEN page.kind
                                         ELSE IF page.kind = "list" THEN "list_done"
                                              ELSE "activity_done"]
        /\ UNCHANGED <<chain, registrations, schemas, corrupt>>
    BY <1>1, <1>2 DEF Catalog!NextPage
  <2>2. Len(rows) > ListLimit <=> Len(all) > ListLimit
    BY <1>4
  <2> QED BY ONLY <1>3, <2>1, <2>2
<1>7. after \in Seq(Nat)
  <2>1. PICK seen : seen = page.seen
    OBVIOUS
  <2>2. seen \in Seq(Nat)
    BY <2>1 DEF PageStates
  <2>3. \A i \in DOMAIN shown : shown[i].at \in Nat
    BY <1>4
  <2>4. Len(shown) \in Nat /\ DOMAIN shown = 1 .. Len(shown)
    BY <1>4
  <2>5. after = seen \o [i \in DOMAIN shown |-> shown[i].at]
    BY <1>3, <2>1
  <2>6. Grown(seen, shown, after)
    BY <2>2, <2>3, <2>4, <2>5, SeenIs
  <2> QED BY <2>6 DEF Grown
<1>8. /\ page'.seen = after /\ page'.from = page.from
      /\ page'.cursor = IF Len(all) > ListLimit THEN all[ListLimit].at ELSE page.cursor
      /\ page'.kind = IF Len(all) > ListLimit THEN page.kind
                      ELSE IF page.kind = "list" THEN "list_done" ELSE "activity_done"
  BY <1>5, <1>6 DEF PageStates
<1>9. page' \in PageStates
  BY <1>5, <1>6, <1>7 DEF PageStates
<1> QED BY <1>3, <1>4, <1>6, <1>8, <1>9 DEF Turned

\* The next page of a list.
LEMMA ListStep ==
    ASSUME TablesInv, PageInv, page.kind = "list", Catalog!NextPage
    PROVE  PageInv'
<1>0. ~corrupt /\ page \in PageStates /\ page.cursor \in Nat /\ page.seen \in Seq(Nat) /\ ListInv
      /\ page.from <= Len(chain)
  BY DEF PageInv, PageStates
<1> DEFINE R == {r \in Catalog!Rows(schemas) : r.at > page.cursor}
<1>1. PICK all : all = Catalog!Ascending(R)
  OBVIOUS
<1>2. /\ Placed(R) /\ (\A u \in DOMAIN schemas : schemas[u].at = u)
  BY <1>0, TablesPlaced
<1>3. /\ all \in Seq(R) /\ Len(all) \in Nat /\ DOMAIN all = 1 .. Len(all)
      /\ \A i \in DOMAIN all : all[i] \in R
      /\ \A r \in R : \E i \in DOMAIN all : all[i] = r
      /\ \A i, j \in DOMAIN all : i < j => all[i].at < all[j].at
  <2> HIDE DEF R
  <2> QED BY <1>1, <1>2, AscendingIs
<1>4. \A i \in DOMAIN all : /\ all[i].at \in DOMAIN schemas /\ all[i].at > page.cursor
                            /\ all[i].at \in Nat /\ all[i].at <= Len(chain)
  <2>1. DOMAIN schemas \subseteq 1 .. Len(chain) /\ Len(chain) \in Nat
    BY DEF TablesInv
  <2> QED BY <1>2, <1>3, <2>1 DEF Catalog!Rows
<1>5. \A u \in DOMAIN schemas : u > page.cursor => \E i \in DOMAIN all : all[i].at = u
  BY <1>2, <1>3 DEF Catalog!Rows
<1> HIDE DEF R
<1>6. \E shown, after : Turned(all, shown, after)
  <2>1. all = IF page.kind = "activity" THEN Catalog!ActivityRows(page.cursor) ELSE Catalog!ListRows(page.cursor)
    BY <1>1 DEF Catalog!ListRows, R
  <2>2. \A i \in DOMAIN all : all[i].at \in Nat
    BY <1>4
  <2> QED BY <1>0, <1>3, <2>1, <2>2, NextPageIs
<1>a. PICK shown, after : Turned(all, shown, after)
  BY <1>6
<1>7. /\ Len(shown) \in Nat /\ DOMAIN shown = 1 .. Len(shown)
      /\ Len(shown) = IF Len(all) > ListLimit THEN ListLimit ELSE Len(all)
      /\ \A i \in DOMAIN shown : shown[i] = all[i] /\ i \in DOMAIN all
      /\ after = page.seen \o [i \in DOMAIN shown |-> shown[i].at]
      /\ page'.seen = after /\ page'.from = page.from /\ page' \in PageStates
      /\ page'.cursor = IF Len(all) > ListLimit THEN all[ListLimit].at ELSE page.cursor
      /\ page'.kind = IF Len(all) > ListLimit THEN "list" ELSE "list_done"
      /\ UNCHANGED <<chain, registrations, schemas, corrupt>>
  BY <1>a DEF Turned
<1> DEFINE seen == page.seen
           n == Len(seen)
<1>8. /\ after \in Seq(Nat) /\ DOMAIN seen \subseteq DOMAIN after
      /\ \A i \in DOMAIN seen : after[i] = seen[i]
      /\ \A i \in DOMAIN after : i \in DOMAIN seen \/ i - n \in DOMAIN shown
      /\ \A i \in DOMAIN shown : n + i \in DOMAIN after /\ after[n + i] = shown[i].at
      /\ n \in Nat /\ DOMAIN seen = 1 .. n
  <2>1. \A i \in DOMAIN shown : shown[i].at \in Nat
    BY SMTT(30), <1>4, <1>7
  <2>2. Len(shown) \in Nat /\ DOMAIN shown = 1 .. Len(shown)
        /\ after = page.seen \o [i \in DOMAIN shown |-> shown[i].at]
    BY <1>7
  <2>3. Grown(page.seen, shown, after)
    BY <1>0, <2>1, <2>2, SeenIs
  <2> QED BY <2>3 DEF Grown
<1>9. \A i \in DOMAIN seen : seen[i] <= page.cursor /\ seen[i] \in Nat
  BY <1>0 DEF ListInv
<1>10. \A i \in DOMAIN after : \/ i \in DOMAIN seen /\ after[i] = seen[i]
                               \/ /\ i - n \in DOMAIN shown /\ i = n + (i - n)
                                  /\ after[i] = all[i - n].at /\ i - n \in DOMAIN all
  <2> SUFFICES ASSUME NEW i \in DOMAIN after, i \notin DOMAIN seen
               PROVE  /\ i - n \in DOMAIN shown /\ i = n + (i - n)
                      /\ after[i] = all[i - n].at /\ i - n \in DOMAIN all
    BY <1>8
  <2>1. i - n \in DOMAIN shown /\ i \in Nat
    BY SMTT(30), <1>8
  <2> HIDE DEF n, seen
  <2>2. i = n + (i - n)
    BY <1>8, <2>1
  <2>3. after[i] = shown[i - n].at
    BY <1>8, <2>1, <2>2
  <2> QED BY <1>7, <2>1, <2>2, <2>3
<1> HIDE DEF n, seen
<1>11. Increasing(after)
  <2> SUFFICES ASSUME NEW i \in DOMAIN after, NEW j \in DOMAIN after, i < j
               PROVE  after[i] < after[j]
    BY DEF Increasing
  <2>0. i \in Nat /\ j \in Nat
    BY SMTT(30), <1>8
  <2>1. CASE i \in DOMAIN seen /\ j \in DOMAIN seen
    BY <1>0, <1>8, <2>1 DEF ListInv, Increasing, seen
  <2>2. CASE i \in DOMAIN seen /\ j \notin DOMAIN seen
    <3>1. after[i] <= page.cursor /\ after[i] \in Nat
      BY <1>8, <1>9, <2>2
    <3>2. after[j] > page.cursor /\ after[j] \in Nat
      BY <1>4, <1>10, <2>2
    <3> QED BY SMTT(30), <1>0, <3>1, <3>2
  <2>3. CASE i \notin DOMAIN seen
    <3>1. j \notin DOMAIN seen
      BY <1>8, <2>0, <2>3
    <3>2. i - n < j - n
      BY <1>8, <2>0
    <3>3. /\ i - n \in DOMAIN all /\ after[i] = all[i - n].at
          /\ j - n \in DOMAIN all /\ after[j] = all[j - n].at
      BY <1>10, <2>3, <3>1
    <3> QED BY <1>3, <3>2, <3>3
  <2> QED BY <2>1, <2>2, <2>3
<1>12. ASSUME NEW u \in DOMAIN schemas, u <= page.cursor PROVE u \in Catalog!ToSet(after)
  <2>1. u \in Catalog!ToSet(seen)
    BY <1>0, <1>12 DEF ListInv, seen
  <2> QED BY <1>8, <2>1 DEF Catalog!ToSet
<1>13. ASSUME NEW i \in DOMAIN shown PROVE all[i].at \in Catalog!ToSet(after)
  <2>1. shown[i] = all[i] /\ n + i \in DOMAIN after /\ after[n + i] = shown[i].at
    BY <1>7, <1>8
  <2> QED BY ONLY <2>1 DEF Catalog!ToSet
<1>14. page'.from <= Len(chain') /\ ~corrupt'
  BY <1>0, <1>7
<1>15. CASE Len(all) > ListLimit
  <2> DEFINE last == all[ListLimit].at
  <2>1. /\ page'.kind = "list" /\ page'.cursor = last /\ ListLimit \in DOMAIN all
        /\ DOMAIN shown = 1 .. ListLimit /\ ListLimit \in Nat
    BY <1>3, <1>7, <1>15
  <2>2. last > page.cursor /\ last \in Nat /\ last <= Len(chain)
    BY <1>4, <2>1
  <2>3. \A i \in DOMAIN after : after[i] <= last
    <3> SUFFICES ASSUME NEW i \in DOMAIN after PROVE after[i] <= last
      OBVIOUS
    <3>1. CASE i \in DOMAIN seen
      <4>1. after[i] <= page.cursor /\ after[i] \in Nat
        BY <1>8, <1>9, <3>1
      <4> HIDE DEF last
      <4> QED BY <1>0, <2>2, <4>1
    <3>2. CASE i \notin DOMAIN seen
      <4>1. i - n \in DOMAIN shown /\ after[i] = all[i - n].at /\ i - n \in DOMAIN all
        BY <1>10, <3>2
      <4>2. i - n = ListLimit \/ i - n < ListLimit
        BY <2>1, <4>1
      <4>3. i - n < ListLimit => all[i - n].at < last
        BY <1>3, <2>1, <4>1
      <4>4. all[i - n].at \in Nat
        BY <1>4, <4>1
      <4> HIDE DEF last
      <4>5. all[i - n].at <= last
        <5>1. CASE i - n = ListLimit
          BY <2>2, <5>1 DEF last
        <5>2. CASE i - n < ListLimit
          BY <2>2, <4>3, <4>4, <5>2
        <5> QED BY <4>2, <5>1, <5>2
      <4> QED BY <4>1, <4>5
    <3> QED BY <3>1, <3>2
  <2>4. ASSUME NEW u \in DOMAIN schemas, u <= last PROVE u \in Catalog!ToSet(after)
    <3>0. u \in Nat
      BY DEF TablesInv
    <3>1. CASE u <= page.cursor
      BY <1>12, <3>1
    <3>2. CASE ~(u <= page.cursor)
      <4>1. PICK i \in DOMAIN all : all[i].at = u
        BY <1>0, <1>5, <3>0, <3>2
      <4>2. ~(ListLimit < i)
        <5>1. ListLimit < i => last < u
          BY <1>3, <2>1, <4>1
        <5> HIDE DEF last
        <5> QED BY <2>2, <2>4, <3>0, <5>1
      <4>3. i \in DOMAIN shown
        BY <1>3, <2>1, <4>1, <4>2
      <4> QED BY <1>13, <4>1, <4>3
    <3> QED BY <3>1, <3>2
  <2>5. ListInv'
    BY <1>7, <1>11, <2>1, <2>3, <2>4 DEF ListInv
  <2>6. page' \in PageStates /\ page'.cursor <= Len(chain')
    BY <1>7, <2>1, <2>2
  <2>7. Catalog!PagesComplete'
    BY <2>1 DEF Catalog!PagesComplete
  <2> QED BY <1>14, <2>1, <2>5, <2>6, <2>7 DEF PageInv
<1>16. CASE ~(Len(all) > ListLimit)
  <2>1. page'.kind = "list_done" /\ page'.cursor = page.cursor /\ DOMAIN shown = DOMAIN all
    BY <1>3, <1>7, <1>16
  <2>2. ASSUME NEW u \in DOMAIN schemas PROVE u \in Catalog!ToSet(after)
    <3>0. u \in Nat
      BY DEF TablesInv
    <3>1. CASE u <= page.cursor
      BY <1>12, <3>1
    <3>2. CASE ~(u <= page.cursor)
      <4>1. PICK i \in DOMAIN all : all[i].at = u
        BY <1>0, <1>5, <3>0, <3>2
      <4> QED BY SMTT(30), <1>13, <2>1, <4>1
    <3> QED BY <3>1, <3>2
  <2>3. Catalog!PagesComplete'
    BY <1>7, <1>11, <2>1, <2>2 DEF Catalog!PagesComplete, Increasing
  <2>4. page' \in PageStates /\ page'.cursor <= Len(chain')
    BY <1>7, <2>1 DEF PageInv
  <2> QED BY <1>14, <2>1, <2>3, <2>4 DEF PageInv
<1> QED BY <1>15, <1>16

\* The next page of the activity.
LEMMA ActivityStep ==
    ASSUME TablesInv, PageInv, page.kind = "activity", Catalog!NextPage
    PROVE  PageInv'
<1>0. ~corrupt /\ page \in PageStates /\ page.cursor \in Nat /\ page.seen \in Seq(Nat) /\ ActivityInv
      /\ page.from <= Len(chain) /\ page.from \in Nat
  BY DEF PageInv, PageStates
<1> DEFINE R == {r \in Catalog!Rows(registrations) : page.cursor = Catalog!None \/ r.at < page.cursor}
<1>1. PICK all : all = Catalog!Reverse(Catalog!Ascending(R))
  OBVIOUS
<1>2. /\ Placed(R) /\ (\A u \in DOMAIN registrations : registrations[u].at = u)
  BY <1>0, TablesPlaced
<1>3. /\ all \in Seq(R) /\ Len(all) \in Nat /\ DOMAIN all = 1 .. Len(all)
      /\ \A i \in DOMAIN all : all[i] \in R
      /\ \A r \in R : \E i \in DOMAIN all : all[i] = r
      /\ \A i, j \in DOMAIN all : i < j => all[i].at > all[j].at
  <2> HIDE DEF R
  <2> QED BY <1>1, <1>2, DescendingIs
<1>4. \A i \in DOMAIN all : /\ all[i].at \in DOMAIN registrations /\ all[i].at \in Nat /\ all[i].at # Catalog!None
                            /\ page.cursor = Catalog!None \/ all[i].at < page.cursor
                            /\ all[i].at <= Len(chain)
  <2>1. DOMAIN registrations \subseteq 1 .. Len(chain) /\ Len(chain) \in Nat
    BY DEF TablesInv
  <2> QED BY SMTT(30), <1>2, <1>3, <2>1 DEF Catalog!Rows, Catalog!None
<1>5. \A u \in DOMAIN registrations : page.cursor = Catalog!None \/ u < page.cursor => \E i \in DOMAIN all : all[i].at = u
  BY <1>2, <1>3 DEF Catalog!Rows
<1> HIDE DEF R
<1>6. \E shown, after : Turned(all, shown, after)
  <2>1. all = IF page.kind = "activity" THEN Catalog!ActivityRows(page.cursor) ELSE Catalog!ListRows(page.cursor)
    BY <1>1 DEF Catalog!ActivityRows, R
  <2>2. \A i \in DOMAIN all : all[i].at \in Nat
    BY <1>4
  <2> QED BY <1>0, <1>3, <2>1, <2>2, NextPageIs
<1>a. PICK shown, after : Turned(all, shown, after)
  BY <1>6
<1>7. /\ Len(shown) \in Nat /\ DOMAIN shown = 1 .. Len(shown)
      /\ Len(shown) = IF Len(all) > ListLimit THEN ListLimit ELSE Len(all)
      /\ \A i \in DOMAIN shown : shown[i] = all[i] /\ i \in DOMAIN all
      /\ after = page.seen \o [i \in DOMAIN shown |-> shown[i].at]
      /\ page'.seen = after /\ page'.from = page.from /\ page' \in PageStates
      /\ page'.cursor = IF Len(all) > ListLimit THEN all[ListLimit].at ELSE page.cursor
      /\ page'.kind = IF Len(all) > ListLimit THEN "activity" ELSE "activity_done"
      /\ UNCHANGED <<chain, registrations, schemas, corrupt>>
  BY <1>a DEF Turned
<1> DEFINE seen == page.seen
           n == Len(seen)
<1>8. /\ after \in Seq(Nat) /\ DOMAIN seen \subseteq DOMAIN after
      /\ \A i \in DOMAIN seen : after[i] = seen[i]
      /\ \A i \in DOMAIN after : i \in DOMAIN seen \/ i - n \in DOMAIN shown
      /\ \A i \in DOMAIN shown : n + i \in DOMAIN after /\ after[n + i] = shown[i].at
      /\ n \in Nat /\ DOMAIN seen = 1 .. n
  <2>1. \A i \in DOMAIN shown : shown[i].at \in Nat
    BY <1>4, <1>7
  <2>2. Len(shown) \in Nat /\ DOMAIN shown = 1 .. Len(shown)
        /\ after = page.seen \o [i \in DOMAIN shown |-> shown[i].at]
    BY <1>7
  <2>3. Grown(page.seen, shown, after)
    BY <1>0, <2>1, <2>2, SeenIs
  <2> QED BY <2>3 DEF Grown
<1>9. \A i \in DOMAIN seen : /\ page.cursor # Catalog!None /\ seen[i] >= page.cursor /\ seen[i] \in Nat
                             /\ Decreasing(seen)
  BY SMTT(30), <1>0 DEF ActivityInv
<1>10. \A i \in DOMAIN after : \/ i \in DOMAIN seen /\ after[i] = seen[i]
                               \/ /\ i - n \in DOMAIN shown /\ i = n + (i - n)
                                  /\ after[i] = all[i - n].at /\ i - n \in DOMAIN all
  <2> SUFFICES ASSUME NEW i \in DOMAIN after, i \notin DOMAIN seen
               PROVE  /\ i - n \in DOMAIN shown /\ i = n + (i - n)
                      /\ after[i] = all[i - n].at /\ i - n \in DOMAIN all
    BY <1>8
  <2>1. i - n \in DOMAIN shown /\ i \in Nat
    BY SMTT(30), <1>8
  <2> HIDE DEF n, seen
  <2>2. i = n + (i - n)
    BY <1>8, <2>1
  <2>3. after[i] = shown[i - n].at
    BY <1>8, <2>1, <2>2
  <2> QED BY <1>7, <2>1, <2>2, <2>3
<1> HIDE DEF n, seen
<1>11. Decreasing(after)
  <2> SUFFICES ASSUME NEW i \in DOMAIN after, NEW j \in DOMAIN after, i < j
               PROVE  after[i] > after[j]
    BY DEF Decreasing
  <2>0. i \in Nat /\ j \in Nat
    BY SMTT(30), <1>8
  <2>1. CASE i \in DOMAIN seen /\ j \in DOMAIN seen
    BY <1>8, <1>9, <2>1 DEF Decreasing
  <2>2. CASE i \in DOMAIN seen /\ j \notin DOMAIN seen
    <3>1. after[i] >= page.cursor /\ after[i] \in Nat /\ page.cursor # Catalog!None
      BY <1>8, <1>9, <2>2
    <3>2. (page.cursor = Catalog!None \/ after[j] < page.cursor) /\ after[j] \in Nat
      BY <1>4, <1>10, <2>2
    <3> QED BY <1>0, <3>1, <3>2
  <2>3. CASE i \notin DOMAIN seen
    <3>1. j \notin DOMAIN seen
      BY <1>8, <2>0, <2>3
    <3>2. i - n < j - n
      BY <1>8, <2>0
    <3>3. /\ i - n \in DOMAIN all /\ after[i] = all[i - n].at
          /\ j - n \in DOMAIN all /\ after[j] = all[j - n].at
      BY <1>10, <2>3, <3>1
    <3> QED BY <1>3, <3>2, <3>3
  <2> QED BY <2>1, <2>2, <2>3
<1>12. ASSUME NEW u \in DOMAIN registrations, u <= page.from, ~(page.cursor = Catalog!None \/ u < page.cursor)
       PROVE  u \in Catalog!ToSet(after)
  <2>0. u \in Nat
    BY DEF TablesInv
  <2>1. u \in Catalog!ToSet(seen)
    BY SMTT(30), <1>0, <1>12, <2>0 DEF ActivityInv, seen
  <2> QED BY <1>8, <2>1 DEF Catalog!ToSet
<1>13. ASSUME NEW i \in DOMAIN shown PROVE all[i].at \in Catalog!ToSet(after)
  <2>1. shown[i] = all[i] /\ n + i \in DOMAIN after /\ after[n + i] = shown[i].at
    BY <1>7, <1>8
  <2> QED BY ONLY <2>1 DEF Catalog!ToSet
<1>14. page'.from <= Len(chain') /\ ~corrupt'
  BY <1>0, <1>7
<1>15. CASE Len(all) > ListLimit
  <2> DEFINE last == all[ListLimit].at
  <2>1. /\ page'.kind = "activity" /\ page'.cursor = last /\ ListLimit \in DOMAIN all
        /\ DOMAIN shown = 1 .. ListLimit /\ ListLimit \in Nat
    BY <1>3, <1>7, <1>15
  <2>2. (page.cursor = Catalog!None \/ last < page.cursor) /\ last \in Nat /\ last # Catalog!None
        /\ last <= Len(chain)
    BY <1>4, <2>1
  <2>3. \A i \in DOMAIN after : after[i] >= last
    <3> SUFFICES ASSUME NEW i \in DOMAIN after PROVE after[i] >= last
      OBVIOUS
    <3>1. CASE i \in DOMAIN seen
      <4>1. after[i] >= page.cursor /\ after[i] \in Nat /\ page.cursor # Catalog!None
        BY <1>8, <1>9, <3>1
      <4> HIDE DEF last
      <4> QED BY <1>0, <2>2, <4>1
    <3>2. CASE i \notin DOMAIN seen
      <4>1. i - n \in DOMAIN shown /\ after[i] = all[i - n].at /\ i - n \in DOMAIN all
        BY <1>10, <3>2
      <4>2. i - n = ListLimit \/ i - n < ListLimit
        BY <2>1, <4>1
      <4>3. i - n < ListLimit => all[i - n].at > last
        BY <1>3, <2>1, <4>1
      <4>4. all[i - n].at \in Nat
        BY <1>4, <4>1
      <4> HIDE DEF last
      <4>5. all[i - n].at >= last
        <5>1. CASE i - n = ListLimit
          BY <2>2, <5>1 DEF last
        <5>2. CASE i - n < ListLimit
          BY <2>2, <4>3, <4>4, <5>2
        <5> QED BY <4>2, <5>1, <5>2
      <4> QED BY <4>1, <4>5
    <3> QED BY <3>1, <3>2
  <2>4. ASSUME NEW u \in DOMAIN registrations, last <= u, u <= page.from PROVE u \in Catalog!ToSet(after)
    <3>0. u \in Nat
      BY DEF TablesInv
    <3>1. CASE ~(page.cursor = Catalog!None \/ u < page.cursor)
      BY <1>12, <2>4, <3>1
    <3>2. CASE page.cursor = Catalog!None \/ u < page.cursor
      <4>1. PICK i \in DOMAIN all : all[i].at = u
        BY <1>5, <3>2
      <4>2. ~(ListLimit < i)
        <5>1. ListLimit < i => last > u
          BY <1>3, <2>1, <4>1
        <5> HIDE DEF last
        <5> QED BY <2>2, <2>4, <3>0, <5>1
      <4>3. i \in DOMAIN shown
        BY SMTT(30), <1>3, <2>1, <4>1, <4>2
      <4> QED BY <1>13, <4>1, <4>3
    <3> QED BY <3>1, <3>2
  <2>5. ActivityInv'
    BY <1>7, <1>11, <2>1, <2>2, <2>3, <2>4 DEF ActivityInv
  <2>6. page' \in PageStates /\ page'.cursor <= Len(chain')
    BY <1>7, <2>1, <2>2
  <2>7. Catalog!PagesComplete'
    BY <2>1 DEF Catalog!PagesComplete
  <2> QED BY <1>14, <2>1, <2>5, <2>6, <2>7 DEF PageInv
<1>16. CASE ~(Len(all) > ListLimit)
  <2>1. page'.kind = "activity_done" /\ page'.cursor = page.cursor /\ DOMAIN shown = DOMAIN all
    BY <1>3, <1>7, <1>16
  <2>2. ASSUME NEW u \in DOMAIN registrations, u <= page.from PROVE u \in Catalog!ToSet(after)
    <3>1. CASE ~(page.cursor = Catalog!None \/ u < page.cursor)
      BY <1>12, <2>2, <3>1
    <3>2. CASE page.cursor = Catalog!None \/ u < page.cursor
      <4>1. PICK i \in DOMAIN all : all[i].at = u
        BY <1>5, <3>2
      <4> QED BY SMTT(30), <1>13, <2>1, <4>1
    <3> QED BY <3>1, <3>2
  <2>3. Catalog!PagesComplete'
    BY <1>7, <1>11, <2>1, <2>2 DEF Catalog!PagesComplete, Decreasing
  <2>4. page' \in PageStates /\ page'.cursor <= Len(chain')
    BY <1>7, <2>1 DEF PageInv
  <2> QED BY <1>14, <2>1, <2>3, <2>4 DEF PageInv
<1> QED BY <1>15, <1>16

\* A registration comes after everything that a client has to see.
LEMMA RegisterPage ==
    ASSUME TablesInv, PageInv, NEW t \in Catalog!Transactions, Catalog!Register(t)
    PROVE  PageInv'
<1> DEFINE at == Len(chain) + 1
<1>1. /\ Len(chain') = at /\ Len(chain) \in Nat /\ page' = page /\ corrupt' = corrupt
      /\ DOMAIN registrations' \subseteq DOMAIN registrations \cup {at}
      /\ DOMAIN schemas' \subseteq DOMAIN schemas \cup {at}
  BY DEF Catalog!Register, TablesInv, Catalog!With
<1>2. /\ page \in PageStates /\ page.cursor \in Nat /\ page.from \in Nat
      /\ page.cursor <= Len(chain) /\ page.from <= Len(chain)
  BY DEF PageInv, PageStates
<1>3. page.cursor <= Len(chain') /\ page.from <= Len(chain')
      /\ ~(at <= page.cursor) /\ ~(at <= page.from)
  BY <1>1, <1>2
<1> HIDE DEF at
<1>4. page.kind = "list" => ListInv'
  BY <1>1, <1>3 DEF PageInv, ListInv
<1>5. page.kind = "activity" => ActivityInv'
  BY <1>1, <1>3 DEF PageInv, ActivityInv
<1>6. Catalog!PagesComplete'
  BY <1>1, <1>3 DEF PageInv, Catalog!PagesComplete
<1> QED BY <1>1, <1>2, <1>3, <1>4, <1>5, <1>6 DEF PageInv

\* A client begins with nothing seen.
LEMMA StartPage ==
    ASSUME TablesInv, PageInv, NEW kind \in {"list", "activity"}, Catalog!StartPaging(kind)
    PROVE  PageInv'
<1>1. /\ page' = [Catalog!NoPage EXCEPT !.kind = kind, !.from = Len(chain)] /\ ~corrupt
      /\ UNCHANGED <<chain, registrations, schemas, corrupt>> /\ Len(chain) \in Nat
  BY DEF Catalog!StartPaging, TablesInv
<1>2. /\ page'.kind = kind /\ page'.from = Len(chain) /\ page'.cursor = Catalog!None /\ page'.seen = <<>>
      /\ page' \in PageStates
  <2>1. page' = [kind |-> kind, cursor |-> Catalog!None, seen |-> <<>>, from |-> Len(chain)]
    BY <1>1 DEF Catalog!NoPage
  <2>2. <<>> \in Seq(Nat) /\ Catalog!None \in Nat /\ Len(chain) \in Nat
    BY <1>1 DEF Catalog!None
  <2>3. page' \in PageStates
    BY <2>1, <2>2 DEF PageStates
  <2> QED BY <2>1, <2>3
<1>3. \A u \in DOMAIN schemas : ~(u <= Catalog!None)
  BY DEF TablesInv, Catalog!None
<1>4. ListInv'
  BY SMTT(30), <1>1, <1>2, <1>3 DEF ListInv, Increasing
<1>5. ActivityInv'
  BY <1>2 DEF ActivityInv
<1>6. Catalog!PagesComplete'
  BY <1>2 DEF Catalog!PagesComplete
<1> QED BY SMTT(30), <1>1, <1>2, <1>4, <1>5, <1>6 DEF PageInv, Catalog!None

LEMMA InitPage == Catalog!Init => PageInv
<1> SUFFICES ASSUME Catalog!Init PROVE PageInv
  OBVIOUS
<1>1. page = Catalog!NoPage /\ chain = <<>> /\ Len(<<>>) = 0
  BY DEF Catalog!Init
<1>2. page.kind = "none" /\ page \in PageStates /\ page.cursor = 0 /\ page.from = 0
  BY <1>1 DEF Catalog!NoPage, PageStates, Catalog!None
<1> QED BY <1>1, <1>2 DEF PageInv, Catalog!PagesComplete

LEMMA NextPageInv == TablesInv /\ PageInv /\ [Catalog!Next]_(Catalog!vars) => PageInv'
<1> SUFFICES ASSUME TablesInv, PageInv, [Catalog!Next]_(Catalog!vars) PROVE PageInv'
  OBVIOUS
<1>1. ASSUME NEW t \in Catalog!Transactions, Catalog!Register(t) PROVE PageInv'
  BY <1>1, RegisterPage
<1>2. ASSUME NEW kind \in {"list", "activity"}, Catalog!StartPaging(kind) PROVE PageInv'
  BY <1>2, StartPage
<1>3. CASE Catalog!NextPage
  <2>1. page.kind \in {"list", "activity"}
    BY <1>3 DEF Catalog!NextPage
  <2> QED BY <1>3, <2>1, ListStep, ActivityStep
<1>4. CASE UNCHANGED Catalog!vars
  BY <1>4 DEF Catalog!vars, PageInv, ListInv, ActivityInv, Catalog!PagesComplete
<1>5. CASE \/ \E u \in DOMAIN schemas : \E row \in Catalog!Corruptions(schemas[u]) : Catalog!CorruptSchema(u, row)
           \/ \E u \in DOMAIN registrations : \E row \in Catalog!EventCorruptions(registrations[u]) : Catalog!CorruptEvent(u, row)
  <2>1. page' = page /\ page.kind = "none" /\ chain' = chain
    BY <1>5 DEF Catalog!CorruptSchema, Catalog!CorruptEvent, Catalog!Faulty
  <2> QED BY <2>1 DEF PageInv, Catalog!PagesComplete
<1> QED BY <1>1, <1>2, <1>3, <1>4, <1>5 DEF Catalog!Next

-----------------------------------------------------------------------------
(* What the module promises.                                               *)

SchemaInv == TablesInv /\ PageInv

LEMMA TablesTyped == TablesInv => Catalog!TypeOK
<1> SUFFICES ASSUME TablesInv PROVE Catalog!TypeOK
  OBVIOUS
<1>1. corrupt \in BOOLEAN
  BY DEF TablesInv
<1>2. \A u \in DOMAIN schemas : schemas[u].definition \in Catalog!Definitions
  BY DEF TablesInv, Readable
<1> QED BY <1>1, <1>2 DEF TablesInv, Catalog!TypeOK

-----------------------------------------------------------------------------
(* Theorems.                                                               *)

\* The invariant holds in every reachable state.
THEOREM Invariance == Spec => []IndInv
<1>1. Init => IndInv
  BY IndInit
<1>2. IndInv /\ [Next]_vars => IndInv'
  BY IndStep
<1> QED BY <1>1, <1>2, PTL DEF Spec

\* The tables always hold rows their checks and enumerations allow.
THEOREM TypeCorrect == Spec => []TypeOK
<1>1. IndInv => TypeOK
  BY DEF IndInv
<1> QED BY <1>1, Invariance, PTL

\* persistCredentialMutation never throws: every acceptance and deletion that is
\* extracted finds its live generation, for any history of the ledger.
THEOREM IndexerNeverHalts == Spec => []NeverHalts
<1>1. IndInv => NeverHalts
  BY DEF IndInv
<1> QED BY <1>1, Invariance, PTL

\* The live rows of credential_generations are the conforming Credential objects
\* of known schemas, whatever transactions the ledger applies.
THEOREM ProjectionMirrorsLedger == Spec => []Mirror
<1>1. IndInv => Mirror
  <2> SUFFICES ASSUME IndInv, NEW k \in Keys
               PROVE  IF IsXcs(k)
                      THEN /\ LiveOf(k) = {object[k].creator}
                           /\ generation[object[k].creator].accepted = object[k].accepted
                           /\ generation[object[k].creator].expiration = object[k].expiration
                      ELSE LiveOf(k) = {}
    BY DEF Mirror
  <2> QED BY LiveOfIs DEF IndInv, ForwardInv
<1> QED BY <1>1, Invariance, PTL

\* The deletion cause of a generation always agrees with its row, and nobody but
\* the issuer, the subject or the passage of time removes a Credential.
THEOREM DeletionCausesTruthful == Spec => []CausesTruthful
<1>1. Init => CausesTruthful
  BY DEF Init, CausesTruthful
<1>2. IndInv /\ CausesTruthful /\ [Next]_vars => CausesTruthful'
  BY CausesStep
<1> QED BY <1>1, <1>2, Invariance, PTL DEF Spec

\* The events of a generation always tell its row: created by its own transaction,
\* then accepted at most once, then deleted at most once, each by a later one.
THEOREM EventsTellTheRow == Spec => []HistoryReplays
<1>1. Init => HistoryInv
  BY DEF Init, HistoryInv
<1>2. IndInv /\ HistoryInv /\ [Next]_vars => HistoryInv'
  BY HistoryKept
<1>3. IndInv /\ HistoryInv => HistoryReplays
  <2> SUFFICES ASSUME IndInv, HistoryInv, NEW i \in TxIds, generation[i] # NoRow
               PROVE  LET r == generation[i] IN
                      /\ {e.tx : e \in EventsOf(i, "created")} = {i}
                      /\ Cardinality(EventsOf(i, "accepted")) <= 1
                      /\ Cardinality(EventsOf(i, "deleted")) <= 1
                      /\ r.accepted <=> EventsOf(i, "accepted") # {} \/ r.key.issuer = r.key.subject
                      /\ r.deleted # 0 <=> EventsOf(i, "deleted") # {}
                      /\ \A e \in EventsOf(i, "accepted") : i < e.tx
                      /\ \A d \in EventsOf(i, "deleted") :
                           i < d.tx /\ \A e \in EventsOf(i, "accepted") : e.tx < d.tx
    BY DEF HistoryReplays
  <2>1. TellsRow(i, generation[i], EvOf(i))
    BY DEF HistoryInv
  <2>2. \A type : EventsOf(i, type) = {e \in EvOf(i) : e.type = type}
    BY DEF EventsOf, EvOf
  <2>3. ASSUME NEW S, \A e, f \in S : e = f
        PROVE  Cardinality(S) <= 1
    <3>1. ASSUME NEW e \in S PROVE S = {e}
      BY <2>3
    <3>2. S = {} \/ \E e : S = {e}
      BY <3>1
    <3> QED BY SMTT(30), <3>2, FS_EmptySet, FS_Singleton
  <2>4. /\ \A e, f \in EventsOf(i, "accepted") : e = f
        /\ \A e, f \in EventsOf(i, "deleted") : e = f
    BY <2>1, <2>2 DEF TellsRow
  <2>5. Cardinality(EventsOf(i, "accepted")) <= 1 /\ Cardinality(EventsOf(i, "deleted")) <= 1
    BY <2>3, <2>4
  <2>6. {e.tx : e \in EventsOf(i, "created")} = {i}
    BY <2>1, <2>2 DEF TellsRow
  <2>7. /\ generation[i].accepted <=>
              EventsOf(i, "accepted") # {} \/ generation[i].key.issuer = generation[i].key.subject
        /\ generation[i].deleted # 0 <=> EventsOf(i, "deleted") # {}
    <3>1. \A type : EventsOf(i, type) # {} <=> \E e \in EvOf(i) : e.type = type
      BY <2>2
    <3>2. /\ generation[i].accepted <=>
                 (\E e \in EvOf(i) : e.type = "accepted")
                    \/ generation[i].key.issuer = generation[i].key.subject
          /\ generation[i].deleted # 0 <=> \E e \in EvOf(i) : e.type = "deleted"
      BY <2>1 DEF TellsRow
    <3> QED BY <3>1, <3>2, Zenon
  <2>8. /\ \A e \in EventsOf(i, "accepted") : i < e.tx
        /\ \A d \in EventsOf(i, "deleted") :
              i < d.tx /\ \A e \in EventsOf(i, "accepted") : e.tx < d.tx
    BY <2>1, <2>2 DEF TellsRow
  <2> QED BY <2>5, <2>6, <2>7, <2>8
<1> QED BY <1>1, <1>2, <1>3, Invariance, PTL DEF Spec

\* What verification reports as onChain is the state of the object on the ledger, however
\* often it was created, accepted and deleted, and also within one ledger: the row that
\* getCredential orders first is that of the live object, or one that has been deleted.
THEOREM ReportedIsOnLedger == Spec => []ReportedState
<1>1. Init => OrderInv /\ CreatorNewest
  BY DEF Init, OrderInv, CreatorNewest, RowsOf
<1>2. IndInv /\ OrderInv /\ CreatorNewest /\ [Next]_vars => OrderInv' /\ CreatorNewest'
  BY NewestKept
<1>3. IndInv /\ OrderInv /\ CreatorNewest => ReportedState
  BY ReportedTrue
<1> QED BY <1>1, <1>2, <1>3, Invariance, PTL DEF Spec

\* The invariant of the tables and of the log holds in every reachable state.
THEOREM ReadInvariance == ReadSpec => []ReadInv
<1>1. ReadInit => ReadInv
  <2> SUFFICES ASSUME ReadInit PROVE ReadInv
    OBVIOUS
  <2>1. Init /\ log = {}
    BY DEF ReadInit
  <2>2. IndInv
    BY <2>1, IndInit
  <2>3. CausesTruthful /\ HistoryInv /\ OrderInv /\ CreatorNewest
    BY <2>1 DEF Init, CausesTruthful, HistoryInv, OrderInv, CreatorNewest, RowsOf
  <2>4. IsFiniteSet(log) /\ \A r \in log : FALSE
    BY <2>1, FS_EmptySet
  <2>5. \A i \in TxIds : generation[i] = NoRow
    BY <2>1 DEF Init
  <2>6. events = {}
    BY <2>1 DEF Init
  <2>7. LogInv
    BY <2>4, <2>5, <2>6 DEF LogInv, LogPlaced, LogFits, RowsDated, Succession
  <2> QED BY <2>2, <2>3, <2>7 DEF ReadInv
<1>2. ReadInv /\ [ReadNext]_readVars => ReadInv'
  <2> SUFFICES ASSUME ReadInv, [ReadNext]_readVars PROVE ReadInv'
    OBVIOUS
  <2>1. [Next]_vars
    BY DEF ReadNext, readVars
  <2>2. IndInv'
    BY <2>1, IndStep DEF ReadInv
  <2>3. CausesTruthful'
    BY <2>1, CausesStep DEF ReadInv
  <2>4. HistoryInv'
    BY <2>1, HistoryKept DEF ReadInv
  <2>5. OrderInv' /\ CreatorNewest'
    BY <2>1, NewestKept DEF ReadInv
  <2>6. LogInv'
    BY LogKept DEF ReadInv
  <2> QED BY <2>2, <2>3, <2>4, <2>5, <2>6 DEF ReadInv
<1> QED BY <1>1, <1>2, PTL DEF ReadSpec

\* What the API serves is what the ledger says, for any history of the ledger: every
\* generation, event, transaction and count is served, on all pages of it; the endpoints
\* agree on the state of a credential; and a generation with any fault in its row, or with
\* an event that is lost or changed, is refused.
THEOREM ReadsAreTrue == ReadSpec => []ReadsTrue
<1>1. ReadInv => ReadsTrue
  <2> SUFFICES ASSUME ReadInv PROVE ReadsTrue
    OBVIOUS
  <2>1. LogTypeOK
    BY LogSortable DEF ReadInv, LogInv, LogTypeOK, AsEvent, Sortable
  <2>2. ReportedState
    BY ReportedTrue DEF ReadInv
  <2>3. TypeOK
    BY DEF ReadInv, IndInv
  <2> QED BY <2>1, <2>2, <2>3, EverythingServed, PagesAreComplete, EndpointsDoAgree, StateIsProved
          DEF ReadsTrue
<1> QED BY <1>1, ReadInvariance, PTL

\* A page shows a generation only with its true row: with any other one, whatever and
\* however many its faults, the timeline refuses it.
THEOREM OnlyTheTrueRow ==
    ReadSpec => [](\A i \in Generations : \A f \in Rows \ {generation[i]} :
                     GenerationPage(f, TimelineOf(i), i) = "INDEXER_EVIDENCE_INVALID")
<1> DEFINE Only == \A i \in Generations : \A f \in Rows \ {generation[i]} :
                      GenerationPage(f, TimelineOf(i), i) = "INDEXER_EVIDENCE_INVALID"
<1>1. ReadInv => Only
  BY OtherRowRefused DEF Generations
<1> QED BY <1>1, ReadInvariance, PTL

\* The two parts of ProjectionSystem are behaviours of the modules they are about.
LEMMA PartsOf == ProjectionSpec => ReadSpec /\ Catalog!Spec
<1>1. ProjectionInit => ReadInit /\ Catalog!Init
  BY DEF ProjectionInit
<1>2. [ProjectionNext /\ UNCHANGED part]_allVars => [ReadNext]_readVars
  BY DEF ProjectionNext, allVars
<1>3. [ProjectionNext /\ UNCHANGED part]_allVars => [Catalog!Next]_(Catalog!vars)
  <2>1. UNCHANGED schemaVars => UNCHANGED Catalog!vars
    BY DEF schemaVars, Catalog!vars
  <2> QED BY <2>1 DEF ProjectionNext, allVars
<1> QED BY <1>1, <1>2, <1>3, PTL DEF ProjectionSpec, ReadSpec, Catalog!Spec

\* The tables hold the schemas that the ledger's transactions define, and a client that pages
\* has seen all up to its cursor.
THEOREM SchemaInvariance == ProjectionSpec => []SchemaInv
<1>1. Catalog!Init => SchemaInv
  BY InitTables, InitPage DEF SchemaInv
<1>2. SchemaInv /\ [Catalog!Next]_(Catalog!vars) => SchemaInv'
  BY NextTables, NextPageInv DEF SchemaInv
<1> QED BY <1>1, <1>2, PartsOf, PTL DEF Catalog!Spec

\* The API never shows a schema other than the one that the ledger's transactions define:
\* authoritativeResolvedSchema refuses every change of one attribute of one row.
THEOREM SchemasAreTrue == ProjectionSpec => []SchemaTrue
<1>1. SchemaInv => SchemaTrue
  BY TablesServed DEF SchemaInv, SchemaTrue
<1> QED BY <1>1, SchemaInvariance, PTL

\* Whatever definitions are registered, in whatever order: what the indexer accepts passes
\* every check of the API, in every list, and its catalog is served if it is small enough.
THEOREM AcceptedAreServed == ProjectionSpec => []AcceptedServed
<1>1. SchemaInv => AcceptedServed
  BY TablesAccepted, TablesTyped DEF SchemaInv, AcceptedServed
<1> QED BY <1>1, SchemaInvariance, PTL

\* A catalog that is served resolves by itself to what the ledger made of its schemas, and a
\* client that pages misses no row of when it began and sees none twice.
THEOREM CollectionsAreComplete == ProjectionSpec => []CollectionsComplete
<1>1. SchemaInv => CollectionsComplete
  BY TablesSelfContained DEF SchemaInv, PageInv, CollectionsComplete
<1> QED BY <1>1, SchemaInvariance, PTL

=============================================================================
