----------------------------- MODULE WalletProofs -----------------------------
(***************************************************************************)
(* Proofs for WalletOperations: for any operations, tabs, keys and ledgers *)
(* one operation per business key is under way, what the network may still *)
(* apply is recoverable, records are truthful and settled ones are final.  *)
(***************************************************************************)
EXTENDS WalletOperations, TLAPS

\* Steps of a call before it has persisted its signature, and after.
Early == {"prepare", "sign", "persist", "reject"}
Late == Steps \ Early

Persisted == {"signed", "submitted", "pending"}

RowInv ==
    \A o \in Ops :
        /\ txn[o].lls = 0 => row[o] = NoRow
        /\ row[o].stage = "none" => row[o] = NoRow
        /\ row[o].blob <=> row[o].stage \in Persisted
        /\ row[o].stage = "expired" => open > txn[o].lls
        /\ row[o].stage = "validated" => ledger[o] # "none" /\ row[o].result = ledger[o]
        /\ row[o].confirmation \in Verdicts =>
               /\ row[o].stage = "validated" /\ row[o].result = "tes"
               /\ row[o].confirmation = indexed[o]

RelayInv ==
    \A o \in relayed :
        row[o].stage \in Persisted \cup {"validated", "expired"} /\ ~txn[o].malformed

\* What a call may rely on at each of its steps, whatever the other tabs do.
CallInv(c) ==
    /\ c.pc \in Early => row[c.op].stage \in {"none", "prepared"} /\ txn[c.op].lls # 0
    /\ c.pc \in Late => /\ row[c.op].stage \notin {"none", "prepared"}
                        /\ row[c.op].stage = "failed" => txn[c.op].malformed
    /\ c.pc = "malformed" => txn[c.op].malformed
    /\ c.pc = "ack" => /\ c.answer \in Results \cup {"tem"}
                       /\ c.answer = "tem" => txn[c.op].malformed
    /\ c.pc = "record" => /\ c.answer \in {"validated", "expired", "pending"}
                          /\ c.answer = "validated" => ledger[c.op] # "none"
                          /\ c.answer = "expired" => open > txn[c.op].lls
    /\ c.pc = "store" => /\ c.answer \in Verdicts \cup {"timeout"}
                         /\ c.answer \in Verdicts => c.answer = indexed[c.op]

TabInv == \A t \in Tabs : CallInv(tab[t])

\* One call owns an operation until its signature is persisted.
OwnerInv ==
    \A t, u \in Tabs :
        tab[t].pc \in Early /\ tab[u].pc \in Early /\ tab[t].op = tab[u].op => t = u

IndInv == TypeOK /\ OneRecoverable /\ RowInv /\ RelayInv /\ TabInv /\ OwnerInv

-----------------------------------------------------------------------------
\* A step that only moves one tab.
LEMMA TabStep ==
    ASSUME IndInv, NEW t \in Tabs, NEW c \in TabStates \cup {IdleTab},
           tab' = [tab EXCEPT ![t] = c], CallInv(c),
           c.pc \in Early => tab[t].pc \in Early /\ tab[t].op = c.op,
           UNCHANGED <<row, txn, external>>
    PROVE  IndInv'
<1> USE DEF external
<1>1. /\ tab \in [Tabs -> TabStates \cup {IdleTab}]
      /\ tab' \in [Tabs -> TabStates \cup {IdleTab}]
      /\ \A u \in Tabs : tab'[u] = IF u = t THEN c ELSE tab[u]
  BY DEF IndInv, TypeOK
<1>2. TypeOK'
  BY <1>1 DEF IndInv, TypeOK
<1>3. OneRecoverable' /\ RowInv' /\ RelayInv'
  BY DEF IndInv, OneRecoverable, RowInv, RelayInv
<1>4. TabInv'
  <2> SUFFICES ASSUME NEW u \in Tabs PROVE CallInv(tab[u])'
    BY DEF TabInv
  <2>1. CallInv(tab'[u])
    BY <1>1 DEF IndInv, TabInv
  <2> QED BY <2>1 DEF CallInv
<1>5. OwnerInv'
  BY <1>1 DEF IndInv, OwnerInv
<1> QED BY <1>2, <1>3, <1>4, <1>5 DEF IndInv

\* Goto and Return as such steps.
LEMMA GotoStep ==
    ASSUME IndInv, NEW t \in Tabs, tab[t].pc # "idle", NEW pc \in Steps, Goto(t, pc),
           pc \in Early <=> tab[t].pc \in Early,
           pc \notin {"ack", "record", "store"}, pc = "malformed" => txn[tab[t].op].malformed,
           UNCHANGED <<row, txn, external>>
    PROVE  IndInv'
<1> DEFINE c == [tab[t] EXCEPT !.pc = pc, !.answer = "none"]
<1>1. tab[t] \in TabStates /\ tab \in [Tabs -> TabStates \cup {IdleTab}]
  BY DEF IndInv, TypeOK, IdleTab
<1>2. c \in TabStates /\ c.pc = pc /\ c.op = tab[t].op
  BY <1>1 DEF TabStates
<1>3. tab' = [tab EXCEPT ![t] = c]
  BY <1>1 DEF Goto
<1>4. CallInv(c)
  BY <1>1, <1>2 DEF IndInv, TabInv, CallInv, Late, TabStates
<1> HIDE DEF c
<1> QED BY <1>2, <1>3, <1>4, TabStep

LEMMA ReturnStep ==
    ASSUME IndInv, NEW t \in Tabs, Return(t), UNCHANGED <<row, txn, external>>
    PROVE  IndInv'
<1>1. CallInv(IdleTab) /\ IdleTab.pc \notin Early
  BY DEF CallInv, IdleTab, Early, Late, Steps
<1> QED BY <1>1, TabStep DEF Return

-----------------------------------------------------------------------------
\* A step that changes the row of one operation, which was there before and is no
\* draft afterwards unless it was one, and moves one tab that has this operation.
LEMMA RowStep ==
    ASSUME IndInv, NEW t \in Tabs, NEW o \in Ops, NEW r \in Rows,
           NEW c \in TabStates \cup {IdleTab},
           row' = [row EXCEPT ![o] = r], tab' = [tab EXCEPT ![t] = c],
           UNCHANGED <<txn, external>>,
           tab[t].pc # "idle", tab[t].op = o, row[o].stage # "none", r.stage # "none",
           r.stage \in ActiveStages => row[o].stage \in ActiveStages,
           r.stage = "prepared" <=> c.pc \in Early,
           c.pc # "idle" => c.op = o,
           tab[t].pc \in Late => r.stage # "prepared",
           r.blob <=> r.stage \in Persisted,
           r.stage = "expired" => open > txn[o].lls,
           r.stage = "validated" => ledger[o] # "none" /\ r.result = ledger[o],
           r.confirmation \in Verdicts =>
               r.stage = "validated" /\ r.result = "tes" /\ r.confirmation = indexed[o],
           o \in relayed => r.stage \in Persisted \cup {"validated", "expired"},
           r.stage = "failed" => \/ row[o].stage = "failed" \/ txn[o].malformed
                                 \/ tab[t].pc \in Early /\ c.pc = "idle",
           c.pc = "malformed" => txn[o].malformed,
           c.pc \notin {"ack", "record", "store"}
    PROVE  IndInv'
<1> USE DEF external
<1>1. /\ tab \in [Tabs -> TabStates \cup {IdleTab}] /\ tab[t] \in TabStates
      /\ tab' \in [Tabs -> TabStates \cup {IdleTab}]
      /\ \A u \in Tabs : tab'[u] = IF u = t THEN c ELSE tab[u]
  BY DEF IndInv, TypeOK, IdleTab
<1>2. /\ row \in [Ops -> Rows] /\ row' \in [Ops -> Rows]
      /\ \A p \in Ops : row'[p] = IF p = o THEN r ELSE row[p]
  BY DEF IndInv, TypeOK
<1>3. \A u \in Tabs : tab[u].pc # "idle" => tab[u] \in TabStates
  BY <1>1 DEF IdleTab
<1>4. TypeOK'
  BY <1>1, <1>2 DEF IndInv, TypeOK
<1>5. OneRecoverable'
  BY <1>2 DEF IndInv, OneRecoverable
<1>6. RowInv'
  <2> SUFFICES ASSUME NEW p \in Ops PROVE
        /\ txn[p].lls = 0 => row'[p] = NoRow
        /\ row'[p].stage = "none" => row'[p] = NoRow
        /\ row'[p].blob <=> row'[p].stage \in Persisted
        /\ row'[p].stage = "expired" => open > txn[p].lls
        /\ row'[p].stage = "validated" => ledger[p] # "none" /\ row'[p].result = ledger[p]
        /\ row'[p].confirmation \in Verdicts =>
               /\ row'[p].stage = "validated" /\ row'[p].result = "tes"
               /\ row'[p].confirmation = indexed[p]
    BY DEF RowInv
  <2>1. CASE p = o
    <3>1. txn[o].lls # 0
      BY DEF IndInv, RowInv, NoRow
    <3> QED BY <1>2, <2>1, <3>1
  <2>2. CASE p # o
    BY <1>2, <2>2 DEF IndInv, RowInv
  <2> QED BY <2>1, <2>2
<1>7. RelayInv'
  BY <1>2 DEF IndInv, TypeOK, RelayInv
<1>8. TabInv'
  <2> SUFFICES ASSUME NEW u \in Tabs PROVE CallInv(tab[u])'
    BY DEF TabInv
  <2>1. txn[o].lls # 0
    BY DEF IndInv, RowInv, NoRow
  <2>2. CASE u = t
    <3>1. row[o].stage = "failed" => txn[o].malformed
      BY <1>1 DEF IndInv, TabInv, CallInv, Late, TabStates
    <3> QED BY <1>1, <1>2, <2>1, <2>2, <3>1 DEF CallInv, Early, Late, Steps, IdleTab
  <2>3. CASE u # t /\ tab[u].pc = "idle"
    BY <1>1, <2>3 DEF CallInv, Early, Late, Steps
  <2>4. CASE u # t /\ tab[u].pc # "idle"
    <3>1. CallInv(tab[u]) /\ CallInv(tab[t]) /\ tab'[u] = tab[u] /\ tab[u] \in TabStates
      BY <1>1, <1>3, <2>4 DEF IndInv, TabInv
    <3>2. CASE tab[u].op # o
      BY <1>2, <3>1, <3>2 DEF CallInv, TabStates
    <3>3. CASE tab[u].op = o
      <4>1. tab[u].pc \in Late /\ tab[u].pc \notin Early
        <5>1. tab[u].pc \in Early => tab[t].pc \in Early
          BY <1>1, <3>1, <3>3 DEF CallInv, Late, TabStates
        <5> QED BY <1>1, <2>4, <3>1, <3>3, <5>1 DEF IndInv, OwnerInv, Late, TabStates
      <4>2. r.stage # "prepared"
        <5>1. row[o].stage # "prepared"
          BY <3>1, <3>3, <4>1 DEF CallInv
        <5>2. tab[t].pc \in Late
          BY <1>1, <3>1, <5>1 DEF CallInv, Late, TabStates
        <5> QED BY <5>2
      <4> QED BY <1>2, <3>1, <3>3, <4>1, <4>2 DEF CallInv
    <3> QED BY <3>2, <3>3
  <2> QED BY <2>2, <2>3, <2>4
<1>9. OwnerInv'
  <2>1. c.pc \in Early => tab[t].pc \in Early /\ tab[t].op = c.op
    BY <1>1 DEF Late, Early, TabStates
  <2> QED BY <1>1, <2>1 DEF IndInv, OwnerInv
<1> QED BY <1>4, <1>5, <1>6, <1>7, <1>8, <1>9 DEF IndInv

\* append() of an entry that is in order for the step its caller is at.
LEMMA AppendStep ==
    ASSUME IndInv, NEW t \in Tabs, tab[t].pc # "idle",
           NEW stage \in ActiveStages \cup TerminalStages, NEW result \in Results \cup {"none"},
           NEW pc \in Steps \cup {"idle"}, Append(t, stage, result, pc),
           stage = "prepared" <=> pc \in Early,
           stage = "prepared" => tab[t].pc \in Early,
           stage \in Persisted \cup {"validated", "expired"} => tab[t].pc \in Late,
           stage = "failed" => /\ tab[t].op \notin relayed /\ pc = "idle"
                               /\ tab[t].pc \in Early \/ txn[tab[t].op].malformed,
           stage = "expired" => open > txn[tab[t].op].lls,
           stage = "validated" => result # "none" /\ result = ledger[tab[t].op],
           pc = "malformed" => txn[tab[t].op].malformed,
           pc \notin {"ack", "record", "store"}
    PROVE  IndInv'
<1> DEFINE o == tab[t].op
           r == ApplyJournalEntry(row[o], stage, result)
           c == IF pc = "idle" THEN IdleTab ELSE [tab[t] EXCEPT !.pc = pc, !.answer = "none"]
<1>1. /\ tab[t] \in TabStates /\ tab \in [Tabs -> TabStates \cup {IdleTab}] /\ o \in Ops
      /\ row \in [Ops -> Rows] /\ row[o] \in Rows /\ CallInv(tab[t])
  BY DEF IndInv, TypeOK, TabInv, IdleTab, TabStates
<1>2. CASE row[o] = NoRow
  BY <1>2, ReturnStep DEF Append
<1>3. CASE row[o] # NoRow
  <2>1. /\ row' = [row EXCEPT ![o] = r] /\ tab' = [tab EXCEPT ![t] = c]
        /\ UNCHANGED <<txn, external>>
    BY <1>1, <1>3 DEF Append, Goto, Return
  <2>2. c \in TabStates \cup {IdleTab} /\ c.pc = pc /\ (pc # "idle" => c.op = o)
    BY <1>1 DEF TabStates, IdleTab
  <2>3. /\ row[o].blob <=> row[o].stage \in Persisted
        /\ row[o].stage = "expired" => open > txn[o].lls
        /\ row[o].stage = "validated" => ledger[o] # "none" /\ row[o].result = ledger[o]
        /\ row[o].confirmation \in Verdicts =>
               /\ row[o].stage = "validated" /\ row[o].result = "tes"
               /\ row[o].confirmation = indexed[o]
        /\ o \in relayed => row[o].stage \in Persisted \cup {"validated", "expired"}
    BY <1>1 DEF IndInv, RowInv, RelayInv
  <2>4. row[o].stage # "none"
    BY <1>1, <1>3 DEF IndInv, RowInv
  <2>5. CASE row[o].stage \in TerminalStages
    <3>1. r = row[o]
      BY <2>5 DEF ApplyJournalEntry
    <3>2. row[o].stage \notin ActiveStages /\ tab[t].pc \in Late /\ stage # "prepared"
      BY <1>1, <2>5 DEF ActiveStages, TerminalStages, CallInv, Late, TabStates
    <3> HIDE DEF r, c, o
    <3> QED BY <1>1, <2>1, <2>2, <2>3, <2>4, <3>1, <3>2, RowStep DEF ActiveStages, o
  <2>6. CASE row[o].stage \notin TerminalStages
    <3>1. /\ r \in Rows /\ r.stage = stage /\ r.confirmation = row[o].confirmation
          /\ r.blob = IF stage \in TerminalStages THEN FALSE ELSE row[o].blob
          /\ result # "none" => r.result = result
      BY ZenonT(40), <1>1, <2>6 DEF ApplyJournalEntry, Rows
    <3>2. row[o].stage \in ActiveStages /\ row[o].confirmation \notin Verdicts
      BY <1>1, <2>3, <2>4, <2>6 DEF Rows, TerminalStages
    <3>3. r.blob <=> r.stage \in Persisted
      <4>1. CASE stage \in TerminalStages
        BY <3>1, <4>1 DEF TerminalStages, Persisted
      <4>2. CASE stage = "prepared"
        BY <1>1, <2>3, <3>1, <4>2 DEF TerminalStages, Persisted, CallInv
      <4>3. CASE stage \in Persisted
        <5>1. row[o].stage \in Persisted
          BY <1>1, <3>2, <4>3 DEF CallInv, ActiveStages, Persisted
        <5> QED BY <2>3, <3>1, <4>3, <5>1 DEF TerminalStages, Persisted
      <4> QED BY <4>1, <4>2, <4>3 DEF ActiveStages, TerminalStages, Persisted
    <3>4. o \in relayed => stage \in Persisted \cup {"validated", "expired"}
      BY <1>1, <2>3 DEF ActiveStages, TerminalStages, Persisted, CallInv
    <3>5. tab[t].pc \in Late => stage # "prepared"
      BY DEF Late
    <3> HIDE DEF r, c, o
    <3> QED
      BY ZenonT(40), <1>1, <2>1, <2>2, <2>4, <3>1, <3>2, <3>3, <3>4, <3>5, RowStep
         DEF ActiveStages, TerminalStages, o
  <2> QED BY <2>5, <2>6
<1> QED BY <1>2, <1>3

-----------------------------------------------------------------------------
(* The actions that are not of these forms.                                *)

LEMMA AbandonStep ==
    ASSUME IndInv, NEW t \in Tabs, NEW o \in Ops, Abandon(t, o)
    PROVE  IndInv'
<1> USE DEF external
<1>1. /\ row \in [Ops -> Rows] /\ NoRow \in Rows /\ row' \in [Ops -> Rows]
      /\ \A p \in Ops : row'[p] = IF p = o THEN NoRow ELSE row[p]
      /\ UNCHANGED <<tab, txn, open, validated, relayed, ledger, indexed>>
      /\ row[o].stage = "prepared"
  BY DEF IndInv, TypeOK, Abandon, Rows, NoRow, CanAbandonOperation
<1>2. TypeOK'
  BY <1>1 DEF IndInv, TypeOK
<1>3. OneRecoverable'
  BY <1>1 DEF IndInv, OneRecoverable, NoRow, ActiveStages
<1>4. RowInv'
  BY <1>1 DEF IndInv, RowInv, NoRow, Persisted, Verdicts
<1>5. RelayInv'
  BY <1>1 DEF IndInv, TypeOK, RelayInv, Persisted
<1>6. TabInv'
  <2> SUFFICES ASSUME NEW u \in Tabs PROVE CallInv(tab[u])'
    BY DEF TabInv
  <2>1. CallInv(tab[u]) /\ tab[u] \in TabStates \cup {IdleTab}
    BY DEF IndInv, TypeOK, TabInv
  <2> QED BY <1>1, <2>1 DEF CallInv, NoRow, TabStates, IdleTab, Early, Late, Steps
<1>7. OwnerInv'
  BY <1>1 DEF IndInv, OwnerInv
<1> QED BY <1>2, <1>3, <1>4, <1>5, <1>6, <1>7 DEF IndInv

\* create() takes an operation that no row and no tab knows.
LEMMA CreateStep ==
    ASSUME IndInv, NEW t \in Tabs, NEW o \in Ops, Create(t, o)
    PROVE  IndInv'
<1> USE DEF external
<1> DEFINE r == [stage |-> "prepared", blob |-> FALSE, result |-> "none",
                 confirmation |-> "pending"]
           c == [pc |-> "prepare", op |-> o, checking |-> FALSE, answer |-> "none"]
<1>1. /\ row \in [Ops -> Rows] /\ tab \in [Tabs -> TabStates \cup {IdleTab}]
      /\ txn \in [Ops -> Txns] /\ open \in 1 .. MaxLedger
  BY DEF IndInv, TypeOK
<1>2. r \in Rows /\ c \in TabStates /\ [txn[o] EXCEPT !.lls = open + Window] \in Txns
      /\ [txn[o] EXCEPT !.lls = open + Window].lls # 0
  BY <1>1, WalletConstants
     DEF Rows, TabStates, Txns, Steps, ActiveStages, Verdicts
<1>3. /\ row' \in [Ops -> Rows] /\ \A p \in Ops : row'[p] = IF p = o THEN r ELSE row[p]
      /\ tab' \in [Tabs -> TabStates \cup {IdleTab}]
      /\ \A u \in Tabs : tab'[u] = IF u = t THEN c ELSE tab[u]
      /\ txn' \in [Ops -> Txns] /\ txn'[o].lls # 0
      /\ \A p \in Ops : p # o => txn'[p] = txn[p]
      /\ UNCHANGED <<open, validated, relayed, ledger, indexed>>
  BY <1>1, <1>2 DEF Create
<1>4. txn[o].lls = 0 /\ row[o] = NoRow /\ o \notin relayed
  BY DEF Create, NoTxn, IndInv, RowInv, RelayInv, NoRow, Persisted
<1>5. \A u \in Tabs : tab[u].pc # "idle" => tab[u].op # o /\ tab[u].op \in Ops
  BY <1>1, <1>4 DEF IndInv, TabInv, CallInv, NoRow, TabStates, IdleTab, Late
<1>6. TypeOK'
  BY <1>3 DEF IndInv, TypeOK
<1>7. OneRecoverable'
  <2>1. \A p \in Ops : p # o /\ BusinessKey[p] = BusinessKey[o] => row[p].stage \notin ActiveStages
    BY DEF Create, LockedByOther, HoldsBusinessLock
  <2> QED BY <1>3, <2>1 DEF IndInv, OneRecoverable
<1>8. RowInv'
  BY <1>3 DEF IndInv, RowInv, NoRow, Persisted, Verdicts
<1>9. RelayInv'
  BY <1>3, <1>4 DEF IndInv, TypeOK, RelayInv
<1>10. TabInv'
  <2> SUFFICES ASSUME NEW u \in Tabs PROVE CallInv(tab[u])'
    BY DEF TabInv
  <2>1. CASE u = t
    BY <1>3, <2>1 DEF CallInv, Early, Late, Steps
  <2>2. CASE u # t /\ tab[u].pc = "idle"
    BY <1>3, <2>2 DEF CallInv, Early, Late, Steps
  <2>3. CASE u # t /\ tab[u].pc # "idle"
    <3>1. CallInv(tab[u]) /\ tab'[u] = tab[u]
      BY <1>3, <2>3 DEF IndInv, TabInv
    <3> QED BY <1>3, <1>5, <2>3, <3>1 DEF CallInv
  <2> QED BY <2>1, <2>2, <2>3
<1>11. OwnerInv'
  <2>1. \A u \in Tabs : tab[u].pc \in Early => tab[u].op # o
    BY <1>5 DEF Early
  <2> QED BY <1>3, <2>1 DEF IndInv, OwnerInv
<1> QED BY <1>6, <1>7, <1>8, <1>9, <1>10, <1>11 DEF IndInv

\* Sign settles the transaction of an operation that only this call has.
LEMMA SignStep ==
    ASSUME IndInv, NEW t \in Tabs, Sign(t)
    PROVE  IndInv'
<1> USE DEF external
<1> DEFINE o == tab[t].op
           c == [tab[t] EXCEPT !.pc = "persist", !.answer = "none"]
<1>1. /\ tab \in [Tabs -> TabStates \cup {IdleTab}] /\ tab[t] \in TabStates /\ o \in Ops
      /\ txn \in [Ops -> Txns] /\ open \in 1 .. MaxLedger /\ CallInv(tab[t])
  BY DEF IndInv, TypeOK, TabInv, Sign, IdleTab, TabStates
<1>2. PICK lls \in {txn[o].lls, open + Window}, malformed \in BOOLEAN :
        txn' = [txn EXCEPT ![o] = [lls |-> lls, malformed |-> malformed]]
  BY DEF Sign
<1>3. lls \in 0 .. MaxLedger + Window /\ lls # 0
  BY <1>1, <1>2, WalletConstants DEF CallInv, Sign, Early, Txns
<1>4. [lls |-> lls, malformed |-> malformed] \in Txns
  BY <1>3 DEF Txns
<1>5. /\ txn' \in [Ops -> Txns] /\ txn'[o].lls # 0
      /\ \A p \in Ops : p # o => txn'[p] = txn[p]
  BY <1>1, <1>2, <1>3, <1>4
<1>6. c \in TabStates /\ c.pc = "persist" /\ c.op = o
  BY <1>1 DEF TabStates, Steps
<1>7. /\ tab' \in [Tabs -> TabStates \cup {IdleTab}]
      /\ \A u \in Tabs : tab'[u] = IF u = t THEN c ELSE tab[u]
      /\ UNCHANGED <<row, open, validated, relayed, ledger, indexed>>
  BY <1>1, <1>6 DEF Sign, Goto
<1>8. tab[t].pc \in Early /\ row[o].stage \in {"none", "prepared"}
  BY <1>1 DEF Sign, CallInv, Early
<1>9. \A u \in Tabs : u # t /\ tab[u].pc # "idle" => tab[u].op # o /\ tab[u].op \in Ops
  <2> TAKE u \in Tabs
  <2>1. CallInv(tab[u]) /\ tab[u] \in TabStates \cup {IdleTab}
    BY <1>1 DEF IndInv, TabInv
  <2> QED BY <1>8, <2>1 DEF IndInv, OwnerInv, CallInv, TabStates, IdleTab, Late
<1> HIDE DEF o, c
<1>10. o \notin relayed
  BY <1>8 DEF IndInv, RelayInv, Persisted
<1>11. TypeOK'
  BY <1>5, <1>7 DEF IndInv, TypeOK
<1>12. OneRecoverable'
  BY <1>7 DEF IndInv, OneRecoverable
<1>13. RowInv'
  <2> SUFFICES ASSUME NEW p \in Ops PROVE
        /\ txn'[p].lls = 0 => row[p] = NoRow
        /\ row[p].stage = "expired" => open > txn'[p].lls
    BY <1>7 DEF IndInv, RowInv
  <2> QED BY <1>5, <1>8 DEF IndInv, RowInv
<1>14. RelayInv'
  BY <1>5, <1>7, <1>10 DEF IndInv, TypeOK, RelayInv
<1>15. TabInv'
  <2> SUFFICES ASSUME NEW u \in Tabs PROVE CallInv(tab[u])'
    BY DEF TabInv
  <2>1. CASE u = t
    BY <1>5, <1>6, <1>7, <1>8, <2>1 DEF CallInv, Early, Late, Steps
  <2>2. CASE u # t /\ tab[u].pc = "idle"
    BY <1>7, <2>2 DEF CallInv, Early, Late, Steps
  <2>3. CASE u # t /\ tab[u].pc # "idle"
    <3>1. CallInv(tab[u]) /\ tab'[u] = tab[u] /\ txn'[tab[u].op] = txn[tab[u].op]
      BY <1>5, <1>7, <1>9, <2>3 DEF IndInv, TabInv
    <3> QED BY <1>7, <3>1 DEF CallInv
  <2> QED BY <2>1, <2>2, <2>3
<1>16. OwnerInv'
  BY <1>6, <1>7, <1>8 DEF IndInv, OwnerInv, o
<1> QED BY <1>11, <1>12, <1>13, <1>14, <1>15, <1>16 DEF IndInv

LEMMA PersistSignedStep ==
    ASSUME IndInv, NEW t \in Tabs, PersistSigned(t)
    PROVE  IndInv'
<1> DEFINE o == tab[t].op
           r == [row[o] EXCEPT !.stage = "signed", !.blob = TRUE]
           c == [tab[t] EXCEPT !.pc = "signed", !.answer = "none"]
<1>1. /\ tab \in [Tabs -> TabStates \cup {IdleTab}] /\ tab[t] \in TabStates /\ o \in Ops
      /\ row \in [Ops -> Rows] /\ row[o] \in Rows /\ tab[t].pc \in Early
  BY DEF IndInv, TypeOK, PersistSigned, IdleTab, TabStates, Early
<1>2. CASE row[o].stage = "prepared" /\ ~LockedByOther(o)
  <2>1. row' = [row EXCEPT ![o] = r] /\ tab' = [tab EXCEPT ![t] = c] /\ UNCHANGED <<txn, external>>
    BY <1>1, <1>2 DEF PersistSigned, Goto
  <2>2. c \in TabStates /\ c.pc = "signed" /\ c.op = o /\ c.pc \notin Early
    BY <1>1 DEF TabStates, Steps, Early
  <2>3. /\ r \in Rows /\ r.stage = "signed" /\ r.blob = TRUE
        /\ r.confirmation = row[o].confirmation
    BY <1>1 DEF Rows, ActiveStages
  <2>4. row[o].confirmation \notin Verdicts /\ o \notin relayed
    BY <1>1, <1>2 DEF IndInv, RowInv, RelayInv, Persisted
  <2>5. tab[t].pc # "idle" /\ tab[t].pc \notin Late
    BY <1>1 DEF Early, Late
  <2> HIDE DEF r, c, o
  <2> QED BY <1>1, <1>2, <2>1, <2>2, <2>3, <2>4, <2>5, RowStep
             DEF ActiveStages, Persisted, o
<1>3. CASE ~(row[o].stage = "prepared" /\ ~LockedByOther(o))
  BY <1>1, <1>3, GotoStep DEF PersistSigned, Early, Steps
<1> QED BY <1>2, <1>3

\* Submit relays only what a row accounts for.
LEMMA SubmitStep ==
    ASSUME IndInv, NEW t \in Tabs, Submit(t)
    PROVE  IndInv'
<1> USE DEF external
<1> DEFINE o == tab[t].op
<1>1. /\ tab \in [Tabs -> TabStates \cup {IdleTab}] /\ tab[t] \in TabStates /\ o \in Ops
      /\ row \in [Ops -> Rows] /\ row[o] \in Rows /\ CallInv(tab[t]) /\ tab[t].pc = "submit"
  BY DEF IndInv, TypeOK, TabInv, Submit, IdleTab, TabStates
<1>2. /\ UNCHANGED <<row, txn, open, validated, ledger, indexed>>
      /\ relayed' \subseteq relayed \cup {o} /\ (o \in relayed' \ relayed => ~txn[o].malformed)
      /\ relayed \subseteq relayed'
  BY DEF Submit
<1>3. PICK answer \in Results \cup {"tem"} :
        /\ answer = "tem" => txn[o].malformed
        /\ tab' \in {[tab EXCEPT ![t].pc = "ack", ![t].answer = answer, ![t].checking = FALSE],
                     [tab EXCEPT ![t].pc = "lost", ![t].checking = FALSE]}
  BY DEF Submit, Results
<1>4. PICK c \in TabStates :
        /\ c.op = o /\ c.pc \in {"ack", "lost"} /\ (c.pc = "ack" => c.answer = answer)
        /\ tab' = [tab EXCEPT ![t] = c]
  <2>1. CASE tab' = [tab EXCEPT ![t].pc = "ack", ![t].answer = answer, ![t].checking = FALSE]
    <3> DEFINE c == [tab[t] EXCEPT !.pc = "ack", !.answer = answer, !.checking = FALSE]
    <3>1. c \in TabStates /\ c.op = o /\ c.pc = "ack" /\ c.answer = answer
      BY <1>1 DEF TabStates, Steps, Results
    <3>2. tab' = [tab EXCEPT ![t] = c]
      BY <1>1, <2>1
    <3> QED BY <3>1, <3>2
  <2>2. CASE tab' = [tab EXCEPT ![t].pc = "lost", ![t].checking = FALSE]
    <3> DEFINE c == [tab[t] EXCEPT !.pc = "lost", !.checking = FALSE]
    <3>1. c \in TabStates /\ c.op = o /\ c.pc = "lost"
      BY <1>1 DEF TabStates, Steps
    <3>2. tab' = [tab EXCEPT ![t] = c]
      BY <1>1, <2>2
    <3> QED BY <3>1, <3>2
  <2> QED BY <1>3, <2>1, <2>2
<1>5. /\ tab' \in [Tabs -> TabStates \cup {IdleTab}]
      /\ \A u \in Tabs : tab'[u] = IF u = t THEN c ELSE tab[u]
  BY <1>1, <1>4
<1> HIDE DEF o
<1>6. TypeOK'
  BY <1>1, <1>2, <1>5 DEF IndInv, TypeOK
<1>7. OneRecoverable' /\ RowInv'
  BY <1>2 DEF IndInv, OneRecoverable, RowInv
<1>8. RelayInv'
  <2>1. ~txn[o].malformed => row[o].stage \in Persisted \cup {"validated", "expired"}
    BY <1>1 DEF CallInv, Late, Early, Steps, Rows, ActiveStages, TerminalStages, Persisted, o
  <2> QED BY <1>2, <2>1 DEF IndInv, RelayInv
<1>9. TabInv'
  <2> SUFFICES ASSUME NEW u \in Tabs PROVE CallInv(tab[u])'
    BY DEF TabInv
  <2>1. CASE u = t
    BY <1>1, <1>2, <1>3, <1>4, <1>5, <2>1 DEF CallInv, Early, Late, Steps, o
  <2>2. CASE u # t
    BY <1>2, <1>5, <2>2 DEF IndInv, TabInv, CallInv
  <2> QED BY <2>1, <2>2
<1>10. OwnerInv'
  <2>1. c.pc \notin Early
    BY <1>4 DEF Early
  <2> QED BY <1>5, <2>1 DEF IndInv, OwnerInv
<1> QED BY <1>6, <1>7, <1>8, <1>9, <1>10 DEF IndInv

LEMMA SetBusinessConfirmationStep ==
    ASSUME IndInv, NEW t \in Tabs, SetBusinessConfirmation(t)
    PROVE  IndInv'
<1> DEFINE o == tab[t].op
           r == [row[o] EXCEPT !.confirmation = tab[t].answer]
<1>1. /\ tab[t] \in TabStates /\ o \in Ops /\ CallInv(tab[t]) /\ tab[t].pc = "store"
      /\ row \in [Ops -> Rows] /\ row[o] \in Rows
  BY DEF IndInv, TypeOK, TabInv, SetBusinessConfirmation, IdleTab, TabStates
<1>2. CASE row[o].stage = "validated" /\ row[o].result = "tes"
  <2>1. /\ row' = [row EXCEPT ![o] = r] /\ tab' = [tab EXCEPT ![t] = IdleTab]
        /\ UNCHANGED <<txn, external>>
    BY <1>1, <1>2 DEF SetBusinessConfirmation, Return
  <2>2. /\ tab[t].answer \in Verdicts \cup {"timeout"}
        /\ tab[t].answer \in Verdicts => tab[t].answer = indexed[o]
    BY <1>1 DEF CallInv
  <2>3. /\ r \in Rows /\ r.stage = "validated" /\ r.result = "tes" /\ r.blob = row[o].blob
        /\ r.confirmation = tab[t].answer
    BY <1>1, <1>2, <2>2 DEF Rows
  <2>4. /\ row[o].blob <=> row[o].stage \in Persisted
        /\ ledger[o] # "none" /\ row[o].result = ledger[o]
    BY <1>1, <1>2 DEF IndInv, RowInv
  <2>5. IdleTab \in TabStates \cup {IdleTab} /\ IdleTab.pc = "idle" /\ "idle" \notin Early
    BY DEF IdleTab, Early
  <2> HIDE DEF r, o
  <2> QED BY ZenonT(40), <1>1, <1>2, <2>1, <2>2, <2>3, <2>4, <2>5, RowStep
             DEF ActiveStages, o
<1>3. CASE ~(row[o].stage = "validated" /\ row[o].result = "tes")
  BY <1>3, ReturnStep DEF SetBusinessConfirmation
<1> QED BY <1>2, <1>3

-----------------------------------------------------------------------------
(* The calls.                                                              *)

\* A tab that is not idle is in a call, at a step before or after persistSigned.
LEMMA InCall ==
    ASSUME IndInv, NEW t \in Tabs, tab[t].pc # "idle"
    PROVE  /\ tab \in [Tabs -> TabStates \cup {IdleTab}] /\ tab[t] \in TabStates
           /\ tab[t].op \in Ops /\ CallInv(tab[t])
           /\ ledger[tab[t].op] \in Results \cup {"none"}
           /\ indexed[tab[t].op] \in Verdicts \cup {"none"}
BY DEF IndInv, TypeOK, TabInv, IdleTab, TabStates, Verdicts

\* The journal entries of a call.
LEMMA AppendSteps ==
    ASSUME IndInv, NEW t \in Tabs,
           \/ AppendPrepared(t) \/ AppendFailed(t) \/ AppendSigned(t) \/ AppendRefused(t)
           \/ AppendSubmitted(t) \/ AppendLost(t)
    PROVE  IndInv'
<1> USE DEF Early, Late, Steps, ActiveStages, TerminalStages, Persisted, Results
<1>1. CASE AppendPrepared(t)
  BY <1>1, AppendStep DEF AppendPrepared
<1>2. CASE AppendFailed(t)
  <2>1. tab[t].pc # "idle"
    BY <1>2 DEF AppendFailed
  <2>2. tab[t].op \notin relayed /\ (tab[t].pc \in Early \/ txn[tab[t].op].malformed)
    BY SMTT(30), <1>2, <2>1, InCall DEF AppendFailed, CallInv, IndInv, RelayInv
  <2> QED BY <1>2, <2>1, <2>2, AppendStep DEF AppendFailed
<1>3. CASE AppendSigned(t)
  BY <1>3, AppendStep DEF AppendSigned
<1>4. CASE AppendRefused(t)
  BY <1>4, AppendStep DEF AppendRefused
<1>5. CASE AppendSubmitted(t)
  <2>1. tab[t].answer \in Results \cup {"tem"} /\ (tab[t].answer = "tem" => txn[tab[t].op].malformed)
    BY <1>5, InCall DEF AppendSubmitted, CallInv
  <2> QED BY ZenonT(40), <1>5, <2>1, AppendStep DEF AppendSubmitted
<1>6. CASE AppendLost(t)
  BY <1>6, AppendStep DEF AppendLost
<1> QED BY SMTT(30), <1>1, <1>2, <1>3, <1>4, <1>5, <1>6

\* The last entry of a submission writes what getTransactionStatus returned.
LEMMA RecordStep ==
    ASSUME IndInv, NEW t \in Tabs, Record(t)
    PROVE  IndInv'
<1> DEFINE o == tab[t].op
           result == IF tab[t].answer = "validated" THEN ledger[o] ELSE "none"
<1>1. /\ tab[t].pc = "record"
      /\ Append(t, tab[t].answer, result, IF result = "tes" THEN "evidence" ELSE "idle")
  BY DEF Record
<1>2. CallInv(tab[t]) /\ ledger[o] \in Results \cup {"none"}
  BY <1>1, InCall
<1>3. /\ tab[t].answer \in {"validated", "expired", "pending"}
      /\ tab[t].answer = "validated" => ledger[o] # "none"
      /\ tab[t].answer = "expired" => open > txn[o].lls
  BY <1>1, <1>2 DEF CallInv
<1>4. result \in Results \cup {"none"}
  BY <1>2
<1> DEFINE stage == tab[t].answer
           pc == IF result = "tes" THEN "evidence" ELSE "idle"
<1>5. Append(t, stage, result, pc)
  BY <1>1
<1>6. /\ stage \in ActiveStages \cup TerminalStages /\ stage \notin {"prepared", "failed"}
      /\ stage = "expired" => open > txn[tab[t].op].lls
      /\ stage = "validated" => result # "none" /\ result = ledger[tab[t].op]
  BY <1>3 DEF ActiveStages, TerminalStages
<1>7. tab[t].pc \in Late /\ tab[t].pc # "idle"
  BY <1>1 DEF Late, Early, Steps
<1>8. pc \in Steps \cup {"idle"} /\ pc \notin Early /\ pc \notin {"ack", "record", "store", "malformed"}
  BY DEF Early, Steps
<1> HIDE DEF stage, pc, result
<1> QED
  BY <1>4, <1>5, <1>6, <1>7, <1>8, AppendStep

\* A late call that goes on with an answer it has just got.
LEMMA AnswerStep ==
    ASSUME IndInv, NEW t \in Tabs, tab[t].pc \in Late, NEW pc \in Late,
           NEW answer \in {"validated", "expired", "pending", "timeout"} \cup Verdicts,
           tab' = [tab EXCEPT ![t].pc = pc, ![t].answer = answer],
           pc \notin {"malformed", "ack"},
           pc = "record" => /\ answer \in {"validated", "expired", "pending"}
                            /\ answer = "validated" => ledger[tab[t].op] # "none"
                            /\ answer = "expired" => open > txn[tab[t].op].lls,
           pc = "store" => /\ answer \in Verdicts \cup {"timeout"}
                           /\ answer \in Verdicts => answer = indexed[tab[t].op],
           UNCHANGED <<row, txn, external>>
    PROVE  IndInv'
<1> DEFINE c == [tab[t] EXCEPT !.pc = pc, !.answer = answer]
<1>1. /\ tab \in [Tabs -> TabStates \cup {IdleTab}] /\ tab[t] \in TabStates
      /\ CallInv(tab[t])
  BY InCall DEF Late, Steps
<1>2. c \in TabStates /\ c.pc = pc /\ c.op = tab[t].op /\ c.answer = answer
  BY <1>1 DEF TabStates, Late, Verdicts
<1>3. tab' = [tab EXCEPT ![t] = c]
  BY <1>1
<1>4. CallInv(c) /\ c.pc \notin Early
  BY <1>1, <1>2 DEF CallInv, Late
<1> HIDE DEF c
<1> QED BY <1>2, <1>3, <1>4, TabStep

LEMMA UndecidedStep ==
    ASSUME IndInv, NEW t \in Tabs, tab[t].pc \in {"lookup", "current"}, Undecided(t),
           UNCHANGED <<row, txn, external>>
    PROVE  IndInv'
<1> USE DEF Early, Late, Steps
<1>1. CASE Goto(t, "owned")
  BY <1>1, GotoStep
<1>2. CASE Goto(t, "lookup")
  BY <1>2, GotoStep
<1>3. CASE tab' = [tab EXCEPT ![t].pc = "record", ![t].answer = "pending"]
  BY ZenonT(40), <1>3, AnswerStep
<1> QED BY <1>1, <1>2, <1>3 DEF Undecided

\* The steps of a call that write nothing.
LEMMA TabSteps ==
    ASSUME IndInv, NEW t \in Tabs,
           \/ SignFails(t) \/ Guards(t) \/ AppendRejects(t) \/ Lookup(t) \/ CurrentLedger(t)
           \/ AssertLockOwned(t) \/ WaitForEvidence(t) \/ Abort(t)
    PROVE  IndInv'
<1> USE DEF Early, Late, Steps
<1>1. CASE SignFails(t)
  BY <1>1, GotoStep DEF SignFails
<1>2. CASE Guards(t)
  BY <1>2, GotoStep DEF Guards
<1>3. CASE Lookup(t)
  <2>1. CASE ledger[tab[t].op] # "none" /\ Decided(t, "validated")
    <3>1. /\ tab[t].pc = "lookup" /\ UNCHANGED <<row, txn, external>>
          /\ tab' = [tab EXCEPT ![t].pc = "record", ![t].answer = "validated"]
      BY <1>3, <2>1 DEF Lookup, Decided
    <3> QED BY <2>1, <3>1, AnswerStep
  <2>2. CASE Undecided(t)
    BY <1>3, <2>2, UndecidedStep DEF Lookup
  <2>3. CASE Goto(t, "current")
    BY <1>3, <2>3, GotoStep DEF Lookup
  <2> QED BY <1>3, <2>1, <2>2, <2>3 DEF Lookup
<1>4. CASE CurrentLedger(t)
  <2>1. CASE Expired(tab[t].op) /\ Decided(t, "expired")
    <3>1. /\ tab[t].pc = "current" /\ UNCHANGED <<row, txn, external>>
          /\ tab' = [tab EXCEPT ![t].pc = "record", ![t].answer = "expired"]
          /\ open > txn[tab[t].op].lls
      BY <1>4, <2>1 DEF CurrentLedger, Decided, Expired
    <3> QED BY <3>1, AnswerStep
  <2>2. CASE Undecided(t)
    BY <1>4, <2>2, UndecidedStep DEF CurrentLedger
  <2> QED BY <1>4, <2>1, <2>2 DEF CurrentLedger
<1>5. CASE AssertLockOwned(t)
  <2>1. CASE Return(t)
    BY <1>5, <2>1, ReturnStep DEF AssertLockOwned
  <2>2. CASE Goto(t, "ownedAgain")
    BY <1>5, <2>2, GotoStep DEF AssertLockOwned
  <2>3. CASE Goto(t, "signed")
    BY <1>5, <2>3, GotoStep DEF AssertLockOwned
  <2> QED BY <1>5, <2>1, <2>2, <2>3 DEF AssertLockOwned
<1>6. CASE WaitForEvidence(t)
  <2>1. PICK answer \in {indexed[tab[t].op], "timeout"} \ {"none"} :
          tab' = [tab EXCEPT ![t].pc = "store", ![t].answer = answer]
    BY <1>6 DEF WaitForEvidence
  <2>2. /\ answer \in Verdicts \cup {"timeout"}
        /\ answer \in Verdicts => answer = indexed[tab[t].op]
    BY <1>6, <2>1, InCall DEF WaitForEvidence, Verdicts
  <2> QED BY <1>6, <2>1, <2>2, AnswerStep DEF WaitForEvidence
<1>7. CASE Abort(t)
  BY <1>7, ReturnStep DEF Abort
<1>8. CASE AppendRejects(t)
  BY <1>8, GotoStep DEF AppendRejects
<1> QED BY <1>1, <1>2, <1>3, <1>4, <1>5, <1>6, <1>7, <1>8

\* retryOperation and reconfirmOperation take an operation that is past persistSigned.
LEMMA CallSteps ==
    ASSUME IndInv, NEW t \in Tabs, NEW o \in Ops, Retry(t, o) \/ Reconfirm(t, o)
    PROVE  IndInv'
<1>1. PICK pc \in {"lookup", "evidence"}, checking \in BOOLEAN : Call(t, o, pc, checking)
  BY DEF Retry, Reconfirm
<1>2. row[o].stage \in {"signed", "submitted", "pending", "validated"}
  BY DEF Retry, Reconfirm, CanRetryOperation, CanReconfirmOperation
<1> DEFINE c == [pc |-> pc, op |-> o, checking |-> checking, answer |-> "none"]
<1>3. c \in TabStates /\ c.pc = pc /\ c.op = o
  BY <1>1 DEF TabStates, Steps
<1>4. CallInv(c) /\ c.pc \notin Early
  BY <1>1, <1>2 DEF CallInv, Early, Late, Steps
<1>5. tab' = [tab EXCEPT ![t] = c] /\ UNCHANGED <<row, txn, external>>
  BY <1>1 DEF Call
<1> HIDE DEF c
<1> QED BY <1>3, <1>4, <1>5, TabStep

-----------------------------------------------------------------------------
(* The ledger and the indexer.                                             *)

LEMMA OpenLedgerStep ==
    ASSUME IndInv, OpenLedger
    PROVE  IndInv'
<1>1. /\ open' = open + 1 /\ open < MaxLedger /\ open \in 1 .. MaxLedger /\ open' \in 1 .. MaxLedger
      /\ \A o \in Ops : txn[o].lls \in Int
      /\ UNCHANGED <<row, tab, txn, validated, relayed, ledger, indexed>>
  BY WalletConstants DEF IndInv, TypeOK, OpenLedger, Txns
<1>2. \A o \in Ops : open > txn[o].lls => open' > txn[o].lls
  BY <1>1
<1>3. TypeOK' /\ OneRecoverable' /\ RelayInv' /\ OwnerInv'
  BY <1>1 DEF IndInv, TypeOK, OneRecoverable, RelayInv, OwnerInv
<1>4. RowInv'
  BY <1>1, <1>2 DEF IndInv, RowInv
<1>5. TabInv'
  <2> SUFFICES ASSUME NEW u \in Tabs PROVE CallInv(tab[u])'
    BY DEF TabInv
  <2>1. CallInv(tab[u]) /\ (tab[u].pc = "record" => tab[u].op \in Ops)
    BY InCall DEF IndInv, TabInv
  <2> QED BY <1>1, <1>2, <2>1 DEF CallInv
<1> QED BY <1>3, <1>4, <1>5 DEF IndInv

LEMMA ValidateStep ==
    ASSUME IndInv, Validate
    PROVE  IndInv'
<1>1. /\ UNCHANGED <<row, tab, txn, open, relayed, indexed>>
      /\ validated \in 0 .. MaxLedger /\ validated' = validated + 1
      /\ validated + 1 < open /\ open \in 1 .. MaxLedger
      /\ ledger \in [Ops -> Results \cup {"none"}]
  BY DEF IndInv, TypeOK, Validate
<1>2. PICK some \in SUBSET {o \in Ops : Live(o)} : \E result \in [some -> Results] :
        ledger' = [o \in Ops |-> IF o \in some THEN result[o] ELSE ledger[o]]
  BY DEF Validate
<1>3. /\ ledger' \in [Ops -> Results \cup {"none"}]
      /\ \A o \in Ops : ledger[o] # "none" => ledger'[o] = ledger[o]
  BY <1>1, <1>2 DEF Live
<1>4. validated' \in 0 .. MaxLedger
  BY <1>1, WalletConstants
<1>5. TypeOK' /\ OneRecoverable' /\ RelayInv' /\ OwnerInv'
  BY <1>1, <1>3, <1>4 DEF IndInv, TypeOK, OneRecoverable, RelayInv, OwnerInv
<1>6. RowInv'
  BY <1>1, <1>3 DEF IndInv, RowInv
<1>7. TabInv'
  <2> SUFFICES ASSUME NEW u \in Tabs PROVE CallInv(tab[u])'
    BY DEF TabInv
  <2>1. CallInv(tab[u]) /\ (tab[u].pc = "record" => tab[u].op \in Ops)
    BY InCall DEF IndInv, TabInv
  <2> QED BY <1>1, <1>3, <2>1 DEF CallInv
<1> QED BY <1>5, <1>6, <1>7 DEF IndInv

LEMMA IndexStep ==
    ASSUME IndInv, NEW o \in Ops, NEW verdict \in Verdicts, Index(o, verdict)
    PROVE  IndInv'
<1>1. /\ UNCHANGED <<row, tab, txn, open, validated, relayed, ledger>>
      /\ indexed \in [Ops -> Verdicts \cup {"none"}]
      /\ indexed' \in [Ops -> Verdicts \cup {"none"}]
      /\ \A p \in Ops : indexed[p] \in Verdicts => indexed'[p] = indexed[p]
  BY DEF IndInv, TypeOK, Index, Verdicts
<1>2. TypeOK' /\ OneRecoverable' /\ RelayInv' /\ OwnerInv'
  BY <1>1 DEF IndInv, TypeOK, OneRecoverable, RelayInv, OwnerInv
<1>3. RowInv'
  BY <1>1 DEF IndInv, RowInv
<1>4. TabInv'
  <2> SUFFICES ASSUME NEW u \in Tabs PROVE CallInv(tab[u])'
    BY DEF TabInv
  <2>1. CallInv(tab[u]) /\ (tab[u].pc = "store" => tab[u].op \in Ops)
    BY InCall DEF IndInv, TabInv
  <2> QED BY <1>1, <2>1 DEF CallInv
<1> QED BY <1>2, <1>3, <1>4 DEF IndInv

-----------------------------------------------------------------------------
(* The theorems.                                                           *)

LEMMA InitInv == Init => IndInv
<1> SUFFICES ASSUME Init PROVE IndInv
  OBVIOUS
<1> USE DEF Init
<1>1. NoRow \in Rows /\ NoTxn \in Txns
  BY WalletConstants DEF NoRow, Rows, NoTxn, Txns, ActiveStages, TerminalStages
<1>2. TypeOK
  BY <1>1, WalletConstants DEF TypeOK
<1>3. OneRecoverable /\ RowInv /\ RelayInv
  BY DEF OneRecoverable, RowInv, RelayInv, NoRow, ActiveStages, Persisted, Verdicts
<1>4. TabInv /\ OwnerInv
  BY DEF TabInv, CallInv, OwnerInv, IdleTab, Early, Late, Steps
<1> QED BY <1>2, <1>3, <1>4 DEF IndInv

LEMMA NextInv == IndInv /\ [Next]_vars => IndInv'
<1> SUFFICES ASSUME IndInv, [Next]_vars PROVE IndInv'
  OBVIOUS
<1>1. ASSUME NEW t \in Tabs, CallStep(t) PROVE IndInv'
  BY <1>1, AppendSteps, SignStep, TabSteps, PersistSignedStep, SubmitStep, RecordStep,
     SetBusinessConfirmationStep DEF CallStep
<1>2. ASSUME NEW t \in Tabs, NEW o \in Ops,
             Create(t, o) \/ Retry(t, o) \/ Reconfirm(t, o) \/ Abandon(t, o)
      PROVE  IndInv'
  BY <1>2, CreateStep, CallSteps, AbandonStep
<1>3. CASE OpenLedger \/ Validate \/ \E o \in Ops, verdict \in Verdicts : Index(o, verdict)
  BY <1>3, OpenLedgerStep, ValidateStep, IndexStep
<1>4. CASE UNCHANGED vars
  BY <1>4 DEF vars, external, IndInv, TypeOK, OneRecoverable, RowInv, RelayInv, TabInv,
              CallInv, OwnerInv
<1> QED BY <1>1, <1>2, <1>3, <1>4 DEF Next

\* The inductive invariant of the journal, the calls of all tabs and the network.
THEOREM Invariance == Spec => []IndInv
<1> QED BY InitInv, NextInv, PTL DEF Spec

\* Rows, calls and ledgers keep their types, whatever tabs do to one journal.
THEOREM TypeCorrect == Spec => []TypeOK
<1>1. IndInv => TypeOK
  BY DEF IndInv
<1> QED BY <1>1, Invariance, PTL

\* The check in create() under one IndexedDB transaction keeps operations with one
\* business key apart, for any number of tabs and operations.
THEOREM OneOperationPerKey == Spec => []OneRecoverable
<1>1. IndInv => OneRecoverable
  BY DEF IndInv
<1> QED BY <1>1, Invariance, PTL

\* What submitSignedTransaction has handed to the network is retried from the
\* stored blob until it is settled or its LastLedgerSequence has passed.
THEOREM LiveTransactionsRecoverable == Spec => []LiveIsRecoverable
<1>1. IndInv => LiveIsRecoverable
  <2> SUFFICES ASSUME IndInv, NEW o \in Ops PROVE
        /\ Live(o) => \/ CanRetryOperation(row[o])
                      \/ row[o].stage = "expired" /\ open > txn[o].lls
        /\ row[o].blob <=> row[o].stage \in {"signed", "submitted", "pending"}
    BY DEF LiveIsRecoverable
  <2>1. row[o].blob <=> row[o].stage \in Persisted
    BY DEF IndInv, RowInv
  <2>2. /\ row[o].stage = "expired" => open > txn[o].lls
        /\ row[o].stage = "validated" => ledger[o] # "none"
        /\ o \in relayed => row[o].stage \in Persisted \cup {"validated", "expired"}
    BY DEF IndInv, RowInv, RelayInv
  <2> QED BY <2>1, <2>2 DEF Live, CanRetryOperation, Persisted
<1> QED BY <1>1, Invariance, PTL

\* A record that says validated carries the result of the validated ledger, and its
\* confirmation what the indexer shows, through stale reads and late entries.
THEOREM RecordsTruthful == Spec => []RecordTruthful
<1>1. IndInv => RecordTruthful
  BY DEF IndInv, RowInv, RecordTruthful
<1> QED BY <1>1, Invariance, PTL

\* applyJournalEntry makes the first terminal entry the last, for any order in
\* which the entries of several tabs arrive.
THEOREM SettledIsFinal == Spec => TerminalIsFinal
<1> DEFINE Final ==
      \A o \in Ops : row[o].stage \in TerminalStages =>
          row'[o].stage = row[o].stage /\ row'[o].result = row[o].result
<1>1. IndInv /\ [Next]_vars => [Final]_vars
  <2> SUFFICES ASSUME IndInv, Next PROVE Final
    OBVIOUS
  <2>0. row \in [Ops -> Rows] /\ (row' = row => Final)
    BY DEF IndInv, TypeOK
  <2>1. ASSUME NEW t \in Tabs, NEW stage, NEW result, NEW pc, tab[t].pc # "idle",
               Append(t, stage, result, pc)
        PROVE  Final
    BY <2>0, <2>1, InCall DEF Append, ApplyJournalEntry
  <2>2. ASSUME NEW t \in Tabs, PersistSigned(t) PROVE Final
    <3>1. tab[t].op \in Ops
      BY <2>2, InCall DEF PersistSigned
    <3> QED BY <2>0, <2>2, <3>1 DEF PersistSigned, TerminalStages
  <2>3. ASSUME NEW t \in Tabs, SetBusinessConfirmation(t) PROVE Final
    <3>1. tab[t].op \in Ops
      BY <2>3, InCall DEF SetBusinessConfirmation
    <3>2. \A o \in Ops : row'[o].stage = row[o].stage /\ row'[o].result = row[o].result
      BY SMTT(30), <2>0, <2>3, <3>1 DEF SetBusinessConfirmation, Rows
    <3> QED BY <3>2
  <2>4. ASSUME NEW t \in Tabs, CallStep(t) PROVE Final
    <3>1. CASE row' = row
      BY <2>0, <3>1
    <3>2. CASE \/ AppendPrepared(t) \/ AppendFailed(t) \/ AppendSigned(t)
               \/ AppendRefused(t) \/ AppendSubmitted(t) \/ AppendLost(t) \/ Record(t)
      BY <2>1, <3>2 DEF AppendPrepared, AppendFailed, AppendSigned, AppendRefused,
                        AppendSubmitted, AppendLost, Record
    <3> QED BY <2>2, <2>3, <2>4, <3>1, <3>2
            DEF CallStep, Sign, SignFails, Guards, Submit, AppendRejects, Lookup, CurrentLedger,
                AssertLockOwned, WaitForEvidence, Abort
  <2>5. ASSUME NEW t \in Tabs, NEW o \in Ops, Create(t, o) PROVE Final
    <3>1. row[o] = NoRow
      BY <2>5 DEF Create, NoTxn, IndInv, RowInv
    <3> QED BY <2>0, <2>5, <3>1 DEF Create, NoRow, TerminalStages
  <2>6. ASSUME NEW t \in Tabs, NEW o \in Ops, Abandon(t, o) PROVE Final
    BY <2>0, <2>6 DEF Abandon, CanAbandonOperation, TerminalStages
  <2>7. ASSUME NEW t \in Tabs, NEW o \in Ops, Retry(t, o) \/ Reconfirm(t, o) PROVE Final
    BY <2>0, <2>7 DEF Retry, Reconfirm, Call
  <2>8. CASE OpenLedger \/ Validate \/ \E o \in Ops, verdict \in Verdicts : Index(o, verdict)
    BY <2>0, <2>8 DEF OpenLedger, Validate, Index
  <2> QED BY <2>4, <2>5, <2>6, <2>7, <2>8 DEF Next
<1>2. [][Final]_vars <=> TerminalIsFinal
  BY DEF TerminalIsFinal
<1> QED BY <1>1, <1>2, Invariance, PTL DEF Spec

=============================================================================
