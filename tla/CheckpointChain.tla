--------------------------- MODULE CheckpointChain ---------------------------
(***************************************************************************)
(* What the indexer promises to the readers of ledger_checkpoints: one     *)
(* chain of ledgers that starts at the activation ledger of the profile,   *)
(* grows by one parent-linked ledger at a time and is never rewritten, and *)
(* in which every ledger was served alike by both XRPL sources.            *)
(***************************************************************************)
EXTENDS Integers

CONSTANTS
    Quorum,          \* ledgers that both sources serve
    Activation,      \* profile.activationLedgerIndex
    ActivationHash   \* profile.activationLedgerHash

VARIABLE chain       \* the persisted ledger at each index

Extends(c, l) ==
    IF DOMAIN c = {}
    THEN l.index = Activation /\ l.hash = ActivationHash
    ELSE /\ l.index \notin DOMAIN c
         /\ l.index - 1 \in DOMAIN c
         /\ l.parent = c[l.index - 1].hash

Append(l) ==
    /\ Extends(chain, l)
    /\ chain' = [i \in DOMAIN chain \cup {l.index} |-> IF i = l.index THEN l ELSE chain[i]]

Init == chain = [i \in {} |-> 0]

Next == \E l \in Quorum : Append(l)

Spec == Init /\ [][Next]_chain

=============================================================================
