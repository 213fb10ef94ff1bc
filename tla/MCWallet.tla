------------------------------ MODULE MCWallet ------------------------------
\* Operations that compete for one business key.
EXTENDS WalletOperations, TLC

SameKey == [o \in Ops |-> "key"]

Symmetry == Permutations(Ops) \cup Permutations(Tabs)
=============================================================================
