------------------------------ MODULE MCPinning ------------------------------
(* Small instances of Pinning. *)
EXTENDS Pinning, TLC

CONSTANTS c1, c2, c3, h1, h2, w1, w2, p1, p2, d1, d2, j1, j2

\* Everything but the time is interchangeable. No liveness is checked with it.
MCPinningSymmetry ==
    Permutations(Calls) \cup Permutations(Challenges) \cup Permutations(Wallets)
    \cup Permutations(Ips) \cup Permutations(Cids) \cup Permutations(Janitors)

=============================================================================
