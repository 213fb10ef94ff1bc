------------------------------ MODULE MCIndexer ------------------------------
(* Small instances of IndexerWorker. *)
EXTENDS IndexerWorker, TLC

CONSTANTS w1, w2, w3, w4, h1, h2, h2f, h2o, h3

L1 == [index |-> 1, hash |-> h1, parent |-> NoHash]
L2 == [index |-> 2, hash |-> h2, parent |-> h1]
L2Fork == [index |-> 2, hash |-> h2f, parent |-> h1]
\* Both sources may serve it, but it does not descend from L1.
L2Orphan == [index |-> 2, hash |-> h2o, parent |-> h2f]
L3 == [index |-> 3, hash |-> h3, parent |-> h2]

MCHonest == {L1, L2, L3}
MCForked == {L1, L2, L2Fork, L2Orphan}

MCTipsTop == {3}
MCTipsAny == {2, 3}
MCTipsShort == {1, 2}

MCService == [w \in Writers |-> NoLedger]
MCReplay == [w \in Writers |-> IF w = w1 THEN L2 ELSE NoLedger]

\* Sound where both writers run the service: nothing tells them apart.
MCWriterSymmetry == Permutations({w1, w2})
=============================================================================
