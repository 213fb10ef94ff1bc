----------------------------- MODULE MCFencing ------------------------------
(***************************************************************************)
(* Service writers over sources that fork, and a replay to ledger 1 beside *)
(* a service, which may start between the replay's check and its lease.    *)
(* The two scenes have writers of their own: part says whose steps a       *)
(* behaviour has. The tips that the sources report move past the target.   *)
(***************************************************************************)
EXTENDS MCIndexer

VARIABLE part

allVars == <<part, vars>>

MCBoth == [w \in Writers |-> IF w = w3 THEN L1 ELSE NoLedger]

InScene(w) == w \in IF part = "service" THEN {w1, w2} ELSE {w3, w4}

\* The sources of the replay are honest.
Honest == part = "replay" => \A w \in Writers : ledger[w] \in {NoLedger, L1, L2}

FencingNext ==
    /\ RunOut \/ MissRenewal \/ \E w \in Writers : InScene(w) /\ (Work(w) \/ Interfere(w))
    /\ Honest'

FencingSpec == part \in {"service", "replay"} /\ Init /\ [][UNCHANGED part /\ FencingNext]_allVars
=============================================================================
