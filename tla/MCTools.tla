------------------------------ MODULE MCTools ------------------------------
(***************************************************************************)
(* ToolsSystem for TLC.  The ceremony, whose stages can be started in many *)
(* ways at any time, is kept to a few scenes.                              *)
(***************************************************************************)
EXTENDS ToolsSystem

CONSTANTS o1, o2

MCOwnKinds == {"depositAuth", "destTag", "signerList", "delegate", "keyOther"}

\* Every server that a stage has asked has the whole history.
Whole == \A o \in Operators : \A k \in DOMAIN stages[o].status.ranges : stages[o].status.ranges[k].min = 1

\* One process at a time, and one transaction of the key holder's own or a server whose
\* history has gaps.
Alone(p) == \A o \in Operators \ {p} : stages[o] = C!Idle
Single == (\E p \in Operators : Alone(p)) /\ (own = 0 \/ Whole)

\* Two processes at the same time, in fewer ledgers.
Double == Len(ledgers) < LastLedger /\ own = 0 /\ Whole

MCCeremony ==
    /\ \/ C!Close \/ C!Own \/ C!Expire
       \/ \E p \in Operators : (Alone(p) \/ Double) /\ C!Step(p)
    /\ (Single \/ Double)'
    /\ UNCHANGED <<vars, fixtureVars>>

MCToolsNext == IF part = "ceremony" THEN MCCeremony ELSE ToolsNext

MCToolsSpec ==
    /\ ToolsInit
    /\ part # "cli" => result = "tesSUCCESS" /\ ~malformed
    /\ [][MCToolsNext /\ UNCHANGED part]_allVars

Symmetry == Permutations(Operators)
=============================================================================
