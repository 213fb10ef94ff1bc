------------------------------ MODULE MCPages ------------------------------
(***************************************************************************)
(* PagesSystem for TLC.  Bounded lets the subject's page run in three      *)
(* scenes, each with as much of the world as it needs.                     *)
(***************************************************************************)
EXTENDS PagesSystem

CONSTANTS t1, a1, a2, p1, p2, u1, u2

\* Nothing of interest is at the tuples of the other accounts, and no link leads there.
Alone ==
    /\ cred[choice.account].gen # 2 /\ choice.link # 2
    /\ \A a \in Accounts \ {choice.account} :
          cred[a] = [gen |-> 2, uri |-> S!NoUri, accepted |-> FALSE, state |-> "pending"]

OneChange == budget.changes >= MaxChanges - 1

\* Nothing has been accepted before the world changes.
Pending == budget.changes = MaxChanges => \A a \in Accounts : ~cred[a].accepted

\* An acceptance by one account, in a world that changes twice: two profiles, and the
\* tuple issued again, with a URI whose bytes are valid, another one, or none.
Accepts == choice.action = "accept" /\ budget.events = MaxEvents /\ Alone /\ Pending

\* An acceptance in a wallet with two accounts, which change once, while one of their
\* credentials changes once.
Replaces == /\ choice.action = "accept" /\ OneChange /\ budget.gen = 2 /\ choice.link <= 2 /\ Pending
            /\ \A a \in Accounts : cred[a].uri \in ValidUris

\* Rejections and removals by one account, the tuple issued again.
Mutates == /\ choice.action # "accept" /\ OneChange /\ Alone
           /\ cred[choice.account].uri \in ValidUris

\* On the issuer's page one thing happens outside; a second one only to the store, while
\* one build publishes the simplest form. Another tab publishes while nothing else runs
\* beside a build or a submission.
Alongside == build[2] = NoBuild /\ load = NoLoad
Publishes == /\ Alongside /\ sub = NoSubmit /\ host = None /\ now = 0
             /\ \A p \in DOMAIN store : store[p].valid
             /\ form.loaded = 0 /\ <<form.schema, form.terms, account>> = <<1, 1, 1>>
OthersPublish == \E tab \in OtherTabs : publish[tab] # NoPublish

Bounded == /\ part = "subject" => Accepts \/ Replaces \/ Mutates
           /\ part = "issue" => (outside < MaxOutside \/ Publishes) /\ (OthersPublish => Alongside)

\* While the issuer's page runs, the subject's rests in one state.
Rests == /\ Accepts /\ trust = "trusted"
         /\ \A a \in Accounts : cred[a].uri = S!NoUri

MCPagesInit == PagesInit /\ Bounded /\ (part = "issue" => Rests)

\* Trust and profile change only in the first scene, and no link leads from the first to
\* the last.
MCPagesSpec ==
    /\ MCPagesInit
    /\ [][PagesNext /\ UNCHANGED part /\ Bounded' /\ ~(Accepts /\ Mutates')
          /\ (Accepts' \/ UNCHANGED <<trust, profile>>)]_allVars

Symmetry == Permutations(Accounts) \cup Permutations(Profiles)
=============================================================================
