------------------------ MODULE AtomicTransactions -------------------------
(***************************************************************************)
(* What the callers of runSerializableTransaction rely on, and what the    *)
(* other modules of this project take a transaction to be: one step.  A    *)
(* unit admits its caller to a log of bounded length and returns the place *)
(* it was given (a quota, a generation number, a checkpoint index).  It is *)
(* applied at most once; a call that returns has been applied, and returns *)
(* the place it really has; a call that throws may have been applied only  *)
(* if nobody can tell any more.                                            *)
(***************************************************************************)
EXTENDS Naturals, Sequences

CONSTANTS Callers, Quota

VARIABLES
    log,   \* the callers that were admitted, in order
    out,   \* [Callers -> how the call stands]
    value  \* [Callers -> the place that was returned, 0 for none]

vars == <<log, out, value>>

Init ==
    /\ log = <<>>
    /\ out = [c \in Callers |-> "idle"]
    /\ value = [c \in Callers |-> 0]

Admitted(c) == \E i \in 1..Len(log) : log[i] = c

Call(c) ==
    /\ out[c] = "idle"
    /\ out' = [out EXCEPT ![c] = "running"]
    /\ UNCHANGED <<log, value>>

Apply(c) ==
    /\ out[c] = "running"
    /\ ~Admitted(c)
    /\ Len(log) < Quota
    /\ log' = Append(log, c)
    /\ UNCHANGED <<out, value>>

Return(c) ==
    /\ out[c] = "running"
    /\ \E i \in 1..Len(log) :
          /\ log[i] = c
          /\ value' = [value EXCEPT ![c] = i]
    /\ out' = [out EXCEPT ![c] = "returned"]
    /\ UNCHANGED log

Throw(c) ==
    /\ out[c] = "running"
    /\ out' = [out EXCEPT ![c] = "threw"]
    /\ UNCHANGED <<log, value>>

Next == \E c \in Callers : Call(c) \/ Apply(c) \/ Return(c) \/ Throw(c)

Spec == Init /\ [][Next]_vars
=============================================================================
