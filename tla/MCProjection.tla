---------------------------- MODULE MCProjection ----------------------------
(***************************************************************************)
(* ProjectionSystem for TLC: three registrations of two publishers with    *)
(* lineages of at most one ancestor, or four transactions on credentials   *)
(* of two accounts.                                                        *)
(***************************************************************************)
EXTENDS ProjectionSystem, TLC

CONSTANTS a1, a2, f1, f2

\* Accounts are interchangeable, and so are the names of fields.
Symmetry == Permutations(Accounts) \cup Permutations(FieldNames)

=============================================================================
