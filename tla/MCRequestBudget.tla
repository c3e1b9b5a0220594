-------------------------- MODULE MCRequestBudget --------------------------
(* RequestBudget on a small instance: whole half minutes, clocks half a minute off. *)
EXTENDS RequestBudget, TLC

MCOffsets == {-Skew, 0, Skew}

Symmetry == Permutations(Callers)

=============================================================================
