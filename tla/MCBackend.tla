----------------------------- MODULE MCBackend ------------------------------
(* Backend on a small instance. *)
EXTENDS Backend, TLC

Symmetry == Permutations(Slots)

=============================================================================
