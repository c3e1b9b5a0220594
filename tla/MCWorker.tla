------------------------------ MODULE MCWorker ------------------------------
(* Worker on a small instance. *)
EXTENDS Worker, TLC

Symmetry == Permutations(Slots)

=============================================================================
