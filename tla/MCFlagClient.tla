---------------------------- MODULE MCFlagClient ----------------------------
(* FlagClient on small instances. *)
EXTENDS FlagClient, TLC

Symmetry == Permutations(Screens)

=============================================================================
