------------------------ MODULE MCRevocationSnapshot ------------------------
(* RevocationSnapshot on a small instance. *)
EXTENDS RevocationSnapshot, TLC

\* Digests are told apart from lists, and one from another.
MCSha256 == [list \in SUBSET Serials |-> <<"sha256", list>>]

Symmetry == Permutations(Calls)

=============================================================================
