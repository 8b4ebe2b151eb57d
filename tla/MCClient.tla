------------------------------ MODULE MCClient ------------------------------
(* Instances of Client for TLC. *)
EXTENDS Client, TLC

\* Servers are interchangeable.
Symmetry == Permutations(Servers)

=============================================================================
