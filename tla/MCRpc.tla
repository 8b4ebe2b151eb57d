-------------------------------- MODULE MCRpc --------------------------------
(* Instances of Rpc for TLC. *)
EXTENDS Rpc, TLC

\* Requests are interchangeable.
Symmetry == Permutations(Reqs)

=============================================================================
