------------------------------ MODULE MCAcceptor ------------------------------
(* Instances of Acceptor for TLC. *)
EXTENDS Acceptor, TLC

\* Sockets and packages are interchangeable; for the runs that check no liveness.
Symmetry == Permutations(Sockets) \cup Permutations(Pkgs)

=============================================================================
