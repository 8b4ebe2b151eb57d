---------------------------- MODULE MCMailStation ----------------------------
(* Instances of MailStation for TLC. *)
EXTENDS MailStation, TLC

\* Requests and servers are interchangeable; for the runs that check no
\* liveness.
Symmetry == Permutations(Reqs) \cup Permutations(Servers)

=============================================================================
