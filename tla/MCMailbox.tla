------------------------------ MODULE MCMailbox ------------------------------
(* Instances of Mailbox for TLC. *)
EXTENDS Mailbox, FiniteSets, TLC

\* Requests are interchangeable; for the runs that check no liveness.
Symmetry == Permutations(Reqs)

\* Each request is numbered at most once, so these are all numbers in use.
Ids == 0..(Cardinality(Reqs) - 1)

FairSpec == Spec /\ Fairness(Ids)

=============================================================================
