----------------------------- MODULE MCRouting -----------------------------
(* Instances of Routing for TLC, with two replicas of each server. *)
EXTENDS Routing, TLC

\* Servers of one type are interchangeable.
Symmetry == Permutations(Servers)

\* The first replicas lie around the ring in any order.  Between each two of
\* them lies a second one: the same server's, the next one's, or those of the
\* servers in reverse.
HowMany == Cardinality(Servers \cup Others)
Orders == {f \in [Servers \cup Others -> 1..HowMany] : IsInjective(f)}
Mixes == { [i \in 1..HowMany |-> i],
           [i \in 1..HowMany |-> (i % HowMany) + 1],
           [i \in 1..HowMany |-> HowMany + 1 - i] }
MCHashes ==
  { [spot \in (Servers \cup Others) \X (1..2) |->
       IF spot[2] = 1 THEN 4 * order[spot[1]] - 2 ELSE 4 * mix[order[spot[1]]]] :
    order \in Orders, mix \in Mixes }

=============================================================================
