------------------------------- MODULE Routing -------------------------------
(***************************************************************************)
(* The routing of one server type of one client: getRouteTarget() of       *)
(* lib/rpc-client/client.js, the stateful routers of lib/rpc-client/       *)
(* router.js (module Routers) and the ring of the consistent-hash router   *)
(* (module HashRing), over the list of servers that the station keeps.     *)
(* addServer() and removeServer() of the station change the list and then  *)
(* emit the event the ring listens to; replaceServers() emits none.        *)
(***************************************************************************)
EXTENDS Routers

CONSTANTS Others, Replicas, Hashes, Fields, NoServer  \* see HashRing

ASSUME RingAssumption ==
  /\ Replicas \in Nat \ {0}
  /\ Fields \subseteq Nat
  /\ \A f \in Hashes : /\ f \in [(Servers \cup Others) \X (1..Replicas) -> Nat]
                        /\ IsInjective(f)
  /\ NoServer \notin Servers \cup Others

VARIABLES place, others, created, keys, ring, strayed  \* see HashRing

H == INSTANCE HashRing WITH servers <- Known
ringVars == <<place, others, created, keys, ring, strayed>>
routingVars == <<vars, ringVars>>

\* The hashes matter to the consistent-hash router only.
RoutingInit ==
  /\ Init
  /\ H!Init
  /\ routerType # "ch" => place = CHOOSE f \in Hashes : TRUE

StationAdds(s) ==
  /\ \/ s \in Servers /\ \E w \in Weights : AddServer(s, w)
     \/ s \in Others /\ UNCHANGED vars
  /\ H!AddServer(s)

StationRemoves(s) ==
  /\ \/ s \in Servers /\ RemoveServer(s)
     \/ s \in Others /\ UNCHANGED vars
  /\ H!RemoveServer(s)

StationReplaces(l, S) ==
  /\ \E w \in Weights : ReplaceServers(l, w)
  /\ H!ReplaceServers(Range(l) \cup S)

\* A call that finds a server.  The first call of chRoute() builds the ring; a
\* later one only looks it up.
RouteCall ==
  \/ (RouteRR \/ RouteWRR \/ RouteLA) /\ UNCHANGED ringVars
  \/ routerType = "ch" /\ UNCHANGED vars /\ H!Create

RoutingNext ==
  \/ \E s \in Servers \cup Others : StationAdds(s) \/ StationRemoves(s)
  \/ \E l \in Lists, S \in SUBSET Others : StationReplaces(l, S)
  \/ RouteCall

RoutingSpec == RoutingInit /\ [][RoutingNext]_routingVars

-----------------------------------------------------------------------------
(* Properties.  Those of Routers hold of this specification as they stand. *)

\* See HashRing.  The lookup finds the node the hash belongs to, and that is a
\* server the call may go to.
LookupCorrect == H!SearchCorrect /\ H!RoutedIsKnown
MovesAreNeeded == H!MovesAreNeeded

=============================================================================
