------------------------------- MODULE Routers -------------------------------
(***************************************************************************)
(* The routers of lib/rpc-client/router.js that remember something between *)
(* calls: round robin (rr), weighted round robin (wrr) and least active    *)
(* (la), for one server type of one client.  A call of a proxy runs one of *)
(* them on serversMap[serverType], a list that addServer(), removeServer() *)
(* and replaceServers() of the station change between calls without        *)
(* telling the router.                                                     *)
(***************************************************************************)
EXTENDS Integers, Sequences, Functions, FiniteSetsExt

CONSTANTS Servers,    \* ids of servers of this type
          MaxWeight,  \* weights are 1..MaxWeight; 0 stands for no weight
          MaxCalls,   \* bound: number of calls routed
          MaxNested   \* bound: calls made by the callback of a call, before it returns

ASSUME RouterAssumption ==
  IsFiniteSet(Servers) /\ MaxWeight \in Nat /\ MaxCalls \in Nat /\ MaxNested \in Nat

VARIABLES
  routerType, \* of the client: "rr", "wrr", "la" or "ch" (see HashRing)
  list,       \* serversMap[serverType]
  weight,     \* servers[id].weight
  rrParam,    \* index of the next call; absent is 0
  wrrParam,   \* index and weight of the last call
  laParam,    \* calls counted for each server; absent and NaN are no entry
  picks,      \* servers picked since the list or a weight last changed
  calls,      \* number of calls routed
  uses        \* number of times the least-active router picked each server

params == <<routerType, rrParam, wrrParam, laParam>>
counts == <<calls, uses>>
vars == <<params, list, weight, picks, counts>>

Known == Range(list)

Init ==
  /\ routerType \in {"rr", "wrr", "la", "ch"}
  /\ list = <<>>
  /\ weight = [s \in Servers |-> 0]
  /\ rrParam = 0
  /\ wrrParam = [index |-> -1, weight |-> 0]
  /\ laParam = <<>>
  /\ picks = <<>>
  /\ calls = 0
  /\ uses = [s \in Servers |-> 0]

-----------------------------------------------------------------------------
(* The station changes the list. *)

ForgetPicks == picks' = IF list' = list /\ weight' = weight THEN picks ELSE <<>>

AddServer(s, w) ==
  /\ list' = IF s \in Known THEN list ELSE Append(list, s)
  /\ weight' = [weight EXCEPT ![s] = w]
  /\ ForgetPicks
  /\ UNCHANGED <<params, counts>>

\* list.splice(list.indexOf(s), 1), if s is in the list, which names no server
\* twice (TypeOK).
Splice(s) ==
  IF s \in Known
  THEN LET index == CHOOSE i \in DOMAIN list : list[i] = s
       IN SubSeq(list, 1, index - 1) \o SubSeq(list, index + 1, Len(list))
  ELSE list

RemoveServer(s) ==
  /\ list' = Splice(s)
  /\ weight' = [weight EXCEPT ![s] = 0]
  /\ ForgetPicks
  /\ UNCHANGED <<params, counts>>

Lists == UNION {{l \in [1..n -> Servers] : IsInjective(l)} : n \in 0..Cardinality(Servers)}
ReplaceServers(l, w) ==
  /\ list' = l
  /\ weight' = [s \in Servers |-> IF s \in Range(l) THEN w ELSE 0]
  /\ ForgetPicks
  /\ UNCHANGED <<params, counts>>

-----------------------------------------------------------------------------
(* Routing a call.  An empty list is answered with an error. *)

\* n calls in a row pick server s.
Pick(s, n) ==
  /\ calls' = calls + n
  /\ calls' <= MaxCalls
  /\ picks' = picks \o [i \in 1..n |-> s]
  /\ UNCHANGED <<routerType, list, weight>>

\* (Operators named Bug... are the definition below them with a plausible
\* mistake, see Mailbox.)
\* rrRoute().  It hands out the server before it moves the index: calls that the
\* callback makes before it returns, as it may when the request fails at once,
\* get the same server.  The reset of the index at Number.MAX_VALUE is never
\* reached.
BugNextIndex == IF rrParam + 2 < Len(list) THEN rrParam + 1 ELSE 0
NextIndex == rrParam + 1
RouteRR ==
  /\ routerType = "rr" /\ list # <<>>
  /\ \E nested \in 0..MaxNested : Pick(list[(rrParam % Len(list)) + 1], 1 + nested)
  /\ rrParam' = NextIndex
  /\ UNCHANGED <<wrrParam, laParam, uses>>

\* One round of the loop of wrrRoute(): the next server of the list and, at the
\* head of the list, the next lower weight or the greatest one again.
MaxWeightOf == Max({weight[s] : s \in Known} \cup {0})
BugTurnReachesZero(t) ==
  LET i == (t.index + 1) % Len(list) IN
  [index |-> i, weight |-> IF i # 0 THEN t.weight
                           ELSE IF t.weight - 1 < 0 THEN MaxWeightOf ELSE t.weight - 1]
BugTurnKeepsWeight(t) ==
  LET i == (t.index + 1) % Len(list) IN
  [index |-> i, weight |-> IF t.weight = 0 THEN MaxWeightOf ELSE t.weight]
Turn(t) ==
  LET i == (t.index + 1) % Len(list) IN
  [index |-> i, weight |-> IF i # 0 THEN t.weight
                           ELSE IF t.weight - 1 <= 0 THEN MaxWeightOf ELSE t.weight - 1]

\* wrrParam after n rounds, and the number of rounds the loop needs.
Turns[n \in Nat] == IF n = 0 THEN wrrParam ELSE Turn(Turns[n - 1])
Fits(t) == weight[list[t.index + 1]] >= t.weight
MaxRounds == Len(list) * (MaxWeight + 1)
EndsAfter(n) == Fits(Turns[n]) /\ \A k \in 1..(n - 1) : ~Fits(Turns[k])

\* wrrRoute().  Without any weight it is an error.
RouteWRR ==
  /\ routerType = "wrr" /\ list # <<>> /\ MaxWeightOf > 0
  /\ \E n \in 1..MaxRounds :
       /\ EndsAfter(n)
       /\ wrrParam' = Turns[n]
       /\ Pick(list[wrrParam'.index + 1], 1)
  /\ UNCHANGED <<rrParam, laParam, uses>>

\* laRoute().  The first call counts from 0 for the servers of the list.  A
\* server that comes later has no count under the key it is looked up with:
\* adding 1 to it gives NaN, which the next call takes for 0 again.
Count(s) == IF s \in DOMAIN laParam THEN laParam[s] ELSE 0
BugLeastActive == {s \in Known : \A t \in Known : Count(s) >= Count(t)}
LeastActive == {s \in Known : \A t \in Known : Count(s) <= Count(t)}
RouteLA ==
  /\ routerType = "la"
  /\ \E s \in LeastActive :
       /\ Pick(s, 1)
       /\ uses' = [uses EXCEPT ![s] = @ + 1]
       /\ LET counted == IF laParam = <<>> THEN [t \in Known |-> 0] ELSE laParam
          IN laParam' = [t \in DOMAIN counted |-> counted[t] + IF t = s THEN 1 ELSE 0]
  /\ UNCHANGED <<rrParam, wrrParam>>

\* Weights a server may come with.
Weights == IF routerType = "wrr" THEN 0..MaxWeight ELSE {0}

-----------------------------------------------------------------------------
(* Properties. *)

\* The variables have the types their comments give, and no server is twice in
\* the list.
TypeOK ==
  /\ routerType \in {"rr", "wrr", "la", "ch"}
  /\ list \in Seq(Servers) /\ IsInjective(list)
  /\ weight \in [Servers -> 0..MaxWeight]
  /\ rrParam \in 0..MaxCalls
  /\ wrrParam \in [index : -1..(Cardinality(Servers) - 1), weight : 0..MaxWeight]
  /\ DOMAIN laParam \subseteq Servers /\ laParam \in [DOMAIN laParam -> Nat]
  /\ picks \in Seq(Known)
  /\ calls \in 0..MaxCalls
  /\ uses \in [Servers -> Nat]

\* Round robin: wherever the index stands after servers came and went, once
\* another server had its turn, a server is called again only after all the
\* others of the list were.
EveryTurn ==
  routerType = "rr" =>
    \A i, j \in DOMAIN picks : \A k \in i..j :
      picks[i] = picks[j] /\ picks[k] # picks[i] => Known \subseteq {picks[l] : l \in i..j}

\* Weighted round robin: of as many consecutive calls as the weights add up to,
\* each server gets as many as its weight, even right after a change that made
\* the remembered index or weight too large.
Share == SumFunction([s \in Known |-> weight[s]])
WeightedShare ==
  routerType = "wrr" =>
    \A i \in 0..(Len(picks) - Share) : \A s \in Known :
      Cardinality({k \in (i + 1)..(i + Share) : picks[k] = s}) = weight[s]

\* The loop of wrrRoute() ends if a server has a weight.
LoopEnds ==
  list # <<>> /\ MaxWeightOf > 0 => \E n \in 1..MaxRounds : Fits(Turns[n])

\* Least active, of the servers that were there at the first call: whatever
\* leaves and returns, none of them is called again while another has been
\* called less often.
BalancedFromStart ==
  [][\A s, t \in Known \cap DOMAIN laParam :
       uses'[s] > uses[s] => uses[s] <= uses[t]]_vars

=============================================================================
