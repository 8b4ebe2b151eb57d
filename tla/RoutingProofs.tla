---------------------------- MODULE RoutingProofs ----------------------------
(***************************************************************************)
(* Theorems about Routing: what the routers of Routers promise, for every  *)
(* set of servers, every bound and every order of calls and changes of the *)
(* list.                                                                   *)
(***************************************************************************)
EXTENDS Routing, SequenceTheorems, FiniteSetTheorems, TLAPS

-----------------------------------------------------------------------------
(* Numbers. *)

\* Every set of natural numbers that has a member has a least one.
LEMMA LeastNumber ==
  ASSUME NEW T \in SUBSET Nat, T # {}
  PROVE  \E m \in T : \A n \in T : m <= n
<1>1. IsWellFoundedOn(OpToRel(<, Nat), Nat)
  BY NatLessThanWellFounded
<1>2. PICK m \in T : \A n \in T : ~(<<n, m>> \in OpToRel(<, Nat))
  BY <1>1, WFMin, Zenon
<1>3. \A n \in T : ~(n < m)
  BY <1>2 DEF OpToRel
<1> QED
  BY <1>3

\* Induction, over a set in place of a predicate: the library's theorem takes an
\* operator, which the provers cannot instantiate.
LEMMA Induct ==
  ASSUME NEW S \in SUBSET Nat, 0 \in S, \A n \in S : n + 1 \in S
  PROVE  \A n \in Nat : n \in S
<1> SUFFICES ASSUME Nat \ S # {} PROVE FALSE
  OBVIOUS
<1>1. PICK m \in Nat \ S : \A n \in Nat \ S : m <= n
  <2> DEFINE T == Nat \ S
  <2>1. T \in SUBSET Nat /\ T # {}
    OBVIOUS
  <2> HIDE DEF T
  <2>2. \E m \in T : \A n \in T : m <= n
    BY <2>1, LeastNumber
  <2> QED
    BY <2>2 DEF T
<1>2. m - 1 \in Nat /\ m - 1 < m
  BY <1>1
<1>3. m - 1 \in S
  BY <1>1, <1>2
<1>4. (m - 1) + 1 = m
  BY <1>1
<1> QED
  BY <1>1, <1>3, <1>4

\* The next number modulo n.
LEMMA NextRemainder ==
  ASSUME NEW x \in Int, NEW n \in Nat \ {0}
  PROVE  /\ x % n \in 0..(n - 1)
         /\ (x + 1) % n = IF (x % n) + 1 = n THEN 0 ELSE (x % n) + 1
<1> DEFINE p == x \div n
           q == (x + 1) \div n
           c == x % n
           d == (x + 1) % n
<1>1. x = (n * p) + c /\ p \in Int /\ c \in 0..(n - 1)
  OBVIOUS
<1>2. x + 1 = (n * q) + d /\ q \in Int /\ d \in 0..(n - 1)
  OBVIOUS
<1> HIDE DEF p, q, c, d
<1>3. (n * q) + d = (n * p) + (c + 1)
  BY <1>1, <1>2
<1>4. CASE c + 1 < n
  <2>1. d = c + 1
    BY <1>1, <1>2, <1>3, <1>4
  <2> QED
    BY <2>1, <1>1, <1>4 DEF c, d
<1>5. CASE c + 1 = n
  <2>1. (n * q) + d = n * (p + 1)
    BY <1>1, <1>2, <1>3, <1>5
  <2>2. d = 0
    BY <1>1, <1>2, <2>1
  <2> QED
    BY <2>2, <1>1, <1>5 DEF c, d
<1> QED
  BY <1>1, <1>4, <1>5

\* A sequence is defined by its first element and by what follows each element.
LEMMA Recursion ==
  ASSUME NEW S, NEW start \in S, NEW next \in [S -> S]
  PROVE  \E f : /\ f = [n \in Nat |-> IF n = 0 THEN start ELSE next[f[n - 1]]]
                /\ f \in [Nat -> S]
<1> DEFINE Begins(n) == {g \in [0..n -> S] : g[0] = start /\ \A k \in 1..n : g[k] = next[g[k - 1]]}
<1>1. ASSUME NEW n \in Nat, NEW m \in Nat, NEW g \in Begins(n), NEW h \in Begins(m)
      PROVE  \A k \in 0..n : k <= m => g[k] = h[k]
  <2> DEFINE T == {k \in Nat : k <= n /\ k <= m => g[k] = h[k]}
  <2>1. 0 \in T
    OBVIOUS
  <2>2. ASSUME NEW k \in T PROVE k + 1 \in T
    <3>1. CASE k + 1 <= n /\ k + 1 <= m
      <4>1. g[k] = h[k]
        BY <3>1
      <4>2. k + 1 \in 1..n /\ k + 1 \in 1..m /\ (k + 1) - 1 = k
        BY <3>1
      <4> QED
        BY <4>1, <4>2
    <3> QED
      BY <3>1
  <2>3. T \in SUBSET Nat
    OBVIOUS
  <2> HIDE DEF T
  <2>4. \A k \in Nat : k \in T
    BY <2>1, <2>2, <2>3, Induct
  <2> QED
    BY <2>4 DEF T
<1>2. \A n \in Nat : Begins(n) # {}
  <2> DEFINE T == {n \in Nat : Begins(n) # {}}
  <2>1. 0 \in T
    <3>1. [k \in 0..0 |-> start] \in Begins(0)
      OBVIOUS
    <3> QED
      BY <3>1
  <2>2. ASSUME NEW n \in T PROVE n + 1 \in T
    <3>1. PICK g \in Begins(n) : TRUE
      OBVIOUS
    <3> DEFINE h == [k \in 0..(n + 1) |-> IF k <= n THEN g[k] ELSE next[g[n]]]
    <3>2. h \in [0..(n + 1) -> S] /\ h[0] = start
      OBVIOUS
    <3>3. ASSUME NEW k \in 1..(n + 1) PROVE h[k] = next[h[k - 1]]
      <4>1. CASE k <= n
        <5>1. k \in 1..n /\ k - 1 \in 0..n /\ k - 1 <= n
          BY <4>1
        <5> QED
          BY <5>1
      <4>2. CASE k = n + 1
        <5>1. k - 1 = n /\ ~(k <= n) /\ n \in 0..(n + 1)
          BY <4>2
        <5> QED
          BY <5>1
      <4> QED
        BY <4>1, <4>2
    <3>4. h \in Begins(n + 1)
      BY <3>2, <3>3
    <3>5. n + 1 \in Nat
      OBVIOUS
    <3> HIDE DEF h, Begins
    <3> QED
      BY <3>4, <3>5
  <2>3. T \in SUBSET Nat
    OBVIOUS
  <2> HIDE DEF T
  <2>4. \A n \in Nat : n \in T
    BY <2>1, <2>2, <2>3, Induct
  <2> QED
    BY <2>4 DEF T
<1> DEFINE begin(n) == CHOOSE g \in Begins(n) : TRUE
           f == [n \in Nat |-> begin(n)[n]]
<1>3. \A n \in Nat : begin(n) \in Begins(n)
  BY <1>2
<1> HIDE DEF begin
<1>4. f \in [Nat -> S]
  BY <1>3
<1>5. ASSUME NEW n \in Nat PROVE f[n] = IF n = 0 THEN start ELSE next[f[n - 1]]
  <2>1. CASE n = 0
    BY <1>3, <2>1
  <2>2. CASE n # 0
    <3>1. n - 1 \in Nat /\ n \in 1..n /\ n - 1 \in 0..(n - 1) /\ n - 1 <= n
      BY <2>2
    <3>2. begin(n)[n] = next[begin(n)[n - 1]]
      BY <1>3, <3>1
    <3>3. begin(n) \in Begins(n) /\ begin(n - 1) \in Begins(n - 1)
      BY <1>3, <3>1
    <3>4. begin(n - 1)[n - 1] = begin(n)[n - 1]
      BY <1>1, <3>1, <3>3
    <3>5. f[n] = begin(n)[n] /\ f[n - 1] = begin(n - 1)[n - 1]
      BY <3>1
    <3> QED
      BY <2>2, <3>2, <3>4, <3>5
  <2> QED
    BY <2>1, <2>2
<1>6. f = [n \in Nat |-> IF n = 0 THEN start ELSE next[f[n - 1]]]
  <2> DEFINE e == [n \in Nat |-> IF n = 0 THEN start ELSE next[f[n - 1]]]
  <2>1. \A n \in Nat : f[n] = e[n]
    BY <1>5
  <2>2. f = [n \in Nat |-> f[n]] /\ e = [n \in Nat |-> e[n]]
    BY <1>4
  <2> HIDE DEF f, e
  <2>3. f = e
    BY <2>1, <2>2
  <2> QED
    BY <2>3 DEF e
<1> HIDE DEF f
<1> QED
  BY <1>4, <1>6

-----------------------------------------------------------------------------
(* The list of servers. *)

LEMMA ListSize ==
  ASSUME NEW l \in Seq(Servers), IsInjective(l)
  PROVE  /\ Cardinality(Servers) \in Nat
         /\ Len(l) <= Cardinality(Servers)
<1>1. l \in Injection(1..Len(l), Servers)
  BY DEF IsInjective, Injection
<1>2. IsFiniteSet(Servers)
  BY RouterAssumption
<1>3. Cardinality(1..Len(l)) <= Cardinality(Servers)
  BY <1>1, <1>2, FS_Injection, Zenon
<1>4. Cardinality(1..Len(l)) = Len(l)
  <2>1. Len(l) \in Nat
    OBVIOUS
  <2>2. Cardinality(1..Len(l)) = IF 1 > Len(l) THEN 0 ELSE Len(l) - 1 + 1
    BY <2>1, FS_Interval
  <2> QED
    BY <2>1, <2>2
<1> QED
  BY <1>2, <1>3, <1>4, FS_CardinalityType

\* The lists of replaceServers().
LEMMA ListFacts ==
  ASSUME NEW l \in Lists
  PROVE  l \in Seq(Servers) /\ IsInjective(l)
<1>1. PICK n \in 0..Cardinality(Servers) : l \in [1..n -> Servers] /\ IsInjective(l)
  BY DEF Lists
<1>2. n \in Nat
  OBVIOUS
<1> QED
  BY <1>1, <1>2, IsASeq

\* Removing a server leaves a list without duplicates.
LEMMA SpliceFacts ==
  ASSUME list \in Seq(Servers), IsInjective(list), NEW s
  PROVE  Splice(s) \in Seq(Servers) /\ IsInjective(Splice(s))
<1>1. CASE s \notin Known
  BY <1>1 DEF Splice
<1>2. CASE s \in Known
  <2> DEFINE index == CHOOSE i \in DOMAIN list : list[i] = s
             before == SubSeq(list, 1, index - 1)
             after == SubSeq(list, index + 1, Len(list))
             rest == before \o after
  <2>1. Splice(s) = rest
    BY <1>2 DEF Splice
  <2>2. index \in 1..Len(list) /\ Len(list) \in Nat
    BY <1>2 DEF Known, Range
  <2> HIDE DEF index
  <2>3. /\ before \in Seq(Servers) /\ Len(before) = index - 1
        /\ \A i \in 1..index - 1 : before[i] = list[i]
    <3>1. index - 1 \in 0..Len(list) /\ \A i \in 1..index - 1 : list[i] \in Servers
      BY <2>2
    <3> QED
      BY <2>2, <3>1
  <2>4. /\ after \in Seq(Servers) /\ Len(after) = Len(list) - index
        /\ \A i \in 1..Len(list) - index : after[i] = list[index + i]
    BY <2>2
  <2> HIDE DEF before, after
  <2>5. /\ rest \in Seq(Servers) /\ Len(rest) = Len(before) + Len(after)
        /\ \A i \in 1..Len(rest) :
             rest[i] = IF i <= Len(before) THEN before[i] ELSE after[i - Len(before)]
    <3>1. /\ rest \in Seq(Servers) /\ Len(rest) = Len(before) + Len(after)
          /\ \A i \in 1..Len(before) + Len(after) :
               rest[i] = IF i <= Len(before) THEN before[i] ELSE after[i - Len(before)]
      BY <2>3, <2>4, ConcatProperties
    <3> HIDE DEF rest
    <3> QED
      BY <3>1
  <2> HIDE DEF rest
  <2> DEFINE old(i) == IF i <= Len(before) THEN i ELSE i + 1
  <2>6. ASSUME NEW i \in 1..Len(rest) PROVE old(i) \in 1..Len(list) /\ rest[i] = list[old(i)]
    <3>1. CASE i <= Len(before)
      BY <2>2, <2>3, <2>4, <2>5, <3>1
    <3>2. CASE ~(i <= Len(before))
      <4>1. i - Len(before) \in 1..Len(list) - index /\ index + (i - Len(before)) = i + 1
        BY <2>2, <2>3, <2>4, <2>5, <3>2
      <4> QED
        BY <2>2, <2>4, <2>5, <3>2, <4>1
    <3> QED
      BY <3>1, <3>2
  <2>7. \A i, j \in 1..Len(rest) : old(i) = old(j) => i = j
    BY <2>3, <2>4, <2>5
  <2>8. \A i, j \in 1..Len(list) : list[i] = list[j] => i = j
    BY DEF IsInjective
  <2>9. \A i, j \in 1..Len(rest) : rest[i] = rest[j] => i = j
    <3> HIDE DEF old
    <3> QED
      BY <2>6, <2>7, <2>8
  <2>10. DOMAIN rest = 1..Len(rest)
    BY <2>5
  <2> QED
    BY <2>1, <2>5, <2>9, <2>10 DEF IsInjective
<1> QED
  BY <1>1, <1>2

-----------------------------------------------------------------------------
(* What each step does to the variables of the routers. *)

\* The list changes and the routers are not told.
ListStep ==
  /\ list' \in Seq(Servers) /\ IsInjective(list')
  /\ weight' \in [Servers -> 0..MaxWeight]
  /\ ForgetPicks
  /\ UNCHANGED <<params, counts>>

RouterStep == ListStep \/ RouteRR \/ RouteWRR \/ RouteLA \/ UNCHANGED vars

LEMMA StepsOfRouters ==
  ASSUME TypeOK, [RoutingNext]_routingVars
  PROVE  RouterStep
<1>1. Weights \subseteq 0..MaxWeight
  BY RouterAssumption DEF Weights
<1>2. ASSUME NEW s \in Servers, NEW w \in Weights, AddServer(s, w) PROVE ListStep
  <2>1. ASSUME s \notin Known
        PROVE  Append(list, s) \in Seq(Servers) /\ IsInjective(Append(list, s))
    <3>1. \A i \in 1..Len(list) : list[i] # s
      <4>1. DOMAIN list = 1..Len(list)
        BY DEF TypeOK
      <4> QED
        BY <2>1, <4>1 DEF Known, Range
    <3> DEFINE l == Append(list, s)
    <3>2. /\ l \in Seq(Servers) /\ DOMAIN l = 1..Len(list) + 1 /\ l[Len(list) + 1] = s
          /\ \A i \in 1..Len(list) : l[i] = list[i]
      <4>1. /\ l \in Seq(Servers) /\ Len(l) = Len(list) + 1 /\ l[Len(list) + 1] = s
            /\ \A i \in 1..Len(list) : l[i] = list[i]
        BY AppendProperties DEF TypeOK
      <4> HIDE DEF l
      <4> QED
        BY <4>1
    <3>3. \A i, j \in 1..Len(list) : list[i] = list[j] => i = j
      <4>1. DOMAIN list = 1..Len(list) /\ IsInjective(list)
        BY DEF TypeOK
      <4> QED
        BY <4>1 DEF IsInjective
    <3>4. Len(list) \in Nat
      BY DEF TypeOK
    <3> HIDE DEF l
    <3>5. \A i, j \in 1..Len(list) + 1 : l[i] = l[j] => i = j
      BY <3>1, <3>2, <3>3, <3>4
    <3> QED
      BY <3>2, <3>5 DEF IsInjective, l
  <2>2. list' \in Seq(Servers) /\ IsInjective(list')
    BY <1>2, <2>1 DEF AddServer, TypeOK
  <2>3. weight' \in [Servers -> 0..MaxWeight]
    BY <1>1, <1>2 DEF AddServer, TypeOK
  <2> QED
    BY <1>2, <2>2, <2>3 DEF AddServer, ListStep
<1>3. ASSUME NEW s \in Servers, RemoveServer(s) PROVE ListStep
  <2>1. weight' \in [Servers -> 0..MaxWeight]
    BY <1>3, RouterAssumption DEF RemoveServer, TypeOK
  <2> QED
    BY <1>3, <2>1, SpliceFacts DEF RemoveServer, ListStep, TypeOK
<1>4. ASSUME NEW l \in Lists, NEW w \in Weights, ReplaceServers(l, w) PROVE ListStep
  <2>1. weight' \in [Servers -> 0..MaxWeight]
    BY <1>1, <1>4, RouterAssumption DEF ReplaceServers
  <2> QED
    BY <1>4, <2>1, ListFacts DEF ReplaceServers, ListStep
<1>5. CASE UNCHANGED routingVars
  BY <1>5 DEF routingVars, RouterStep
<1>6. ASSUME NEW s \in Servers \cup Others, StationAdds(s) \/ StationRemoves(s)
      PROVE  RouterStep
  BY <1>2, <1>3, <1>6 DEF StationAdds, StationRemoves, RouterStep
<1>7. ASSUME NEW l \in Lists, NEW S \in SUBSET Others, StationReplaces(l, S)
      PROVE  RouterStep
  BY <1>4, <1>7 DEF StationReplaces, RouterStep
<1>8. CASE RouteCall
  BY <1>8 DEF RouteCall, RouterStep
<1> QED
  BY <1>5, <1>6, <1>7, <1>8 DEF RoutingNext

-----------------------------------------------------------------------------
(* The loop of wrrRoute(). *)

LEMMA MaxWeightFacts ==
  ASSUME TypeOK
  PROVE  /\ MaxWeightOf \in 0..MaxWeight
         /\ \A s \in Known : weight[s] \in 0..MaxWeightOf
         /\ MaxWeightOf > 0 => \E s \in Known : weight[s] = MaxWeightOf
<1> DEFINE W == {weight[s] : s \in Known} \cup {0}
           T == {MaxWeight - x : x \in W}
<1>1. Known \subseteq Servers /\ MaxWeight \in Nat
  BY RangeOfSeq, RouterAssumption DEF TypeOK, Known, Range
<1>2. W \subseteq 0..MaxWeight /\ 0 \in W
  BY <1>1 DEF TypeOK
<1> HIDE DEF W
<1>3. T \in SUBSET Nat /\ T # {}
  BY <1>1, <1>2
<1>4. PICK m \in T : \A n \in T : m <= n
  BY <1>3, LeastNumber
<1>5. PICK x \in W : m = MaxWeight - x
  BY <1>4
<1>6. ASSUME NEW y \in W PROVE x >= y
  <2>1. MaxWeight - y \in T
    OBVIOUS
  <2> HIDE DEF T
  <2>2. m <= MaxWeight - y /\ x \in Nat /\ y \in Nat
    BY <1>2, <1>4, <2>1
  <2> QED
    BY <1>1, <1>5, <2>2
<1>7. MaxWeightOf \in W /\ \A y \in W : MaxWeightOf >= y
  BY <1>6 DEF MaxWeightOf, Max, W
<1> QED
  BY <1>1, <1>2, <1>7 DEF W

\* What wrrParam may hold, and what follows it in the loop.
TurnSet == [index : Int, weight : 0..MaxWeight]

LEMMA TurnFacts ==
  ASSUME TypeOK, list # <<>>, NEW t \in TurnSet
  PROVE  /\ Turn(t) \in TurnSet
         /\ Turn(t).index = (t.index + 1) % Len(list)
         /\ Turn(t).index \in 0..(Len(list) - 1)
         /\ Turn(t).weight = IF Turn(t).index # 0 THEN t.weight
                             ELSE IF t.weight - 1 <= 0 THEN MaxWeightOf ELSE t.weight - 1
         /\ t.index \in 0..(Len(list) - 2) => Turn(t).index = t.index + 1
         /\ t.index = Len(list) - 1 => Turn(t).index = 0
<1>1. Len(list) \in Nat \ {0} /\ t.index \in Int /\ t.weight \in 0..MaxWeight /\ MaxWeight \in Nat
  BY RouterAssumption DEF TypeOK, TurnSet
<1>2. /\ Turn(t).index = (t.index + 1) % Len(list)
      /\ Turn(t).weight = IF Turn(t).index # 0 THEN t.weight
                          ELSE IF t.weight - 1 <= 0 THEN MaxWeightOf ELSE t.weight - 1
  BY DEF Turn
<1>3. Turn(t).index \in 0..(Len(list) - 1)
  <2>1. t.index + 1 \in Int
    BY <1>1
  <2>2. (t.index + 1) % Len(list) \in 0..(Len(list) - 1)
    BY <1>1, <2>1, NextRemainder
  <2> QED
    BY <1>2, <2>2
<1>4. Turn(t).weight \in 0..MaxWeight
  BY <1>1, <1>2, MaxWeightFacts
<1>5. Turn(t) \in TurnSet
  <2>1. Turn(t) = [index |-> Turn(t).index, weight |-> Turn(t).weight]
    BY DEF Turn
  <2>2. Turn(t).index \in Int
    BY <1>1, <1>3
  <2> QED
    BY <1>4, <2>1, <2>2 DEF TurnSet
<1>6. t.index \in 0..(Len(list) - 1) => t.index % Len(list) = t.index
  BY <1>1
<1>7. (t.index + 1) % Len(list) = IF (t.index % Len(list)) + 1 = Len(list)
                                  THEN 0 ELSE (t.index % Len(list)) + 1
  BY <1>1, NextRemainder
<1>8. t.index \in 0..(Len(list) - 2) => Turn(t).index = t.index + 1
  BY <1>1, <1>2, <1>6, <1>7
<1>9. t.index = Len(list) - 1 => Turn(t).index = 0
  BY <1>1, <1>2, <1>6, <1>7
<1> QED
  BY <1>2, <1>3, <1>5, <1>8, <1>9

LEMMA TurnsFacts ==
  ASSUME TypeOK, list # <<>>
  PROVE  /\ Turns \in [Nat -> TurnSet]
         /\ Turns[0] = wrrParam
         /\ \A n \in Nat : Turns[n + 1] = Turn(Turns[n])
         /\ \A n \in Nat \ {0} : Turns[n].index \in 0..(Len(list) - 1)
<1>1. wrrParam \in TurnSet
  BY DEF TypeOK, TurnSet
<1> DEFINE next == [t \in TurnSet |-> Turn(t)]
<1>2. next \in [TurnSet -> TurnSet]
  BY TurnFacts
<1>3. PICK f : /\ f = [n \in Nat |-> IF n = 0 THEN wrrParam ELSE next[f[n - 1]]]
               /\ f \in [Nat -> TurnSet]
  <2> HIDE DEF next
  <2> QED
    BY <1>1, <1>2, Recursion
<1>4. f = [n \in Nat |-> IF n = 0 THEN wrrParam ELSE Turn(f[n - 1])]
  <2> DEFINE e == [n \in Nat |-> IF n = 0 THEN wrrParam ELSE Turn(f[n - 1])]
             d == [n \in Nat |-> IF n = 0 THEN wrrParam ELSE next[f[n - 1]]]
  <2>1. ASSUME NEW n \in Nat PROVE d[n] = e[n]
    <3>1. CASE n # 0
      <4>1. n - 1 \in Nat
        BY <3>1
      <4>2. f[n - 1] \in TurnSet
        BY <1>3, <4>1
      <4>3. next[f[n - 1]] = Turn(f[n - 1])
        BY <4>2
      <4> HIDE DEF next
      <4> QED
        BY <3>1, <4>3
    <3>2. CASE n = 0
      BY <3>2
    <3> QED
      BY <3>1, <3>2
  <2>2. d = [n \in Nat |-> d[n]] /\ e = [n \in Nat |-> e[n]]
    OBVIOUS
  <2>3. f = d
    BY <1>3
  <2> HIDE DEF d, e
  <2>4. d = e
    BY <2>1, <2>2
  <2> QED
    BY <2>3, <2>4 DEF e
<1>5. Turns = [n \in Nat |-> IF n = 0 THEN wrrParam ELSE Turn(Turns[n - 1])]
  BY <1>4 DEF Turns
<1>6. Turns[0] = wrrParam
  BY <1>5
<1>7. ASSUME NEW n \in Nat PROVE Turns[n + 1] = Turn(Turns[n])
  <2>1. n + 1 \in Nat /\ n + 1 # 0 /\ (n + 1) - 1 = n
    OBVIOUS
  <2>2. Turns[n + 1] = Turn(Turns[(n + 1) - 1])
    BY <1>5, <2>1
  <2> QED
    BY <2>1, <2>2
<1>8. \A n \in Nat : Turns[n] \in TurnSet
  <2> DEFINE T == {n \in Nat : Turns[n] \in TurnSet}
  <2>1. T \in SUBSET Nat /\ 0 \in T
    BY <1>1, <1>6
  <2>2. ASSUME NEW n \in T PROVE n + 1 \in T
    <3>1. n \in Nat /\ Turns[n] \in TurnSet
      OBVIOUS
    <3>2. Turns[n + 1] = Turn(Turns[n])
      BY <1>7, <3>1
    <3>3. Turns[n + 1] \in TurnSet
      BY <3>1, <3>2, TurnFacts
    <3> QED
      BY <3>1, <3>3
  <2> HIDE DEF T
  <2>3. \A n \in Nat : n \in T
    BY <2>1, <2>2, Induct
  <2> QED
    BY <2>3 DEF T
<1>9. Turns \in [Nat -> TurnSet]
  <2>1. Turns = [n \in Nat |-> Turns[n]]
    BY <1>5
  <2> QED
    BY <1>8, <2>1
<1>10. ASSUME NEW n \in Nat \ {0} PROVE Turns[n].index \in 0..(Len(list) - 1)
  <2>1. n - 1 \in Nat /\ (n - 1) + 1 = n
    OBVIOUS
  <2>2. Turns[n] = Turn(Turns[n - 1])
    BY <1>7, <2>1
  <2> QED
    BY <1>8, <2>1, <2>2, TurnFacts
<1> QED
  BY <1>6, <1>7, <1>9, <1>10

\* Up to the end of the list the loop walks along it with one weight.
LEMMA TurnsRun ==
  ASSUME TypeOK, list # <<>>, NEW n \in Nat, Turns[n].index \in 0..(Len(list) - 1)
  PROVE  \A d \in 0..(Len(list) - 1 - Turns[n].index) :
            /\ Turns[n + d].index = Turns[n].index + d
            /\ Turns[n + d].weight = Turns[n].weight
<1> DEFINE T == {d \in Nat : d <= Len(list) - 1 - Turns[n].index =>
                                /\ Turns[n + d].index = Turns[n].index + d
                                /\ Turns[n + d].weight = Turns[n].weight}
<1>1. Len(list) \in Nat /\ Turns[n].index \in Nat
  BY DEF TypeOK
<1>2. T \in SUBSET Nat /\ 0 \in T
  BY <1>1
<1>3. ASSUME NEW d \in T PROVE d + 1 \in T
  <2> SUFFICES ASSUME d + 1 <= Len(list) - 1 - Turns[n].index
               PROVE  /\ Turns[n + (d + 1)].index = Turns[n].index + (d + 1)
                      /\ Turns[n + (d + 1)].weight = Turns[n].weight
    OBVIOUS
  <2>1. d <= Len(list) - 1 - Turns[n].index /\ d \in Nat
    BY <1>1
  <2>2. /\ Turns[n + d].index = Turns[n].index + d
        /\ Turns[n + d].weight = Turns[n].weight
    BY <2>1
  <2> DEFINE t == Turns[n + d]
  <2>3. n + d \in Nat /\ (n + d) + 1 = n + (d + 1)
    BY <2>1
  <2>4. t \in TurnSet /\ Turns[n + (d + 1)] = Turn(t)
    BY <2>3, TurnsFacts
  <2>5. t.index \in 0..(Len(list) - 2)
    BY <1>1, <2>1, <2>2
  <2> HIDE DEF t
  <2>6. Turn(t).index = t.index + 1 /\ Turn(t).weight = t.weight
    <3>1. /\ Turn(t).index = t.index + 1
          /\ Turn(t).weight = IF Turn(t).index # 0 THEN t.weight
                              ELSE IF t.weight - 1 <= 0 THEN MaxWeightOf ELSE t.weight - 1
      BY <2>4, <2>5, TurnFacts
    <3>2. t.index + 1 # 0
      BY <2>5
    <3> QED
      BY <3>1, <3>2
  <2>7. Turns[n].index + d + 1 = Turns[n].index + (d + 1)
    BY <1>1, <2>1
  <2> QED
    BY <2>2, <2>4, <2>6, <2>7 DEF t
<1> HIDE DEF T
<1>4. \A d \in Nat : d \in T
  BY <1>2, <1>3, Induct
<1>5. \A d \in 0..(Len(list) - 1 - Turns[n].index) : d \in Nat
  BY <1>1
<1> QED
  BY <1>1, <1>4, <1>5 DEF T

\* From position i of a list, in round n, to the round after its last position.
LEMMA RoundsLeft ==
  ASSUME NEW len \in Nat, NEW i \in 0..(len - 1), NEW n \in Nat
  PROVE  /\ len - 1 - i \in 0..(len - 1 - i)
         /\ i + (len - 1 - i) = len - 1
         /\ n + (len - 1 - i) \in Nat
         /\ (n + (len - 1 - i)) + 1 = n + (len - i)
         /\ n + (len - i) \in Nat /\ n + (len - i) > n
  OBVIOUS

\* The loop reaches the head of the list after at most as many rounds as the
\* list has servers, with the next lower weight or with the greatest one.
LEMMA TurnsHead ==
  ASSUME TypeOK, list # <<>>, NEW n \in Nat,
         Turns[n].index \in 0..(Len(list) - 1)
  PROVE  LET m == n + (Len(list) - Turns[n].index)
         IN  /\ m \in Nat /\ m > n
             /\ Turns[m].index = 0
             /\ Turns[m].weight = IF Turns[n].weight - 1 <= 0 THEN MaxWeightOf
                                  ELSE Turns[n].weight - 1
<1> DEFINE d == Len(list) - 1 - Turns[n].index
           t == Turns[n + d]
<1>0. Len(list) \in Nat
  BY DEF TypeOK
<1>1. /\ d \in 0..d /\ Turns[n].index + d = Len(list) - 1
      /\ n + d \in Nat /\ (n + d) + 1 = n + (Len(list) - Turns[n].index)
      /\ n + (Len(list) - Turns[n].index) \in Nat
      /\ n + (Len(list) - Turns[n].index) > n
  BY <1>0, RoundsLeft
<1> HIDE DEF d
<1>2. t.index = Turns[n].index + d /\ t.weight = Turns[n].weight
  BY <1>1, TurnsRun DEF d
<1>3. t.index = Len(list) - 1
  BY <1>1, <1>2
<1>4. n + d \in Nat /\ (n + d) + 1 = n + (Len(list) - Turns[n].index)
  BY <1>1
<1>5. t \in TurnSet /\ Turns[n + (Len(list) - Turns[n].index)] = Turn(t)
  BY <1>4, TurnsFacts
<1> HIDE DEF t
<1>6. /\ Turn(t).index = 0
      /\ Turn(t).weight = IF t.weight - 1 <= 0 THEN MaxWeightOf ELSE t.weight - 1
  BY <1>3, <1>5, TurnFacts
<1> QED
  BY <1>1, <1>2, <1>5, <1>6

\* After k visits to the head of the list the weight is one that some server
\* has, or as many below the greatest weight there can be.
LEMMA TurnsDescend ==
  ASSUME TypeOK, list # <<>>, MaxWeightOf > 0, NEW k \in Nat
  PROVE  \E n \in 1..(Len(list) * (k + 1)) :
            /\ Turns[n].index = 0
            /\ Turns[n].weight \in 1..MaxWeight
            /\ \/ Turns[n].weight <= MaxWeightOf
               \/ Turns[n].weight <= MaxWeight - (k + 1)
<1> DEFINE L == Len(list)
           Down(n, j) == /\ Turns[n].index = 0
                         /\ Turns[n].weight \in 1..MaxWeight
                         /\ Turns[n].weight <= MaxWeightOf \/ Turns[n].weight <= MaxWeight - (j + 1)
           T == {j \in Nat : \E n \in 1..(L * (j + 1)) : Down(n, j)}
<1>1. L \in Nat \ {0} /\ MaxWeight \in Nat /\ MaxWeightOf \in 1..MaxWeight
  <2>1. list \in Seq(Servers) /\ MaxWeight \in Nat
    BY RouterAssumption DEF TypeOK
  <2>2. L \in Nat \ {0}
    BY <2>1
  <2>3. MaxWeightOf \in 0..MaxWeight
    BY MaxWeightFacts
  <2> QED
    BY <2>1, <2>2, <2>3
<1>2. \A n \in Nat : Turns[n] \in TurnSet
  BY TurnsFacts
<1>3. \A n \in Nat : Turns[n].weight \in 0..MaxWeight
  BY <1>2 DEF TurnSet
<1>4. 0 \in T
  <2>1. 1 \in Nat \ {0} /\ 0 + 1 = 1
    OBVIOUS
  <2>2. Turns[1].index \in 0..(L - 1) /\ Turns[1] = Turn(Turns[0])
    BY <2>1, TurnsFacts
  <2>3. CASE Turns[1].index = 0
    <3>1. Turns[1].weight = IF Turns[0].weight - 1 <= 0 THEN MaxWeightOf ELSE Turns[0].weight - 1
      BY <1>2, <2>2, <2>3, TurnFacts
    <3>2. Down(1, 0)
      BY <1>1, <1>3, <2>3, <3>1
    <3>3. 1 \in 1..(L * (0 + 1))
      BY <1>1
    <3> HIDE DEF Down
    <3> QED
      BY <3>2, <3>3
  <2>4. CASE Turns[1].index # 0
    <3> DEFINE m == 1 + (L - Turns[1].index)
    <3>1. /\ m \in Nat /\ m > 1 /\ Turns[m].index = 0
          /\ Turns[m].weight = IF Turns[1].weight - 1 <= 0 THEN MaxWeightOf
                               ELSE Turns[1].weight - 1
      BY <2>2, TurnsHead
    <3>2. m \in 1..(L * (0 + 1))
      BY <1>1, <2>2, <2>4
    <3> HIDE DEF m
    <3>3. Down(m, 0)
      BY <1>1, <1>3, <3>1
    <3> HIDE DEF Down
    <3> QED
      BY <3>2, <3>3
  <2> QED
    BY <2>3, <2>4
<1>5. ASSUME NEW j \in T PROVE j + 1 \in T
  <2>1. PICK n \in 1..(L * (j + 1)) : Down(n, j)
    OBVIOUS
  <2>2. L * (j + 1) \in Nat /\ L * ((j + 1) + 1) = L * (j + 1) + L
    BY <1>1
  <2> DEFINE m == n + (L - Turns[n].index)
  <2>3. n \in Nat /\ Turns[n].index = 0 /\ Turns[n].index \in 0..(L - 1)
    BY <1>1, <2>1, <2>2
  <2>4. /\ m \in Nat /\ m > n /\ Turns[m].index = 0
        /\ Turns[m].weight = IF Turns[n].weight - 1 <= 0 THEN MaxWeightOf
                             ELSE Turns[n].weight - 1
    BY <2>3, TurnsHead
  <2>5. m \in 1..(L * ((j + 1) + 1))
    BY <1>1, <2>2, <2>3, <2>4
  <2> HIDE DEF m
  <2>6. Down(m, j + 1)
    <3> DEFINE v == Turns[m].weight
               w == Turns[n].weight
    <3>1. j \in Nat /\ w \in 1..MaxWeight /\ (w <= MaxWeightOf \/ w <= MaxWeight - (j + 1))
      BY <2>1
    <3>2. v = IF w - 1 <= 0 THEN MaxWeightOf ELSE w - 1
      BY <2>4
    <3> HIDE DEF v, w
    <3>3. v \in 1..MaxWeight /\ (v <= MaxWeightOf \/ v <= MaxWeight - ((j + 1) + 1))
      BY <1>1, <3>1, <3>2
    <3> QED
      BY <2>4, <3>3 DEF v
  <2> HIDE DEF Down
  <2> QED
    BY <2>5, <2>6
<1> HIDE DEF Down
<1>6. T \in SUBSET Nat
  OBVIOUS
<1> HIDE DEF T
<1>7. k \in T
  BY <1>4, <1>5, <1>6, Induct
<1> QED
  BY <1>7 DEF T, Down

\* The loop ends: after as many visits there is no weight left but those that
\* servers have, and the server with the greatest weight fits them all.
LEMMA LoopReaches ==
  ASSUME TypeOK
  PROVE  LoopEnds
<1> SUFFICES ASSUME list # <<>>, MaxWeightOf > 0
             PROVE  \E n \in 1..MaxRounds : Fits(Turns[n])
  BY DEF LoopEnds
<1> DEFINE L == Len(list)
<1>1. L \in Nat \ {0} /\ MaxWeight \in Nat /\ MaxWeightOf \in 1..MaxWeight
  <2>1. list \in Seq(Servers) /\ MaxWeight \in Nat
    BY RouterAssumption DEF TypeOK
  <2>2. L \in Nat \ {0}
    BY <2>1
  <2>3. MaxWeightOf \in 0..MaxWeight
    BY MaxWeightFacts
  <2> QED
    BY <2>1, <2>2, <2>3
<1>2. MaxWeight - 1 \in Nat /\ (MaxWeight - 1) + 1 = MaxWeight
  BY <1>1
<1>3. PICK n \in 1..(L * MaxWeight) :
               /\ Turns[n].index = 0
               /\ Turns[n].weight \in 1..MaxWeight
               /\ \/ Turns[n].weight <= MaxWeightOf
                  \/ Turns[n].weight <= MaxWeight - MaxWeight
  <2>1. \E n \in 1..(L * ((MaxWeight - 1) + 1)) :
               /\ Turns[n].index = 0
               /\ Turns[n].weight \in 1..MaxWeight
               /\ \/ Turns[n].weight <= MaxWeightOf
                  \/ Turns[n].weight <= MaxWeight - ((MaxWeight - 1) + 1)
    BY <1>1, <1>2, TurnsDescend
  <2> QED
    BY <1>2, <2>1
<1>4. Turns[n].weight <= MaxWeightOf
  BY <1>1, <1>3
<1>5. PICK p \in 1..L : weight[list[p]] = MaxWeightOf
  <2>1. PICK s \in Known : weight[s] = MaxWeightOf
    BY MaxWeightFacts
  <2>2. DOMAIN list = 1..L
    BY DEF TypeOK
  <2>3. PICK p \in 1..L : list[p] = s
    BY <2>2 DEF Known, Range
  <2> QED
    BY <2>1, <2>3
<1>6. L * MaxWeight \in Nat /\ MaxRounds = (L * MaxWeight) + L
  BY <1>1 DEF MaxRounds
<1>7. n \in Nat /\ Turns[n].index \in 0..(L - 1) /\ p - 1 \in 0..(L - 1 - Turns[n].index)
  BY <1>1, <1>3, <1>5, <1>6
<1> DEFINE m == n + (p - 1)
<1>8. Turns[m].index = p - 1 /\ Turns[m].weight = Turns[n].weight
  <2>1. /\ Turns[m].index = Turns[n].index + (p - 1)
        /\ Turns[m].weight = Turns[n].weight
    BY <1>7, TurnsRun
  <2> QED
    BY <1>3, <1>5, <2>1
<1>9. m \in 1..MaxRounds
  BY <1>1, <1>3, <1>5, <1>6
<1> HIDE DEF m
<1>10. Fits(Turns[m])
  <2>1. Turns[m].index + 1 = p
    BY <1>5, <1>8
  <2> QED
    BY <1>1, <1>3, <1>4, <1>5, <1>8, <2>1 DEF Fits
<1> QED
  BY <1>9, <1>10

-----------------------------------------------------------------------------
(* Types. *)

LEMMA PickFacts ==
  ASSUME TypeOK, NEW s \in Known, NEW n \in Nat \ {0}, Pick(s, n)
  PROVE  /\ UNCHANGED <<routerType, list, weight>> /\ Known' = Known
         /\ calls' = calls + n /\ calls' \in 0..MaxCalls
         /\ picks' \in Seq(Known) /\ Len(picks') = Len(picks) + n
         /\ \A i \in 1..Len(picks) : picks'[i] = picks[i]
         /\ \A i \in (Len(picks) + 1)..(Len(picks) + n) : picks'[i] = s
<1>1. UNCHANGED <<routerType, list, weight>> /\ Known' = Known
  BY DEF Pick, Known
<1>2. calls' = calls + n /\ calls' \in 0..MaxCalls
  BY RouterAssumption DEF Pick, TypeOK
<1> DEFINE more == [i \in 1..n |-> s]
<1>3. more \in Seq(Known) /\ Len(more) = n /\ \A i \in 1..n : more[i] = s
  BY IsASeq
<1>4. picks \in Seq(Known)
  BY DEF TypeOK
<1>5. picks' = picks \o more
  BY DEF Pick
<1> HIDE DEF more
<1>6. /\ picks' \in Seq(Known) /\ Len(picks') = Len(picks) + Len(more)
      /\ \A i \in 1..Len(picks) + Len(more) :
           picks'[i] = IF i <= Len(picks) THEN picks[i] ELSE more[i - Len(picks)]
  BY <1>3, <1>4, <1>5, ConcatProperties
<1>7. Len(picks) \in Nat
  BY <1>4
<1> QED
  BY <1>1, <1>2, <1>3, <1>6, <1>7

\* The index of round robin counts calls.
Types == TypeOK /\ rrParam <= calls

LEMMA TypesInit == ASSUME RoutingInit PROVE Types
<1>1. Init
  BY DEF RoutingInit
<1>2. Cardinality(Servers) \in Nat
  BY RouterAssumption, FS_CardinalityType
<1>3. list \in Seq(Servers) /\ IsInjective(list)
  BY <1>1 DEF Init, IsInjective
<1>4. laParam \in [DOMAIN laParam -> Nat] /\ DOMAIN laParam \subseteq Servers
  BY <1>1 DEF Init
<1>5. wrrParam \in [index : -1..(Cardinality(Servers) - 1), weight : 0..MaxWeight]
  BY <1>1, <1>2, RouterAssumption DEF Init
<1>6. picks \in Seq(Known) /\ calls \in 0..MaxCalls /\ rrParam \in 0..MaxCalls /\ rrParam <= calls
  BY <1>1, RouterAssumption DEF Init
<1> QED
  BY <1>1, <1>3, <1>4, <1>5, <1>6, RouterAssumption DEF Init, Types, TypeOK

LEMMA TypesStep == ASSUME Types, RouterStep PROVE Types'
<1>1. CASE ListStep
  <2>1. picks' \in Seq(Known')
    <3>1. CASE list' = list
      BY <1>1, <3>1 DEF ListStep, ForgetPicks, Types, TypeOK, Known
    <3>2. CASE list' # list
      BY <1>1, <3>2 DEF ListStep, ForgetPicks
    <3> QED
      BY <3>1, <3>2
  <2> QED
    BY <1>1, <2>1 DEF ListStep, params, counts, Types, TypeOK
<1>2. CASE RouteRR
  <2>1. PICK n \in 0..MaxNested : Pick(list[(rrParam % Len(list)) + 1], 1 + n)
    BY <1>2 DEF RouteRR
  <2> DEFINE s == list[(rrParam % Len(list)) + 1]
  <2>2. s \in Known
    <3>1. Len(list) \in Nat \ {0} /\ rrParam \in Int /\ DOMAIN list = 1..Len(list)
      BY <1>2 DEF RouteRR, Types, TypeOK
    <3>2. rrParam % Len(list) \in 0..(Len(list) - 1)
      BY <3>1, NextRemainder
    <3>3. (rrParam % Len(list)) + 1 \in DOMAIN list
      BY <3>1, <3>2
    <3> QED
      BY <3>3 DEF Known, Range
  <2>3. 1 + n \in Nat \ {0}
    BY RouterAssumption
  <2> HIDE DEF s
  <2>4. /\ UNCHANGED <<routerType, list, weight>> /\ Known' = Known
        /\ calls' = calls + (1 + n) /\ calls' \in 0..MaxCalls
        /\ picks' \in Seq(Known)
    BY <2>1, <2>2, <2>3, PickFacts DEF s, Types
  <2>5. rrParam' \in 0..MaxCalls /\ rrParam' <= calls'
    <3>1. rrParam' = rrParam + 1
      BY <1>2 DEF RouteRR, NextIndex
    <3>2. rrParam \in Nat /\ calls \in Nat /\ rrParam <= calls /\ MaxCalls \in Nat /\ n \in Nat
      BY RouterAssumption DEF Types, TypeOK
    <3> QED
      BY <2>4, <3>1, <3>2
  <2> QED
    BY <1>2, <2>4, <2>5 DEF RouteRR, Types, TypeOK
<1>3. CASE RouteWRR
  <2>1. PICK n \in 1..MaxRounds : wrrParam' = Turns[n] /\ Pick(list[wrrParam'.index + 1], 1)
    BY <1>3 DEF RouteWRR
  <2>2. /\ list # <<>> /\ TypeOK /\ Len(list) \in Nat \ {0} /\ DOMAIN list = 1..Len(list)
        /\ MaxWeight \in Nat
    <3>1. list # <<>> /\ list \in Seq(Servers) /\ TypeOK
      BY <1>3 DEF RouteWRR, Types, TypeOK
    <3> QED
      BY <3>1, RouterAssumption
  <2>3. n \in Nat \ {0}
    BY <2>2 DEF MaxRounds
  <2>4. Turns[n] \in TurnSet /\ Turns[n].index \in 0..(Len(list) - 1)
    BY <2>2, <2>3, TurnsFacts
  <2>5. wrrParam' \in [index : -1..(Cardinality(Servers) - 1), weight : 0..MaxWeight]
    <3>1. Len(list) <= Cardinality(Servers) /\ Cardinality(Servers) \in Nat
      BY <2>2, ListSize DEF TypeOK
    <3>2. wrrParam'.index \in -1..(Cardinality(Servers) - 1)
      BY <2>1, <2>2, <2>4, <3>1
    <3> QED
      BY <2>1, <2>4, <3>2 DEF TurnSet
  <2> DEFINE s == list[wrrParam'.index + 1]
  <2>6. s \in Known
    <3>1. wrrParam'.index + 1 \in DOMAIN list
      BY <2>1, <2>2, <2>4
    <3> QED
      BY <3>1 DEF Known, Range
  <2> HIDE DEF s
  <2>7. /\ UNCHANGED <<routerType, list, weight>> /\ Known' = Known
        /\ calls' = calls + 1 /\ calls' \in 0..MaxCalls
        /\ picks' \in Seq(Known)
    BY <2>1, <2>2, <2>6, PickFacts DEF s
  <2>8. rrParam' <= calls'
    BY <1>3, <2>7 DEF RouteWRR, Types, TypeOK
  <2> QED
    BY <1>3, <2>5, <2>7, <2>8 DEF RouteWRR, Types, TypeOK
<1>4. CASE RouteLA
  <2> DEFINE counted == IF laParam = <<>> THEN [t \in Known |-> 0] ELSE laParam
  <2>1. PICK s \in LeastActive :
               /\ Pick(s, 1)
               /\ uses' = [uses EXCEPT ![s] = @ + 1]
               /\ laParam' = [t \in DOMAIN counted |-> counted[t] + IF t = s THEN 1 ELSE 0]
    BY <1>4 DEF RouteLA
  <2>2. Known \subseteq Servers
    BY DEF Types, TypeOK, Known, Range
  <2>3. DOMAIN counted \subseteq Servers /\ \A t \in DOMAIN counted : counted[t] \in Nat
    BY <2>2 DEF Types, TypeOK
  <2> HIDE DEF counted
  <2>4. DOMAIN laParam' \subseteq Servers /\ laParam' \in [DOMAIN laParam' -> Nat]
    <3>1. \A t \in DOMAIN counted : counted[t] + (IF t = s THEN 1 ELSE 0) \in Nat
      BY <2>3
    <3>2. DOMAIN laParam' = DOMAIN counted
      BY <2>1
    <3> QED
      BY <2>1, <2>3, <3>1, <3>2
  <2>5. s \in Known
    BY DEF LeastActive
  <2>6. uses' \in [Servers -> Nat]
    <3>1. uses \in [Servers -> Nat] /\ s \in Servers
      BY <2>2, <2>5 DEF Types, TypeOK
    <3>2. uses[s] + 1 \in Nat
      BY <3>1
    <3> QED
      BY <2>1, <3>1, <3>2
  <2>7. /\ UNCHANGED <<routerType, list, weight>> /\ Known' = Known
        /\ calls' = calls + 1 /\ calls' \in 0..MaxCalls
        /\ picks' \in Seq(Known)
    BY <2>1, <2>5, PickFacts DEF Types
  <2>8. rrParam' <= calls'
    BY <1>4, <2>7 DEF RouteLA, Types, TypeOK
  <2> QED
    BY <1>4, <2>4, <2>6, <2>7, <2>8 DEF RouteLA, Types, TypeOK
<1>5. CASE UNCHANGED vars
  BY <1>5 DEF vars, params, counts, Types, TypeOK, Known
<1> QED
  BY <1>1, <1>2, <1>3, <1>4, <1>5 DEF RouterStep

LEMMA TypesAlways == RoutingSpec => []Types
<1>1. ASSUME Types, [RoutingNext]_routingVars PROVE Types'
  BY <1>1, StepsOfRouters, TypesStep DEF Types
<1> QED
  BY <1>1, TypesInit, PTL DEF RoutingSpec

\* The variables of the routers keep their types, and no server is twice in the
\* list.
THEOREM TypeCorrect == RoutingSpec => []TypeOK
<1>1. Types => TypeOK
  BY DEF Types
<1> QED
  BY <1>1, TypesAlways, PTL

\* The loop of wrrRoute() ends whenever some server has a weight, whatever the
\* weight and the index that it starts from: they may be those of servers that
\* have gone.
THEOREM LoopAlwaysEnds == RoutingSpec => []LoopEnds
<1>1. TypeOK => LoopEnds
  BY LoopReaches
<1> QED
  BY <1>1, TypeCorrect, PTL

-----------------------------------------------------------------------------
(* Least active. *)

\* The router's count of a server is the number of its calls.
Counted ==
  /\ laParam = <<>> => \A s \in Servers : uses[s] = 0
  /\ laParam # <<>> => DOMAIN laParam # {}
  /\ \A s \in DOMAIN laParam : uses[s] = laParam[s]

LEMMA CountedStep ==
  ASSUME Types, Counted, RouterStep
  PROVE  /\ Counted'
         /\ \A s, t \in Known \cap DOMAIN laParam :
              uses'[s] > uses[s] => uses[s] <= uses[t]
<1>1. ASSUME UNCHANGED <<laParam, uses>>
      PROVE  /\ Counted'
             /\ \A s, t \in Known \cap DOMAIN laParam :
                  uses'[s] > uses[s] => uses[s] <= uses[t]
  <2>1. Counted'
    BY <1>1 DEF Counted
  <2>2. \A s \in Known : uses[s] \in Nat
    <3>1. uses \in [Servers -> Nat] /\ Known \subseteq Servers
      BY DEF Types, TypeOK, Known, Range
    <3> QED
      BY <3>1
  <2>3. \A s \in Known : ~(uses[s] > uses[s])
    BY <2>2
  <2> QED
    BY <1>1, <2>1, <2>3
<1>2. CASE RouteLA
  <2> DEFINE counted == IF laParam = <<>> THEN [t \in Known |-> 0] ELSE laParam
  <2>1. PICK s \in LeastActive :
               /\ uses' = [uses EXCEPT ![s] = @ + 1]
               /\ laParam' = [t \in DOMAIN counted |-> counted[t] + IF t = s THEN 1 ELSE 0]
    BY <1>2 DEF RouteLA
  <2>2. Known \subseteq Servers /\ DOMAIN laParam \subseteq Servers /\ s \in Known
    <3>1. Known \subseteq Servers /\ DOMAIN laParam \subseteq Servers
      BY DEF Types, TypeOK, Known, Range
    <3> QED
      BY <3>1 DEF LeastActive
  <2>3. \A t \in Servers : uses[t] \in Nat
    BY DEF Types, TypeOK
  <2>4. \A t \in Servers : uses'[t] = IF t = s THEN uses[t] + 1 ELSE uses[t]
    BY <2>1, <2>2 DEF Types, TypeOK
  <2>5. DOMAIN counted # {} /\ DOMAIN counted \subseteq Servers
    BY <2>2 DEF Counted
  <2>6. \A t \in DOMAIN counted : counted[t] = uses[t]
    BY <2>2 DEF Counted
  <2> HIDE DEF counted
  <2>7. DOMAIN laParam' = DOMAIN counted
    BY <2>1
  <2>8. laParam' # <<>>
    <3>1. DOMAIN <<>> = {}
      OBVIOUS
    <3> QED
      BY <2>5, <2>7, <3>1
  <2>9. \A t \in DOMAIN laParam' : uses'[t] = laParam'[t]
    <3> SUFFICES ASSUME NEW t \in DOMAIN counted PROVE uses'[t] = laParam'[t]
      BY <2>7
    <3>1. t \in Servers /\ counted[t] = uses[t]
      BY <2>5, <2>6
    <3>2. laParam'[t] = counted[t] + IF t = s THEN 1 ELSE 0
      BY <2>1
    <3> QED
      BY <2>3, <2>4, <3>1, <3>2
  <2>10. Counted'
    BY <2>5, <2>7, <2>8, <2>9 DEF Counted
  <2>11. ASSUME NEW x \in Known \cap DOMAIN laParam, NEW t \in Known \cap DOMAIN laParam,
                uses'[x] > uses[x]
         PROVE  uses[x] <= uses[t]
    <3>1. x = s
      BY <2>2, <2>3, <2>4, <2>11
    <3>2. Count(s) <= Count(t)
      BY DEF LeastActive
    <3>3. Count(s) = uses[s] /\ Count(t) = uses[t]
      BY <3>1 DEF Count, Counted
    <3> QED
      BY <3>1, <3>2, <3>3
  <2> QED
    BY <2>10, <2>11
<1> QED
  BY <1>1, <1>2 DEF RouterStep, ListStep, RouteRR, RouteWRR, vars, params, counts

LEMMA CountedAlways == RoutingSpec => []Counted
<1>1. RoutingInit => Counted
  BY DEF RoutingInit, Init, Counted
<1>2. ASSUME Types, Counted, [RoutingNext]_routingVars PROVE Counted'
  BY <1>2, StepsOfRouters, CountedStep DEF Types
<1> QED
  BY <1>1, <1>2, TypesAlways, PTL DEF RoutingSpec

\* Least active: of the servers that were there at the first call, none is
\* called again while another has been called less often, for any number of
\* servers and whatever leaves and returns.
THEOREM LeastActiveBalanced == RoutingSpec => BalancedFromStart
<1>1. ASSUME Types, Counted, [RoutingNext]_routingVars
      PROVE  [\A s, t \in Known \cap DOMAIN laParam :
                uses'[s] > uses[s] => uses[s] <= uses[t]]_vars
  BY <1>1, StepsOfRouters, CountedStep DEF Types
<1> QED
  BY <1>1, TypesAlways, CountedAlways, PTL DEF RoutingSpec, BalancedFromStart

-----------------------------------------------------------------------------
(* Round robin. *)

\* How far place q of the list lies ahead of place p, going round.
Ahead(p, q) == IF q >= p THEN q - p ELSE q - p + Len(list)

\* From call i to call j, none of which goes to the server at p, the places of
\* the servers called move away from p.
Advances(i, j) ==
  \A p, a, b \in DOMAIN list :
    picks[i] = list[a] /\ picks[j] = list[b] /\ (\A k \in i..j : picks[k] # list[p])
      => Ahead(p, a) <= Ahead(p, b)

\* The last call went to the place before the one the index stands at, and
\* calls advance.
InTurn ==
  routerType = "rr" =>
    /\ picks # <<>> => picks[Len(picks)] = list[((rrParam - 1) % Len(list)) + 1]
    /\ \A i, j \in DOMAIN picks : i <= j => Advances(i, j)

\* With that, a server that is called twice with another in between was left
\* behind by all: the places can only get back to it by going round.
LEMMA InTurnMeans == ASSUME TypeOK, InTurn PROVE EveryTurn
<1> SUFFICES ASSUME routerType = "rr",
                    NEW i \in DOMAIN picks, NEW j \in DOMAIN picks, NEW k \in i..j,
                    picks[i] = picks[j], picks[k] # picks[i],
                    NEW s \in Known, \A l \in i..j : picks[l] # s
             PROVE  FALSE
  BY DEF EveryTurn
<1>1. DOMAIN picks = 1..Len(picks) /\ Len(picks) \in Nat /\ DOMAIN list = 1..Len(list)
      /\ Len(list) \in Nat
  BY DEF TypeOK
<1>2. i <= k /\ k <= j /\ k \in DOMAIN picks
  BY <1>1
<1>3. \A l \in DOMAIN picks : picks[l] \in Known
  BY <1>1 DEF TypeOK
<1>4. PICK p \in DOMAIN list : s = list[p]
  BY DEF Known, Range
<1>5. PICK a \in DOMAIN list : picks[i] = list[a]
  BY <1>3 DEF Known, Range
<1>6. PICK b \in DOMAIN list : picks[k] = list[b]
  BY <1>2, <1>3 DEF Known, Range
<1>7. Ahead(p, a) <= Ahead(p, b)
  <2>1. \A l \in i..k : picks[l] # list[p]
    BY <1>1, <1>2, <1>4
  <2>2. Advances(i, k)
    BY <1>2 DEF InTurn
  <2> QED
    BY <1>5, <1>6, <2>1, <2>2 DEF Advances
<1>8. Ahead(p, b) <= Ahead(p, a)
  <2>1. \A l \in k..j : picks[l] # list[p]
    BY <1>1, <1>2, <1>4
  <2>2. Advances(k, j)
    BY <1>2 DEF InTurn
  <2> QED
    BY <1>5, <1>6, <2>1, <2>2 DEF Advances
<1>9. a # b /\ a \in 1..Len(list) /\ b \in 1..Len(list) /\ p \in 1..Len(list)
  BY <1>1, <1>5, <1>6
<1> QED
  BY <1>1, <1>7, <1>8, <1>9 DEF Ahead

LEMMA InTurnCall ==
  ASSUME Types, InTurn, RouteRR
  PROVE  InTurn'
<1> DEFINE L == Len(list)
           N == Len(picks)
           r == (rrParam % L) + 1
           q == ((rrParam - 1) % L) + 1
<1>1. routerType = "rr" /\ TypeOK /\ list # <<>> /\ rrParam' = rrParam + 1
  BY DEF RouteRR, NextIndex, Types
<1>2. /\ L \in Nat \ {0} /\ DOMAIN list = 1..L /\ N \in Nat /\ DOMAIN picks = 1..N
      /\ rrParam \in Nat
  BY <1>1 DEF TypeOK
<1>3. \A x, y \in 1..L : list[x] = list[y] => x = y
  BY <1>1, <1>2 DEF TypeOK, IsInjective
<1>4. q \in 1..L /\ r \in 1..L /\ r = IF q = L THEN 1 ELSE q + 1
  <2>1. rrParam - 1 \in Int /\ rrParam \in Int /\ (rrParam - 1) + 1 = rrParam
    BY <1>2
  <2>2. /\ (rrParam - 1) % L \in 0..(L - 1)
        /\ ((rrParam - 1) + 1) % L = IF ((rrParam - 1) % L) + 1 = L THEN 0
                                     ELSE ((rrParam - 1) % L) + 1
    BY <1>2, <2>1, NextRemainder
  <2>3. rrParam % L = IF ((rrParam - 1) % L) + 1 = L THEN 0 ELSE ((rrParam - 1) % L) + 1
    BY <2>1, <2>2
  <2> DEFINE u == (rrParam - 1) % L
             v == rrParam % L
  <2>4. u \in 0..(L - 1) /\ v = IF u + 1 = L THEN 0 ELSE u + 1
    BY <2>2, <2>3
  <2>5. q = u + 1 /\ r = v + 1
    OBVIOUS
  <2>6. L \in Nat \ {0}
    BY <1>2
  <2> HIDE DEF u, v, q, r, L
  <2> QED
    BY <2>4, <2>5, <2>6
<1>5. r = ((rrParam' - 1) % L) + 1
  <2>1. rrParam' - 1 = rrParam
    BY <1>1, <1>2
  <2> QED
    BY <2>1
<1>6. PICK n \in 0..MaxNested : Pick(list[r], 1 + n)
  BY DEF RouteRR
<1> HIDE DEF q, r
<1>7. 1 + n \in Nat \ {0} /\ list[r] \in Known
  <2>1. 1 + n \in Nat \ {0}
    BY RouterAssumption
  <2>2. list[r] \in Known
    BY <1>2, <1>4 DEF Known, Range
  <2> QED
    BY <2>1, <2>2
<1>8. /\ UNCHANGED <<routerType, list>>
      /\ picks' \in Seq(Known) /\ Len(picks') = N + (1 + n)
      /\ \A i \in 1..N : picks'[i] = picks[i]
      /\ \A i \in (N + 1)..(N + (1 + n)) : picks'[i] = list[r]
  BY <1>1, <1>6, <1>7, PickFacts
<1>9. DOMAIN picks' = 1..(N + (1 + n))
  BY <1>8
<1>10. picks'[Len(picks')] = list'[((rrParam' - 1) % Len(list')) + 1]
  BY <1>2, <1>5, <1>7, <1>8
<1>11. ASSUME NEW i \in DOMAIN picks', NEW j \in DOMAIN picks', i <= j,
              NEW p \in 1..L, NEW a \in 1..L, NEW b \in 1..L,
              picks'[i] = list[a], picks'[j] = list[b],
              \A k \in i..j : picks'[k] # list[p]
       PROVE  Ahead(p, a) <= Ahead(p, b)
  <2>1. i \in 1..(N + (1 + n)) /\ j \in 1..(N + (1 + n))
    BY <1>9
  <2>2. CASE j <= N
    <3>1. i \in DOMAIN picks /\ j \in DOMAIN picks
      BY <1>2, <1>11, <2>1, <2>2
    <3>2. picks[i] = list[a] /\ picks[j] = list[b]
      BY <1>2, <1>8, <1>11, <3>1
    <3>3. \A k \in i..j : picks[k] # list[p]
      BY <1>2, <1>8, <1>11, <3>1
    <3>4. Advances(i, j)
      BY <1>1, <1>11, <3>1 DEF InTurn
    <3> QED
      BY <1>2, <3>2, <3>3, <3>4 DEF Advances
  <2>3. CASE i > N
    <3>1. i \in (N + 1)..(N + (1 + n)) /\ j \in (N + 1)..(N + (1 + n))
      BY <1>2, <1>7, <1>11, <2>1, <2>3
    <3>2. list[a] = list[r] /\ list[b] = list[r]
      BY <1>8, <1>11, <3>1
    <3>3. a = b
      BY <1>3, <1>4, <3>2
    <3> QED
      BY <1>2, <3>3 DEF Ahead
  <2>4. CASE i <= N /\ j > N
    <3>1. i \in 1..N /\ N \in 1..N /\ j \in (N + 1)..(N + (1 + n)) /\ N \in i..j /\ j \in i..j
      BY <1>2, <1>7, <1>11, <2>1, <2>4
    <3>2. picks[N] = list[q]
      BY <1>1, <1>2, <3>1 DEF InTurn, q
    <3>3. b = r /\ p # r /\ p # q
      BY <1>3, <1>4, <1>8, <1>11, <3>1, <3>2
    <3>4. Ahead(p, a) <= Ahead(p, q)
      <4>1. picks[i] = list[a]
        BY <1>8, <1>11, <3>1
      <4>2. \A k \in i..N : picks[k] # list[p]
        BY <1>2, <1>8, <1>11, <2>4, <3>1
      <4>3. Advances(i, N)
        BY <1>1, <1>2, <3>1 DEF InTurn
      <4> QED
        BY <1>2, <1>4, <3>2, <4>1, <4>2, <4>3 DEF Advances
    <3>5. Ahead(p, r) = Ahead(p, q) + 1
      <4>1. L \in Nat /\ p \in 1..L
        BY <1>2
      <4>2. Ahead(p, r) = (IF r >= p THEN r - p ELSE r - p + L)
            /\ Ahead(p, q) = (IF q >= p THEN q - p ELSE q - p + L)
        BY DEF Ahead
      <4> HIDE DEF L
      <4> QED
        BY <1>4, <3>3, <4>1, <4>2
    <3>6. Ahead(p, a) \in Int /\ Ahead(p, q) \in Int
      <4>1. L \in Nat
        BY <1>2
      <4>2. p \in Int /\ a \in Int /\ q \in Int
        <5> HIDE DEF L
        <5> QED
          BY <1>4, <4>1
      <4> QED
        BY <4>1, <4>2 DEF Ahead
    <3> QED
      BY <3>3, <3>4, <3>5, <3>6
  <2> QED
    BY <1>2, <2>1, <2>2, <2>3, <2>4
<1>12. \A i, j \in DOMAIN picks' : i <= j => Advances(i, j)'
  <2>1. \A p, a : Ahead(p, a)' = Ahead(p, a)
    BY <1>8 DEF Ahead
  <2> QED
    BY <1>2, <1>8, <1>11, <2>1 DEF Advances
<1> QED
  BY <1>10, <1>12 DEF InTurn

LEMMA InTurnStep == ASSUME Types, InTurn, RouterStep PROVE InTurn'
<1>1. CASE ListStep
  <2>1. CASE picks' = <<>>
    BY <2>1 DEF InTurn
  <2>2. CASE picks' = picks /\ list' = list
    BY <1>1, <2>2 DEF ListStep, params, InTurn, Advances, Ahead
  <2> QED
    BY <1>1, <2>1, <2>2 DEF ListStep, ForgetPicks
<1>2. CASE RouteRR
  BY <1>2, InTurnCall
<1>3. CASE RouteWRR \/ RouteLA
  <2>1. routerType' # "rr"
    BY <1>3 DEF RouteWRR, RouteLA, Pick
  <2> QED
    BY <2>1 DEF InTurn
<1>4. CASE UNCHANGED vars
  BY <1>4 DEF vars, params, InTurn, Advances, Ahead
<1> QED
  BY <1>1, <1>2, <1>3, <1>4 DEF RouterStep

\* Round robin: wherever the index stands after servers came and went, and
\* however many calls a callback makes, once another server had its turn a
\* server is called again only after all the others of the list were.
THEOREM EveryServerHasItsTurn == RoutingSpec => []EveryTurn
<1>1. RoutingInit => InTurn
  BY DEF RoutingInit, Init, InTurn
<1>2. ASSUME Types, InTurn, [RoutingNext]_routingVars PROVE InTurn'
  BY <1>2, StepsOfRouters, InTurnStep DEF Types
<1>3. Types /\ InTurn => EveryTurn
  BY InTurnMeans DEF Types
<1> QED
  BY <1>1, <1>2, <1>3, TypesAlways, PTL DEF RoutingSpec

-----------------------------------------------------------------------------
(* Sums. *)

\* The places that the elements of s take up in a table of m columns, each one
\* as many as its number in f.
Cells(s, f, m) == {c \in s \X (1..m) : c[2] <= f[c[1]]}

LEMMA CellsOfOne ==
  ASSUME NEW s, IsFiniteSet(s), NEW m \in Nat, NEW f, \A y \in s : f[y] \in 0..m, NEW x \in s
  PROVE  /\ IsFiniteSet(Cells(s, f, m)) /\ IsFiniteSet(Cells(s \ {x}, f, m))
         /\ Cardinality(Cells(s, f, m)) = f[x] + Cardinality(Cells(s \ {x}, f, m))
<1> DEFINE A == Cells(s \ {x}, f, m)
           B == {x} \X (1..f[x])
<1>1. IsFiniteSet(1..m) /\ IsFiniteSet(1..f[x]) /\ Cardinality(1..f[x]) = f[x]
  <2>1. f[x] \in Nat
    OBVIOUS
  <2> DEFINE v == f[x]
  <2> HIDE DEF v
  <2>2. v \in Nat
    BY <2>1 DEF v
  <2>3. Cardinality(1..v) = IF 1 > v THEN 0 ELSE v - 1 + 1
    BY <2>2, FS_Interval
  <2>4. IsFiniteSet(1..m) /\ IsFiniteSet(1..v) /\ Cardinality(1..v) = v
    BY <2>2, <2>3, FS_Interval
  <2> QED
    BY <2>4 DEF v
<1>2. IsFiniteSet(s \X (1..m)) /\ IsFiniteSet((s \ {x}) \X (1..m))
  <2>1. IsFiniteSet(s \ {x})
    BY FS_RemoveElement
  <2> QED
    BY <1>1, <2>1, FS_Product
<1>3. IsFiniteSet(Cells(s, f, m)) /\ IsFiniteSet(A)
  <2>1. Cells(s, f, m) \subseteq s \X (1..m) /\ A \subseteq (s \ {x}) \X (1..m)
    BY DEF Cells
  <2> QED
    BY <1>2, <2>1, FS_Subset
<1>4. IsFiniteSet(B) /\ Cardinality(B) = f[x]
  <2>1. IsFiniteSet({x}) /\ Cardinality({x}) = 1
    BY FS_Singleton
  <2>2. IsFiniteSet(B) /\ Cardinality(B) = 1 * Cardinality(1..f[x])
    BY <1>1, <2>1, FS_Product
  <2> QED
    BY <1>1, <2>2
<1>5. Cells(s, f, m) = A \cup B
  <2>1. ASSUME NEW c \in Cells(s, f, m) PROVE c \in A \cup B
    BY <2>1 DEF Cells
  <2>2. ASSUME NEW c \in A PROVE c \in Cells(s, f, m)
    BY <2>2 DEF Cells
  <2>3. ASSUME NEW c \in B PROVE c \in Cells(s, f, m)
    <3>1. f[x] \in 0..m /\ c[1] = x /\ c[2] \in 1..f[x] /\ c = <<c[1], c[2]>>
      OBVIOUS
    <3> QED
      BY <3>1 DEF Cells
  <2> QED
    BY <2>1, <2>2, <2>3
<1>6. A \cap B = {}
  BY DEF Cells
<1> HIDE DEF A, B
<1>7. Cardinality(A \cup B) = Cardinality(A) + Cardinality(B)
  <2>1. Cardinality(A \cup B) = Cardinality(A) + Cardinality(B) - Cardinality(A \cap B)
    BY <1>3, <1>4, FS_Union
  <2>2. Cardinality(A \cap B) = 0 /\ Cardinality(A) \in Nat /\ Cardinality(B) \in Nat
    BY <1>3, <1>4, <1>6, FS_EmptySet, FS_CardinalityType
  <2> QED
    BY <2>1, <2>2
<1>8. Cardinality(A) \in Nat
  BY <1>3, FS_CardinalityType
<1>9. f[x] \in Nat
  OBVIOUS
<1>10. Cardinality(Cells(s, f, m)) = f[x] + Cardinality(A)
  BY <1>4, <1>5, <1>7, <1>8, <1>9
<1> QED
  BY <1>3, <1>10 DEF A

\* The sum of a function, as FoldFunction computes it, is the number of those
\* places.
LEMMA SumIsSize ==
  ASSUME NEW S, IsFiniteSet(S), NEW m \in Nat, NEW f \in [S -> 0..m]
  PROVE  SumFunction(f) = Cardinality(Cells(S, f, m))
<1> DEFINE one(s) == CHOOSE y \in s : TRUE
           size(s) == Cardinality(Cells(s, f, m))
           sums(G) == [s \in SUBSET S |-> IF s = {} THEN 0 ELSE f[one(s)] + G[s \ {one(s)}]]
           F == [s \in SUBSET S |-> size(s)]
<1>1. \A s \in SUBSET S : IsFiniteSet(s) /\ Cardinality(s) \in Nat
  BY FS_Subset, FS_CardinalityType
<1>2. ASSUME NEW s \in SUBSET S, s # {}
      PROVE  /\ s \ {one(s)} \in SUBSET S
             /\ Cardinality(s \ {one(s)}) = Cardinality(s) - 1
             /\ size(s) = f[one(s)] + size(s \ {one(s)})
  <2>1. one(s) \in s
    BY <1>2
  <2> HIDE DEF one
  <2>2. Cardinality(s \ {one(s)}) = Cardinality(s) - 1
    BY <1>1, <2>1, FS_RemoveElement
  <2>3. \A y \in s : f[y] \in 0..m
    OBVIOUS
  <2>4. size(s) = f[one(s)] + size(s \ {one(s)})
    <3> DEFINE x == one(s)
    <3>1. IsFiniteSet(s) /\ x \in s
      BY <1>1, <2>1
    <3> HIDE DEF x
    <3>2. Cardinality(Cells(s, f, m)) = f[x] + Cardinality(Cells(s \ {x}, f, m))
      BY <2>3, <3>1, CellsOfOne
    <3> QED
      BY <3>2 DEF x
  <2> QED
    BY <2>1, <2>2, <2>4
<1>3. size({}) = 0
  <2>1. Cells({}, f, m) = {}
    BY DEF Cells
  <2> QED
    BY <2>1, FS_EmptySet
<1>4. F = sums(F)
  <2>1. ASSUME NEW s \in SUBSET S PROVE F[s] = sums(F)[s]
    <3>1. CASE s = {}
      <4> HIDE DEF size
      <4> QED
        BY <1>3, <3>1
    <3>2. CASE s # {}
      <4> HIDE DEF one, size
      <4> QED
        BY <1>2, <3>2
    <3> QED
      BY <3>1, <3>2
  <2>2. F = [s \in SUBSET S |-> F[s]] /\ sums(F) = [s \in SUBSET S |-> sums(F)[s]]
    OBVIOUS
  <2> HIDE DEF F, sums
  <2> QED
    BY <2>1, <2>2
<1>5. PICK G : G = sums(G) /\ SumFunction(f) = G[S]
  <2>1. DOMAIN f = S
    OBVIOUS
  <2>2. F = [s \in SUBSET DOMAIN f |-> IF s = {} THEN 0
                                    ELSE LET x == CHOOSE y \in s : TRUE
                                         IN  f[x] + F[s \ {x}]]
    <3> HIDE DEF F
    <3> QED
      BY <1>4, <2>1
  <2> HIDE DEF F
  <2>3. \E G : /\ G = [s \in SUBSET DOMAIN f |-> IF s = {} THEN 0
                                              ELSE LET x == CHOOSE y \in s : TRUE
                                                   IN  f[x] + G[s \ {x}]]
              /\ SumFunction(f) = G[DOMAIN f]
    BY <2>2 DEF SumFunction, SumFunctionOnSet, FoldFunctionOnSet, MapThenFoldSet
  <2> QED
    BY <2>1, <2>3
<1>6. \A s \in SUBSET S : G[s] = IF s = {} THEN 0 ELSE f[one(s)] + G[s \ {one(s)}]
  <2> HIDE DEF one
  <2> QED
    BY <1>5
<1> HIDE DEF one, size, sums, F
<1> DEFINE T == {n \in Nat : \A s \in SUBSET S : Cardinality(s) = n => G[s] = size(s)}
<1>7. T \in SUBSET Nat /\ 0 \in T
  <2>1. ASSUME NEW s \in SUBSET S, Cardinality(s) = 0 PROVE G[s] = size(s)
    <3>1. s = {}
      BY <1>1, <2>1, FS_EmptySet
    <3> QED
      BY <1>3, <1>6, <3>1
  <2> QED
    BY <2>1
<1>8. ASSUME NEW n \in T PROVE n + 1 \in T
  <2> SUFFICES ASSUME NEW s \in SUBSET S, Cardinality(s) = n + 1 PROVE G[s] = size(s)
    OBVIOUS
  <2>1. n \in Nat /\ s # {}
    BY FS_EmptySet
  <2>2. G[s \ {one(s)}] = size(s \ {one(s)})
    BY <1>2, <2>1
  <2> QED
    BY <1>2, <1>6, <2>1, <2>2
<1> HIDE DEF T
<1>9. Cardinality(S) \in T
  BY <1>1, <1>7, <1>8, Induct
<1>10. G[S] = size(S)
  BY <1>9 DEF T
<1> QED
  BY <1>5, <1>10 DEF size

-----------------------------------------------------------------------------
(* Weighted round robin. *)

\* The turns at which the loop stops: a server, and a weight that it has.
Fitting == {t \in [index : 0..(Len(list) - 1), weight : 1..MaxWeight] : Fits(t)}

\* The turns of one pass over all weights, from the greatest one down to 1, and
\* their places in it.
Pass == [index : 0..(Len(list) - 1), weight : 1..MaxWeightOf]
Place(t) == (MaxWeightOf - t.weight) * Len(list) + t.index

\* How far turn u lies behind turn t, the passes going round.
Behind(t, u) == IF Place(u) >= Place(t) THEN Place(u) - Place(t)
                ELSE Place(u) - Place(t) + Len(list) * MaxWeightOf

LEMMA FittingInPass ==
  ASSUME TypeOK, NEW t \in Fitting
  PROVE  t \in Pass /\ list # <<>> /\ MaxWeightOf > 0
<1>1. /\ t \in [index : 0..(Len(list) - 1), weight : 1..MaxWeight]
      /\ weight[list[t.index + 1]] >= t.weight
  BY DEF Fitting, Fits
<1>2. Len(list) \in Nat /\ DOMAIN list = 1..Len(list)
  BY DEF TypeOK
<1>3. t.index \in 0..(Len(list) - 1) /\ t.weight \in 1..MaxWeight
  BY <1>1
<1>4. t.index + 1 \in DOMAIN list
  BY <1>2, <1>3
<1>5. weight[list[t.index + 1]] \in 0..MaxWeightOf /\ MaxWeightOf \in Nat
  <2>1. list[t.index + 1] \in Known
    BY <1>4 DEF Known, Range
  <2>2. weight[list[t.index + 1]] \in 0..MaxWeightOf /\ MaxWeightOf \in 0..MaxWeight
    BY <2>1, MaxWeightFacts
  <2> QED
    BY <2>2
<1>6. t.weight \in 1..MaxWeightOf
  BY <1>1, <1>3, <1>5
<1>7. t = [index |-> t.index, weight |-> t.weight]
  BY <1>1
<1>8. t \in Pass
  BY <1>3, <1>6, <1>7 DEF Pass
<1> QED
  BY <1>2, <1>3, <1>5, <1>6, <1>8

LEMMA PlaceFacts ==
  ASSUME TypeOK, NEW t \in Pass
  PROVE  /\ Place(t) \in 0..(Len(list) * MaxWeightOf - 1)
         /\ \A u \in Pass : Place(u) = Place(t) => u = t
<1> DEFINE L == Len(list)
           M == MaxWeightOf
<1>1. L \in Nat /\ M \in Nat
  BY MaxWeightFacts DEF TypeOK
<1> HIDE DEF L, M
<1>2. \A u \in Pass : /\ u = [index |-> u.index, weight |-> u.weight]
                      /\ u.index \in 0..(L - 1) /\ u.weight \in 1..M
                      /\ Place(u) = (M - u.weight) * L + u.index
  BY DEF Pass, Place, L, M
<1>3. Place(t) \in 0..(L * M - 1)
  <2> DEFINE i == t.index
             w == t.weight
  <2>1. i \in 0..(L - 1) /\ w \in 1..M /\ Place(t) = (M - w) * L + i
    BY <1>2
  <2> HIDE DEF i, w
  <2>2. (M - w) * L \in Nat /\ (M - w) * L <= (M - 1) * L
    BY <1>1, <2>1
  <2>3. (M - 1) * L = L * M - L /\ L * M \in Nat
    BY <1>1
  <2> QED
    BY <1>1, <2>1, <2>2, <2>3
<1>4. ASSUME NEW u \in Pass, Place(u) = Place(t) PROVE u = t
  <2> DEFINE i == t.index
             w == t.weight
             j == u.index
             v == u.weight
  <2>1. /\ i \in 0..(L - 1) /\ w \in 1..M /\ Place(t) = (M - w) * L + i
        /\ j \in 0..(L - 1) /\ v \in 1..M /\ Place(u) = (M - v) * L + j
    BY <1>2
  <2>2. u = [index |-> j, weight |-> v] /\ t = [index |-> i, weight |-> w]
    BY <1>2
  <2> HIDE DEF i, j, v, w
  <2>3. (M - w) * L + i = (M - v) * L + j
    BY <1>4, <2>1
  <2>4. i = j
    BY <1>1, <2>1, <2>3
  <2>5. v = w
    BY <1>1, <2>1, <2>3, <2>4
  <2> QED
    BY <2>2, <2>4, <2>5
<1> QED
  BY <1>3, <1>4 DEF L, M

\* Each round of the loop goes on by one place.
LEMMA PlaceNext ==
  ASSUME TypeOK, list # <<>>, MaxWeightOf > 0, NEW t \in Pass
  PROVE  /\ Turn(t) \in Pass
         /\ Place(Turn(t)) = IF Place(t) + 1 = Len(list) * MaxWeightOf THEN 0 ELSE Place(t) + 1
<1> DEFINE L == Len(list)
           M == MaxWeightOf
           i == t.index
           w == t.weight
           j == Turn(t).index
           v == Turn(t).weight
<1>1. L \in Nat \ {0} /\ M \in Nat \ {0} /\ M <= MaxWeight /\ MaxWeight \in Nat
  <2>1. list \in Seq(Servers) /\ M \in 0..MaxWeight /\ MaxWeight \in Nat
    BY MaxWeightFacts, RouterAssumption DEF TypeOK
  <2> QED
    BY <2>1
<1>2. i \in 0..(L - 1) /\ w \in 1..M /\ t = [index |-> i, weight |-> w]
  BY DEF Pass
<1>3. t \in TurnSet
  <2>1. i \in Int /\ w \in 0..MaxWeight
    <3> HIDE DEF i, w, L, M
    <3> QED
      BY <1>1, <1>2
  <2> QED
    BY <1>2, <2>1 DEF TurnSet
<1>4. /\ v = IF j # 0 THEN w ELSE IF w - 1 <= 0 THEN M ELSE w - 1
      /\ j \in 0..(L - 1)
      /\ i \in 0..(L - 2) => j = i + 1
      /\ i = L - 1 => j = 0
  BY <1>3, TurnFacts
<1>5. Turn(t) = [index |-> j, weight |-> v]
  BY DEF Turn
<1>6. Place(t) = (M - w) * L + i /\ Place(Turn(t)) = (M - v) * L + j
  BY DEF Place
<1> HIDE DEF L, M, i, w, j, v
<1>7. v \in 1..M
  BY <1>1, <1>2, <1>4
<1>8. Turn(t) \in Pass
  BY <1>4, <1>5, <1>7 DEF Pass, L, M
<1>9. CASE i \in 0..(L - 2)
  <2>1. j = i + 1 /\ v = w
    BY <1>1, <1>4, <1>9
  <2>2. Place(Turn(t)) = Place(t) + 1
    BY <1>1, <1>2, <1>6, <2>1
  <2>3. Place(Turn(t)) \in 0..(L * M - 1)
    BY <1>8, PlaceFacts DEF L, M
  <2>4. Place(t) + 1 # L * M
    BY <1>1, <2>2, <2>3
  <2> QED
    BY <1>8, <2>2, <2>4 DEF L, M
<1>10. CASE i = L - 1 /\ w > 1
  <2>1. j = 0 /\ v = w - 1
    BY <1>1, <1>2, <1>4, <1>10
  <2>2. Place(t) + 1 = (M - w) * L + L /\ (M - w) * L + L = (M - v) * L
    BY <1>1, <1>2, <1>6, <1>10, <2>1
  <2>3. Place(Turn(t)) = Place(t) + 1
    BY <1>1, <1>6, <1>7, <2>1, <2>2
  <2>4. Place(Turn(t)) \in 0..(L * M - 1)
    BY <1>8, PlaceFacts DEF L, M
  <2>5. Place(t) + 1 # L * M
    BY <1>1, <2>3, <2>4
  <2> QED
    BY <1>8, <2>3, <2>5 DEF L, M
<1>11. CASE i = L - 1 /\ w = 1
  <2>1. j = 0 /\ v = M
    BY <1>1, <1>4, <1>11
  <2>2. Place(Turn(t)) = 0
    BY <1>1, <1>6, <2>1
  <2>3. Place(t) + 1 = L * M
    BY <1>1, <1>6, <1>11
  <2> QED
    BY <1>8, <2>2, <2>3 DEF L, M
<1> QED
  BY <1>1, <1>2, <1>9, <1>10, <1>11

LEMMA BehindNext ==
  ASSUME TypeOK, list # <<>>, MaxWeightOf > 0, NEW t \in Pass, NEW u \in Pass, Turn(u) # t
  PROVE  Behind(t, Turn(u)) = Behind(t, u) + 1 /\ Behind(t, u) \in Nat
<1> DEFINE p == Place(t)
           q == Place(u)
           r == Place(Turn(u))
           C == Len(list) * MaxWeightOf
<1>1. C \in Nat
  <2>1. Len(list) \in Nat /\ MaxWeightOf \in Nat
    BY MaxWeightFacts DEF TypeOK
  <2> QED
    BY <2>1
<1>2. p \in 0..(C - 1) /\ q \in 0..(C - 1)
  BY PlaceFacts
<1>3. r = IF q + 1 = C THEN 0 ELSE q + 1
  BY PlaceNext
<1>4. r # p
  BY PlaceNext, PlaceFacts
<1>5. /\ Behind(t, Turn(u)) = IF r >= p THEN r - p ELSE r - p + C
      /\ Behind(t, u) = IF q >= p THEN q - p ELSE q - p + C
  BY DEF Behind
<1> HIDE DEF p, q, r, C
<1> QED
  BY <1>1, <1>2, <1>3, <1>4, <1>5

\* From a turn of the pass the loop gets to its n-th turn without passing a turn
\* that it does not meet.
LEMMA TurnsApproach ==
  ASSUME TypeOK, list # <<>>, MaxWeightOf > 0, wrrParam \in Pass, NEW t \in Pass,
         NEW n \in Nat, \A k \in 0..n : Turns[k] # t
  PROVE  Behind(t, Turns[n]) = Behind(t, wrrParam) + n
<1> DEFINE T == {k \in Nat : k <= n => /\ Turns[k] \in Pass
                                       /\ Behind(t, Turns[k]) = Behind(t, wrrParam) + k
                                       /\ Behind(t, wrrParam) \in Nat}
<1>1. Turns[0] = wrrParam /\ \A k \in Nat : Turns[k + 1] = Turn(Turns[k])
  BY TurnsFacts
<1>2. 0 \in T
  <2>1. Behind(t, wrrParam) \in Nat
    <3> DEFINE p == Place(t)
               q == Place(wrrParam)
               C == Len(list) * MaxWeightOf
    <3>1. Len(list) \in Nat /\ MaxWeightOf \in Nat
      BY MaxWeightFacts DEF TypeOK
    <3>2. C \in Nat /\ p \in 0..(C - 1) /\ q \in 0..(C - 1)
      BY <3>1, PlaceFacts
    <3>3. Behind(t, wrrParam) = IF q >= p THEN q - p ELSE q - p + C
      BY DEF Behind
    <3> HIDE DEF p, q, C
    <3> QED
      BY <3>2, <3>3
  <2> QED
    BY <1>1, <2>1
<1>3. ASSUME NEW k \in T PROVE k + 1 \in T
  <2> SUFFICES ASSUME k + 1 <= n
               PROVE  /\ Turns[k + 1] \in Pass
                      /\ Behind(t, Turns[k + 1]) = Behind(t, wrrParam) + (k + 1)
                      /\ Behind(t, wrrParam) \in Nat
    OBVIOUS
  <2>1. k \in Nat /\ k <= n /\ k + 1 \in 0..n
    OBVIOUS
  <2> DEFINE u == Turns[k]
  <2>2. u \in Pass /\ Behind(t, u) = Behind(t, wrrParam) + k /\ Behind(t, wrrParam) \in Nat
    BY <2>1
  <2>3. Turns[k + 1] = Turn(u) /\ Turn(u) # t
    BY <1>1, <2>1
  <2> HIDE DEF u
  <2>4. Turn(u) \in Pass /\ Behind(t, Turn(u)) = Behind(t, u) + 1
    BY <2>2, <2>3, PlaceNext, BehindNext
  <2> QED
    BY <2>1, <2>2, <2>3, <2>4
<1>4. T \in SUBSET Nat
  OBVIOUS
<1> HIDE DEF T
<1>5. n \in T
  BY <1>2, <1>3, <1>4, Induct
<1> QED
  BY <1>5 DEF T

\* T holds the turns at which the servers were picked.  From turn i to turn j,
\* none of which is t, the turns move away from t, by a place at least for each.
Traces(T) ==
  /\ T \in [DOMAIN picks -> Fitting]
  /\ \A i \in DOMAIN picks : picks[i] = list[T[i].index + 1]
  /\ picks # <<>> => wrrParam = T[Len(picks)]
  /\ \A i, j \in DOMAIN picks : i <= j =>
       \A t \in Fitting : (\A k \in i..j : T[k] # t)
                            => Behind(t, T[i]) + (j - i) <= Behind(t, T[j])

\* Before its first call the router has no weight, but no index either.
Proportional ==
  routerType = "wrr" => /\ wrrParam.weight >= 1 \/ wrrParam.index = -1
                        /\ \E T : Traces(T)

LEMMA TurnsPositive ==
  ASSUME TypeOK, list # <<>>, MaxWeightOf > 0, wrrParam.weight >= 1 \/ wrrParam.index = -1
  PROVE  \A n \in Nat \ {0} : Turns[n].weight >= 1
<1>1. Len(list) \in Nat \ {0} /\ MaxWeightOf \in Nat /\ MaxWeight \in Nat
  <2>1. list \in Seq(Servers) /\ MaxWeight \in Nat /\ MaxWeightOf \in 0..MaxWeight
    BY MaxWeightFacts, RouterAssumption DEF TypeOK
  <2> QED
    BY <2>1
<1>2. ASSUME NEW t \in TurnSet, t.weight >= 1 \/ t.index = -1 PROVE Turn(t).weight >= 1
  <2>1. /\ Turn(t).index = (t.index + 1) % Len(list)
        /\ Turn(t).weight = IF Turn(t).index # 0 THEN t.weight
                            ELSE IF t.weight - 1 <= 0 THEN MaxWeightOf ELSE t.weight - 1
    BY TurnFacts
  <2>2. t.weight \in Nat
    BY <1>1 DEF TurnSet
  <2>3. t.index = -1 => Turn(t).index = 0
    <3>1. t.index = -1 => t.index + 1 = 0
      OBVIOUS
    <3>2. 0 % Len(list) = 0
      BY <1>1
    <3> QED
      BY <2>1, <3>1, <3>2
  <2> QED
    BY <1>1, <1>2, <2>1, <2>2, <2>3
<1> DEFINE S == {n \in Nat : Turns[n + 1].weight >= 1}
<1>3. Turns[0] = wrrParam /\ \A n \in Nat : Turns[n] \in TurnSet /\ Turns[n + 1] = Turn(Turns[n])
  BY TurnsFacts
<1>4. S \in SUBSET Nat /\ 0 \in S
  <2>1. Turns[0 + 1] = Turn(wrrParam) /\ wrrParam \in TurnSet
    BY <1>3
  <2> QED
    BY <1>2, <2>1
<1>5. ASSUME NEW n \in S PROVE n + 1 \in S
  <2>1. n + 1 \in Nat /\ Turns[n + 1].weight >= 1
    OBVIOUS
  <2>2. Turns[(n + 1) + 1] = Turn(Turns[n + 1]) /\ Turns[n + 1] \in TurnSet
    BY <1>3, <2>1
  <2> QED
    BY <1>2, <2>1, <2>2
<1> HIDE DEF S
<1>6. \A n \in Nat : n \in S
  BY <1>4, <1>5, Induct
<1>7. ASSUME NEW n \in Nat \ {0} PROVE Turns[n].weight >= 1
  <2>1. n - 1 \in S /\ (n - 1) + 1 = n
    BY <1>6
  <2> QED
    BY <2>1 DEF S
<1> QED
  BY <1>7

\* A call appends the turn it ends at.
LEMMA ProportionalCall ==
  ASSUME Types, Proportional, RouteWRR
  PROVE  Proportional'
<1>1. routerType = "wrr" /\ list # <<>> /\ MaxWeightOf > 0 /\ TypeOK
  BY DEF RouteWRR, Types
<1>2. PICK n \in 1..MaxRounds : /\ EndsAfter(n)
                                /\ wrrParam' = Turns[n]
                                /\ Pick(list[wrrParam'.index + 1], 1)
  BY DEF RouteWRR
<1>3. PICK T : Traces(T)
  BY <1>1 DEF Proportional
<1> DEFINE u == Turns[n]
           N == Len(picks)
<1>4. /\ Len(list) \in Nat \ {0} /\ DOMAIN list = 1..Len(list) /\ MaxWeight \in Nat
      /\ N \in Nat /\ DOMAIN picks = 1..N
  <2>1. list \in Seq(Servers) /\ MaxWeight \in Nat /\ picks \in Seq(Known)
    BY <1>1, RouterAssumption DEF TypeOK
  <2> QED
    BY <1>1, <2>1
<1>5. n \in Nat \ {0}
  BY <1>4 DEF MaxRounds
<1>6. u \in Fitting /\ u.weight >= 1
  <2>1. u \in TurnSet /\ u.index \in 0..(Len(list) - 1)
    BY <1>1, <1>5, TurnsFacts
  <2>2. u.weight >= 1
    BY <1>1, <1>5, TurnsPositive DEF Proportional
  <2>3. u.weight \in 1..MaxWeight /\ u = [index |-> u.index, weight |-> u.weight]
    BY <1>4, <2>1, <2>2 DEF TurnSet
  <2>4. Fits(u)
    BY <1>2 DEF EndsAfter
  <2> HIDE DEF u
  <2>5. u \in [index : 0..(Len(list) - 1), weight : 1..MaxWeight]
    BY <2>1, <2>3
  <2> QED
    BY <2>2, <2>4, <2>5 DEF Fitting
<1> HIDE DEF u
<1>7. list[u.index + 1] \in Known
  <2>1. u.index \in 0..(Len(list) - 1)
    BY <1>6 DEF Fitting
  <2>2. u.index + 1 \in DOMAIN list
    BY <1>4, <2>1
  <2> QED
    BY <2>2 DEF Known, Range
<1>8. /\ UNCHANGED <<routerType, list, weight>> /\ Known' = Known
      /\ picks' \in Seq(Known) /\ Len(picks') = N + 1
      /\ \A i \in 1..N : picks'[i] = picks[i]
      /\ picks'[N + 1] = list[u.index + 1]
  <2>1. wrrParam' = u /\ Pick(list[u.index + 1], 1)
    BY <1>2 DEF u
  <2>2. 1 \in Nat \ {0}
    OBVIOUS
  <2>3. /\ UNCHANGED <<routerType, list, weight>> /\ Known' = Known
        /\ picks' \in Seq(Known) /\ Len(picks') = N + 1
        /\ \A i \in 1..N : picks'[i] = picks[i]
        /\ \A i \in (N + 1)..(N + 1) : picks'[i] = list[u.index + 1]
    BY <1>1, <1>7, <2>1, <2>2, PickFacts
  <2> QED
    BY <1>4, <2>3
<1>9. wrrParam' = u /\ DOMAIN picks' = 1..(N + 1) /\ picks' # <<>>
  BY <1>2, <1>4, <1>8 DEF u
<1>10. Fitting' = Fitting /\ \A t, v : Behind(t, v)' = Behind(t, v)
  <2>1. MaxWeightOf' = MaxWeightOf
    BY <1>8 DEF MaxWeightOf
  <2> QED
    BY <1>8, <2>1 DEF Fitting, Fits, Behind, Place
<1>11. /\ T \in [1..N -> Fitting]
       /\ \A i \in 1..N : picks[i] = list[T[i].index + 1]
       /\ N # 0 => wrrParam = T[N]
       /\ \A i, j \in 1..N : i <= j =>
            \A t \in Fitting : (\A k \in i..j : T[k] # t)
                                 => Behind(t, T[i]) + (j - i) <= Behind(t, T[j])
  <2>1. N # 0 => picks # <<>>
    OBVIOUS
  <2> QED
    BY <1>3, <1>4, <2>1 DEF Traces
<1>12. PICK U : /\ U \in [1..(N + 1) -> Fitting] /\ U[N + 1] = u
                /\ \A i \in 1..N : U[i] = T[i]
  <2> DEFINE longer == [i \in 1..(N + 1) |-> IF i <= N THEN T[i] ELSE u]
  <2>1. /\ longer \in [1..(N + 1) -> Fitting] /\ longer[N + 1] = u
        /\ \A i \in 1..N : longer[i] = T[i]
    BY <1>4, <1>6, <1>11
  <2> HIDE DEF longer
  <2> QED
    BY <2>1
<1>13. \A i \in 1..(N + 1) : picks'[i] = list[U[i].index + 1]
  <2> TAKE i \in 1..(N + 1)
  <2>1. CASE i = N + 1
    BY <1>8, <1>12, <2>1
  <2>2. CASE i # N + 1
    <3>1. i \in 1..N
      BY <1>4, <2>2
    <3> QED
      BY <1>8, <1>11, <1>12, <3>1
  <2> QED
    BY <2>1, <2>2
<1>14. ASSUME NEW i \in 1..(N + 1), NEW j \in 1..(N + 1), i <= j,
              NEW t \in Fitting, \A k \in i..j : U[k] # t
       PROVE  Behind(t, U[i]) + (j - i) <= Behind(t, U[j])
  <2>0. \A v \in Fitting : Behind(t, v) \in Int
    <3> SUFFICES ASSUME NEW v \in Fitting PROVE Behind(t, v) \in Int
      OBVIOUS
    <3> DEFINE C == Len(list) * MaxWeightOf
    <3>1. Place(t) \in 0..(C - 1) /\ Place(v) \in 0..(C - 1)
      BY <1>1, FittingInPass, PlaceFacts
    <3>2. C \in Int
      BY <1>1, <1>4, MaxWeightFacts
    <3> HIDE DEF C
    <3>3. Place(t) \in Int /\ Place(v) \in Int
      BY <3>1, <3>2
    <3> QED
      BY <3>2, <3>3 DEF Behind, C
  <2>1. CASE j <= N
    <3>1. i \in 1..N /\ j \in 1..N
      BY <1>4, <1>14, <2>1
    <3>2. \A k \in i..j : T[k] # t
      BY <1>4, <1>12, <1>14, <3>1
    <3> QED
      BY <1>11, <1>12, <1>14, <3>1, <3>2
  <2>2. CASE i = N + 1
    <3>1. j = N + 1
      BY <1>4, <1>14, <2>2
    <3> QED
      BY <1>4, <1>6, <1>12, <2>0, <2>2, <3>1
  <2>3. CASE i <= N /\ j = N + 1
    <3>1. i \in 1..N /\ N \in 1..N /\ N # 0 /\ wrrParam = T[N] /\ T[N] \in Fitting
      BY <1>4, <1>11, <2>3
    <3>2. \A k \in i..N : T[k] # t
      BY <1>4, <1>12, <1>14, <2>3, <3>1
    <3>3. Behind(t, T[i]) + (N - i) <= Behind(t, wrrParam)
      BY <1>11, <2>3, <3>1, <3>2
    <3>4. u # t /\ wrrParam # t
      BY <1>4, <1>12, <1>14, <2>3, <3>1, <3>2
    <3>5. \A k \in 0..n : Turns[k] # t
      <4> SUFFICES ASSUME NEW k \in 0..n PROVE Turns[k] # t
        OBVIOUS
      <4>1. CASE k = 0
        BY <1>1, <3>4, <4>1, TurnsFacts
      <4>2. CASE k = n
        BY <3>4, <4>2 DEF u
      <4>3. CASE k \in 1..(n - 1)
        <5>1. ~Fits(Turns[k])
          BY <1>2, <4>3 DEF EndsAfter
        <5>2. Fits(t)
          BY DEF Fitting
        <5> QED
          BY <5>1, <5>2
      <4> QED
        BY <1>5, <4>1, <4>2, <4>3
    <3>6. wrrParam \in Pass /\ t \in Pass
      BY <1>1, <3>1, FittingInPass
    <3>7. Behind(t, u) = Behind(t, wrrParam) + n
      BY <1>1, <1>5, <3>5, <3>6, TurnsApproach DEF u
    <3>8. U[i] = T[i] /\ U[j] = u
      BY <1>12, <2>3, <3>1
    <3>9. Behind(t, T[i]) \in Int /\ Behind(t, wrrParam) \in Int
      BY <1>11, <2>0, <3>1
    <3> QED
      BY <1>4, <1>5, <2>3, <3>3, <3>7, <3>8, <3>9
  <2> QED
    BY <1>4, <2>1, <2>2, <2>3
<1>15. Traces(U)'
  <2>1. U \in [DOMAIN picks' -> Fitting']
    BY <1>9, <1>10, <1>12
  <2>2. \A i \in DOMAIN picks' : picks'[i] = list'[U[i].index + 1]
    BY <1>8, <1>9, <1>13
  <2>3. wrrParam' = U[Len(picks')]
    BY <1>8, <1>9, <1>12
  <2>4. \A i, j \in DOMAIN picks' : i <= j =>
          \A t \in Fitting' : (\A k \in i..j : U[k] # t)
                                => Behind(t, U[i])' + (j - i) <= Behind(t, U[j])'
    BY <1>9, <1>10, <1>14
  <2> QED
    BY <2>1, <2>2, <2>3, <2>4 DEF Traces
<1> QED
  BY <1>6, <1>9, <1>15 DEF Proportional

LEMMA ProportionalStep == ASSUME Types, Proportional, RouterStep PROVE Proportional'
<1>1. CASE ListStep
  <2>1. routerType' = routerType /\ wrrParam' = wrrParam
    BY <1>1 DEF ListStep, params
  <2>2. CASE picks' = <<>>
    <3>1. Traces(<<>>)'
      BY <2>2 DEF Traces
    <3> QED
      BY <2>1, <3>1 DEF Proportional
  <2>3. CASE picks' = picks /\ list' = list /\ weight' = weight
    <3>1. MaxWeightOf' = MaxWeightOf
      BY <2>3 DEF MaxWeightOf, Known
    <3>2. \A T : Traces(T) => Traces(T)'
      BY <2>1, <2>3, <3>1 DEF Traces, Fitting, Fits, Behind, Place
    <3> QED
      BY <2>1, <3>2 DEF Proportional
  <2> QED
    BY <1>1, <2>2, <2>3 DEF ListStep, ForgetPicks
<1>2. CASE RouteWRR
  BY <1>2, ProportionalCall
<1>3. CASE RouteRR \/ RouteLA
  <2>1. routerType' # "wrr"
    BY <1>3 DEF RouteRR, RouteLA, Pick
  <2> QED
    BY <2>1 DEF Proportional
<1>4. CASE UNCHANGED vars
  <2>1. MaxWeightOf' = MaxWeightOf
    BY <1>4 DEF vars, MaxWeightOf, Known
  <2>2. \A T : Traces(T) => Traces(T)'
    BY <1>4, <2>1 DEF vars, params, Traces, Fitting, Fits, Behind, Place
  <2> QED
    BY <1>4, <2>2 DEF vars, params, Proportional
<1> QED
  BY <1>1, <1>2, <1>3, <1>4 DEF RouterStep

\* There are as many turns to stop at as the weights add up to.
LEMMA FittingSize ==
  ASSUME TypeOK
  PROVE  IsFiniteSet(Fitting) /\ Share = Cardinality(Fitting)
<1> DEFINE f == [s \in Known |-> weight[s]]
           C == Cells(Known, f, MaxWeight)
           cell == [t \in Fitting |-> <<list[t.index + 1], t.weight>>]
<1>1. /\ DOMAIN list = 1..Len(list) /\ Len(list) \in Nat /\ MaxWeight \in Nat
      /\ \A i, j \in 1..Len(list) : list[i] = list[j] => i = j
  <2>1. DOMAIN list = 1..Len(list) /\ Len(list) \in Nat /\ MaxWeight \in Nat /\ IsInjective(list)
    BY RouterAssumption DEF TypeOK
  <2> QED
    BY <2>1 DEF IsInjective
<1>2. Known \subseteq Servers /\ IsFiniteSet(Known)
  <2>1. Known \subseteq Servers
    BY DEF TypeOK, Known, Range
  <2> QED
    BY <2>1, RouterAssumption, FS_Subset
<1>3. f \in [Known -> 0..MaxWeight]
  BY <1>2 DEF TypeOK
<1>4. Share = Cardinality(C)
  <2>1. Share = SumFunction(f)
    BY DEF Share
  <2> HIDE DEF f
  <2>2. SumFunction(f) = Cardinality(C)
    BY <1>1, <1>2, <1>3, SumIsSize
  <2> QED
    BY <2>1, <2>2
<1>5. IsFiniteSet(C)
  <2>1. IsFiniteSet(1..MaxWeight)
    BY <1>1, FS_Interval
  <2>2. IsFiniteSet(Known \X (1..MaxWeight))
    BY <1>2, <2>1, FS_Product
  <2>3. C \subseteq Known \X (1..MaxWeight)
    BY DEF Cells
  <2> QED
    BY <2>2, <2>3, FS_Subset
<1>6. \A t \in Fitting : /\ t = [index |-> t.index, weight |-> t.weight]
                         /\ t.index \in 0..(Len(list) - 1) /\ t.weight \in 1..MaxWeight
                         /\ weight[list[t.index + 1]] >= t.weight
                         /\ t.index + 1 \in 1..Len(list)
  BY <1>1 DEF Fitting, Fits
<1>7. cell \in Injection(Fitting, C)
  <2>1. ASSUME NEW t \in Fitting PROVE cell[t] \in C
    <3>1. list[t.index + 1] \in Known
      BY <1>1, <1>6 DEF Known, Range
    <3>2. f[list[t.index + 1]] = weight[list[t.index + 1]]
      BY <3>1
    <3>3. cell[t] = <<list[t.index + 1], t.weight>>
      OBVIOUS
    <3> HIDE DEF cell, f
    <3>4. f[list[t.index + 1]] \in 0..MaxWeight /\ t.weight \in 1..MaxWeight
      BY <1>3, <1>6, <3>1
    <3> QED
      BY <1>6, <3>1, <3>2, <3>3, <3>4 DEF Cells
  <2>2. ASSUME NEW t \in Fitting, NEW v \in Fitting, cell[t] = cell[v] PROVE t = v
    <3>1. list[t.index + 1] = list[v.index + 1] /\ t.weight = v.weight
      BY <2>2
    <3>2. t.index + 1 = v.index + 1
      BY <1>1, <1>6, <3>1
    <3>3. t.index = v.index
      BY <1>6, <3>2
    <3> QED
      BY <1>6, <3>1, <3>3
  <2> QED
    BY <2>1, <2>2 DEF Injection, IsInjective
<1>8. cell \in Surjection(Fitting, C)
  <2>1. ASSUME NEW c \in C PROVE \E t \in Fitting : cell[t] = c
    <3>1. /\ c[1] \in Known /\ c[2] \in 1..MaxWeight /\ c = <<c[1], c[2]>>
          /\ c[2] <= weight[c[1]]
      BY DEF Cells
    <3>2. PICK i \in 1..Len(list) : list[i] = c[1]
      BY <1>1, <3>1 DEF Known, Range
    <3> DEFINE t == [index |-> i - 1, weight |-> c[2]]
    <3>3. t.index + 1 = i /\ t.weight = c[2] /\ i - 1 \in 0..(Len(list) - 1)
      BY <1>1, <3>2
    <3>4. t \in [index : 0..(Len(list) - 1), weight : 1..MaxWeight]
      BY <3>1, <3>3
    <3>5. Fits(t)
      <4>1. weight[c[1]] \in Nat /\ c[2] \in Nat
        BY <1>1, <1>2, <3>1 DEF TypeOK
      <4> HIDE DEF t
      <4> QED
        BY <3>1, <3>2, <3>3, <4>1 DEF Fits
    <3> HIDE DEF t
    <3>6. t \in Fitting
      BY <3>4, <3>5 DEF Fitting
    <3>7. cell[t] = c
      BY <3>1, <3>2, <3>3, <3>6
    <3> QED
      BY <3>6, <3>7
  <2> QED
    BY <1>7, <2>1 DEF Injection, Surjection
<1> HIDE DEF C, cell
<1>9. IsFiniteSet(Fitting) /\ Cardinality(Fitting) = Cardinality(C)
  BY <1>5, <1>7, <1>8, FS_Injection
<1> QED
  BY <1>4, <1>9

\* Between two calls that end at the same turn the loop stopped at all others.
LEMMA SameTurn ==
  ASSUME TypeOK, NEW T, Traces(T),
         NEW a \in DOMAIN picks, NEW b \in DOMAIN picks, a < b, T[a] = T[b]
  PROVE  Share <= b - a
<1>1. DOMAIN picks = 1..Len(picks) /\ Len(picks) \in Nat /\ T \in [DOMAIN picks -> Fitting]
  BY DEF TypeOK, Traces
<1>2. a \in Nat /\ b \in Nat /\ b - 1 \in Nat /\ a..(b - 1) \subseteq DOMAIN picks
  BY <1>1
<1> DEFINE R == [k \in a..(b - 1) |-> T[k]]
<1>3. ASSUME NEW t \in Fitting PROVE \E k \in a..(b - 1) : T[k] = t
  <2> SUFFICES ASSUME \A k \in a..(b - 1) : T[k] # t PROVE FALSE
    OBVIOUS
  <2>1. \A k \in a..b : T[k] # t
    BY <1>2
  <2>2. Behind(t, T[a]) + (b - a) <= Behind(t, T[b])
    BY <2>1 DEF Traces
  <2>3. Behind(t, T[a]) \in Int
    <3> DEFINE p == Place(t)
               q == Place(T[a])
               C == Len(list) * MaxWeightOf
    <3>1. p \in 0..(C - 1) /\ q \in 0..(C - 1)
      BY <1>1, FittingInPass, PlaceFacts
    <3>2. Len(list) \in Int /\ MaxWeightOf \in Int
      BY MaxWeightFacts DEF TypeOK
    <3>3. C \in Int
      BY <3>2
    <3>4. Behind(t, T[a]) = IF q >= p THEN q - p ELSE q - p + C
      BY DEF Behind
    <3> HIDE DEF p, q, C
    <3> QED
      BY <3>1, <3>3, <3>4
  <2> DEFINE d == Behind(t, T[a])
  <2>4. d \in Int /\ d + (b - a) <= d
    BY <2>2, <2>3
  <2> HIDE DEF d
  <2> QED
    BY <1>2, <2>4
<1>4. R \in Surjection(a..(b - 1), Fitting)
  <2>1. R \in [a..(b - 1) -> Fitting]
    BY <1>1, <1>2
  <2> QED
    BY <1>3, <2>1 DEF Surjection
<1>5. IsFiniteSet(a..(b - 1)) /\ Cardinality(a..(b - 1)) = b - a
  <2> DEFINE c == b - 1
  <2>1. c \in Int /\ a \in Int /\ a <= c /\ c - a + 1 = b - a
    BY <1>2
  <2> HIDE DEF c
  <2>2. IsFiniteSet(a..c) /\ Cardinality(a..c) = IF a > c THEN 0 ELSE c - a + 1
    BY <2>1, FS_Interval
  <2> QED
    BY <2>1, <2>2 DEF c
<1> HIDE DEF R
<1>6. Cardinality(Fitting) <= Cardinality(a..(b - 1))
  BY <1>4, <1>5, FS_Surjection
<1> QED
  BY <1>5, <1>6, FittingSize

\* So as many consecutive calls end at all turns, once each, and each server has
\* as many turns as its weight says.
LEMMA TracesMeanShare ==
  ASSUME TypeOK, NEW T, Traces(T),
         NEW i \in 0..(Len(picks) - Share), NEW s \in Known
  PROVE  Cardinality({k \in (i + 1)..(i + Share) : picks[k] = s}) = weight[s]
<1> DEFINE W == (i + 1)..(i + Share)
           R == [k \in W |-> T[k]]
           P == {k \in W : picks[k] = s}
           level == [k \in P |-> T[k].weight]
<1>1. /\ DOMAIN picks = 1..Len(picks) /\ Len(picks) \in Nat
      /\ DOMAIN list = 1..Len(list) /\ Len(list) \in Nat
      /\ T \in [DOMAIN picks -> Fitting]
      /\ \A k \in DOMAIN picks : picks[k] = list[T[k].index + 1]
  BY DEF TypeOK, Traces
<1>2. Share \in Nat /\ IsFiniteSet(Fitting) /\ Share = Cardinality(Fitting)
  BY FittingSize, FS_CardinalityType
<1>3. i \in Nat /\ W \subseteq DOMAIN picks /\ W \subseteq Int
  BY <1>1, <1>2
<1>4. IsFiniteSet(W) /\ Cardinality(W) = Share
  <2> DEFINE lo == i + 1
             hi == i + Share
  <2>1. lo \in Int /\ hi \in Int /\ (IF lo > hi THEN 0 ELSE hi - lo + 1) = Share
    BY <1>2, <1>3
  <2> HIDE DEF lo, hi
  <2>2. IsFiniteSet(lo..hi) /\ Cardinality(lo..hi) = IF lo > hi THEN 0 ELSE hi - lo + 1
    BY <2>1, FS_Interval
  <2> QED
    BY <2>1, <2>2 DEF lo, hi
<1>5. ASSUME NEW a \in W, NEW b \in W, T[a] = T[b] PROVE a = b
  <2>1. \A x, y \in W : x < y => T[x] # T[y]
    <3> SUFFICES ASSUME NEW x \in W, NEW y \in W, x < y, T[x] = T[y] PROVE FALSE
      OBVIOUS
    <3>1. Share <= y - x
      BY <1>3, SameTurn
    <3>2. y - x < Share
      BY <1>2, <1>3
    <3> QED
      BY <1>2, <1>3, <3>1, <3>2
  <2> QED
    BY <1>3, <1>5, <2>1
<1>6. R \in Injection(W, Fitting)
  <2>1. R \in [W -> Fitting]
    BY <1>1, <1>3
  <2> QED
    BY <1>5, <2>1 DEF Injection, IsInjective
<1>7. R \in Surjection(W, Fitting)
  <2> HIDE DEF R, W
  <2> QED
    BY <1>2, <1>4, <1>6, FS_Injection
<1>8. \A t \in Fitting : \E k \in W : T[k] = t
  BY <1>7 DEF Surjection
<1>9. weight[s] \in 0..MaxWeight /\ MaxWeight \in Nat
  BY RouterAssumption DEF TypeOK, Known, Range
<1>10. PICK p \in 1..Len(list) : list[p] = s
  BY <1>1 DEF Known, Range
<1> HIDE DEF W
<1>11. \A t \in Fitting : /\ t = [index |-> t.index, weight |-> t.weight]
                          /\ t.index \in 0..(Len(list) - 1) /\ t.weight \in 1..MaxWeight
                          /\ weight[list[t.index + 1]] >= t.weight
                          /\ t.index + 1 \in 1..Len(list)
  BY <1>1 DEF Fitting, Fits
<1>12. \A x, y \in 1..Len(list) : list[x] = list[y] => x = y
  BY <1>1 DEF TypeOK, IsInjective
<1>13. \A k \in P : /\ T[k] \in Fitting /\ T[k].index + 1 = p
                    /\ T[k].weight \in 1..weight[s]
  <2> SUFFICES ASSUME NEW k \in P PROVE /\ T[k] \in Fitting /\ T[k].index + 1 = p
                                        /\ T[k].weight \in 1..weight[s]
    OBVIOUS
  <2>1. T[k] \in Fitting /\ list[T[k].index + 1] = s
    BY <1>1, <1>3
  <2> DEFINE t == T[k]
  <2> HIDE DEF t, P
  <2>2. t \in Fitting /\ list[t.index + 1] = s
    BY <2>1 DEF t
  <2>3. t.index + 1 = p /\ t.weight \in 1..weight[s]
    BY <1>9, <1>10, <1>11, <1>12, <2>2
  <2> QED
    BY <2>2, <2>3 DEF t
<1>14. level \in Injection(P, 1..weight[s])
  <2>1. level \in [P -> 1..weight[s]]
    BY <1>13
  <2>2. ASSUME NEW a \in P, NEW b \in P, level[a] = level[b] PROVE a = b
    <3>1. T[a].weight = T[b].weight /\ T[a].index + 1 = T[b].index + 1
      BY <1>13, <2>2
    <3> DEFINE t == T[a]
               v == T[b]
    <3>2. t \in Fitting /\ v \in Fitting
      BY <1>13
    <3> HIDE DEF t, v
    <3>3. t.weight = v.weight /\ t.index + 1 = v.index + 1
      BY <3>1 DEF t, v
    <3>4. t = v
      BY <1>11, <3>2, <3>3
    <3> QED
      BY <1>5, <3>4 DEF t, v
  <2> HIDE DEF level
  <2> QED
    BY <2>1, <2>2 DEF Injection, IsInjective
<1>15. level \in Surjection(P, 1..weight[s])
  <2>1. ASSUME NEW w \in 1..weight[s] PROVE \E k \in P : level[k] = w
    <3> DEFINE t == [index |-> p - 1, weight |-> w]
    <3>1. t.index + 1 = p /\ t.weight = w /\ w \in 1..MaxWeight /\ p - 1 \in 0..(Len(list) - 1)
      BY <1>1, <1>9, <1>10
    <3>2. t \in [index : 0..(Len(list) - 1), weight : 1..MaxWeight]
      BY <3>1
    <3> HIDE DEF t
    <3>3. Fits(t)
      BY <1>9, <1>10, <3>1 DEF Fits
    <3>4. t \in Fitting
      BY <3>2, <3>3 DEF Fitting
    <3>5. PICK k \in W : T[k] = t
      BY <1>8, <3>4
    <3>6. picks[k] = s
      BY <1>1, <1>3, <1>10, <3>1, <3>5
    <3>7. k \in P
      BY <3>6
    <3> QED
      BY <3>1, <3>5, <3>7
  <2>2. level \in [P -> 1..weight[s]]
    BY <1>13
  <2> HIDE DEF level, P
  <2> QED
    BY <2>1, <2>2 DEF Surjection
<1>16. IsFiniteSet(1..weight[s]) /\ Cardinality(1..weight[s]) = weight[s]
  <2> DEFINE v == weight[s]
  <2>1. v \in Nat
    BY <1>9
  <2> HIDE DEF v
  <2>2. IsFiniteSet(1..v) /\ Cardinality(1..v) = IF 1 > v THEN 0 ELSE v - 1 + 1
    BY <2>1, FS_Interval
  <2> QED
    BY <2>1, <2>2 DEF v
<1> HIDE DEF P, level
<1>17. Cardinality(P) = Cardinality(1..weight[s])
  BY <1>14, <1>15, <1>16, FS_Injection
<1> QED
  BY <1>16, <1>17 DEF P, W

\* Weighted round robin: of as many consecutive calls as the weights add up to,
\* each server gets as many as its weight, for any weights and any number of
\* servers, whatever index and weight the router remembers from before a change.
THEOREM WeightsRespected == RoutingSpec => []WeightedShare
<1>1. RoutingInit => Proportional
  <2>1. RoutingInit => Traces(<<>>)
    BY DEF RoutingInit, Init, Traces
  <2> QED
    BY <2>1 DEF RoutingInit, Init, Proportional
<1>2. ASSUME Types, Proportional, [RoutingNext]_routingVars PROVE Proportional'
  BY <1>2, StepsOfRouters, ProportionalStep DEF Types
<1>3. Types /\ Proportional => WeightedShare
  BY TracesMeanShare DEF Types, Proportional, WeightedShare
<1> QED
  BY <1>1, <1>2, <1>3, TypesAlways, PTL DEF RoutingSpec

-----------------------------------------------------------------------------
(* Sorting. *)

\* The ranks of the arguments of a function on finitely many numbers are the
\* numbers up to how many there are, each once, and follow its values.
LEMMA RankFacts ==
  ASSUME NEW f, IsFiniteSet(DOMAIN f), DOMAIN f \subseteq Int,
         \A i \in DOMAIN f : f[i] \in Int
  PROVE  /\ Cardinality(DOMAIN f) \in Nat
         /\ \A i \in DOMAIN f : H!Rank(f, i) \in 1..Cardinality(DOMAIN f)
         /\ \A i, j \in DOMAIN f : H!Rank(f, i) <= H!Rank(f, j) => f[i] <= f[j]
         /\ \A i, j \in DOMAIN f : H!Rank(f, i) = H!Rank(f, j) => i = j
         /\ \A n \in 1..Cardinality(DOMAIN f) : \E i \in DOMAIN f : H!Rank(f, i) = n
<1> DEFINE D == DOMAIN f
           UpTo(i) == {j \in D : f[j] < f[i] \/ (f[j] = f[i] /\ j <= i)}
           rank(i) == Cardinality(UpTo(i))
<1>1. Cardinality(D) \in Nat
  BY FS_CardinalityType
<1>2. ASSUME NEW i \in D
      PROVE  /\ H!Rank(f, i) = rank(i) /\ IsFiniteSet(UpTo(i))
             /\ UpTo(i) \subseteq D /\ i \in UpTo(i)
  <2>1. H!Rank(f, i) = rank(i)
    BY DEF H!Rank, H!Cardinality, Cardinality
  <2>2. UpTo(i) \subseteq D /\ i \in UpTo(i)
    OBVIOUS
  <2>3. IsFiniteSet(UpTo(i))
    BY <2>2, FS_Subset
  <2> QED
    BY <2>1, <2>2, <2>3
<1>3. ASSUME NEW i \in D, NEW j \in D, f[i] < f[j] \/ (f[i] = f[j] /\ i < j)
      PROVE  rank(i) < rank(j)
  <2>1. f[i] \in Int /\ f[j] \in Int /\ i \in Int /\ j \in Int
    OBVIOUS
  <2>2. UpTo(i) \subseteq UpTo(j)
    BY <1>3, <2>1
  <2>3. j \in UpTo(j) /\ j \notin UpTo(i)
    BY <1>3, <2>1
  <2> HIDE DEF UpTo
  <2>4. /\ Cardinality(UpTo(i)) <= Cardinality(UpTo(j))
        /\ Cardinality(UpTo(j)) = Cardinality(UpTo(i)) => UpTo(j) = UpTo(i)
    BY <1>2, <2>2, FS_Subset
  <2>5. Cardinality(UpTo(i)) \in Nat /\ Cardinality(UpTo(j)) \in Nat
    BY <1>2, FS_CardinalityType
  <2> QED
    BY <2>3, <2>4, <2>5
<1>4. ASSUME NEW i \in D PROVE rank(i) \in 1..Cardinality(D)
  <2> HIDE DEF UpTo
  <2>1. rank(i) \in Nat /\ rank(i) <= Cardinality(D)
    BY <1>2, FS_Subset, FS_CardinalityType
  <2>2. rank(i) # 0
    BY <1>2, FS_EmptySet
  <2> QED
    BY <1>1, <2>1, <2>2
<1>5. \A i, j \in D : (rank(i) <= rank(j) => f[i] <= f[j]) /\ (rank(i) = rank(j) => i = j)
  <2> SUFFICES ASSUME NEW i \in D, NEW j \in D
               PROVE  (rank(i) <= rank(j) => f[i] <= f[j]) /\ (rank(i) = rank(j) => i = j)
    OBVIOUS
  <2>1. f[i] \in Int /\ f[j] \in Int /\ i \in Int /\ j \in Int
    OBVIOUS
  <2>2. rank(i) \in Int /\ rank(j) \in Int
    BY <1>1, <1>4
  <2>3. (f[j] < f[i] => rank(j) < rank(i)) /\ (f[i] < f[j] => rank(i) < rank(j))
    BY <1>3
  <2>4. f[i] = f[j] /\ i # j => rank(i) < rank(j) \/ rank(j) < rank(i)
    BY <1>3, <2>1
  <2> HIDE DEF rank
  <2> QED
    BY <2>1, <2>2, <2>3, <2>4
<1>6. \A n \in 1..Cardinality(D) : \E i \in D : rank(i) = n
  <2> DEFINE g == [i \in D |-> rank(i)]
             N == 1..Cardinality(D)
  <2> HIDE DEF UpTo
  <2>1. g \in Injection(D, N)
    <3>1. g \in [D -> N]
      BY <1>4
    <3>2. \A i, j \in D : g[i] = g[j] => i = j
      BY <1>5
    <3> QED
      BY <3>1, <3>2 DEF Injection, IsInjective
  <2>2. IsFiniteSet(N) /\ Cardinality(N) = Cardinality(D)
    BY <1>1, FS_Interval
  <2>3. g \in Surjection(D, N)
    BY <2>1, <2>2, FS_Injection
  <2> QED
    BY <2>3 DEF Surjection
<1> HIDE DEF rank
<1> QED
  BY <1>1, <1>2, <1>4, <1>5, <1>6

\* Sorted puts the values of a function in ascending order, and adds and loses
\* none.
LEMMA SortedFacts ==
  ASSUME NEW f, IsFiniteSet(DOMAIN f), DOMAIN f \subseteq Int,
         \A i \in DOMAIN f : f[i] \in Int
  PROVE  /\ H!Sorted(f) \in Seq(Range(f))
         /\ Range(H!Sorted(f)) = Range(f)
         /\ \A n, m \in DOMAIN H!Sorted(f) : n <= m => H!Sorted(f)[n] <= H!Sorted(f)[m]
<1> DEFINE D == DOMAIN f
           N == 1..Cardinality(D)
           rank == [i \in D |-> H!Rank(f, i)]
           at(n) == CHOOSE i \in D : rank[i] = n
           q == H!Sorted(f)
<1>1. q = [n \in N |-> f[at(n)]]
  BY DEF H!Sorted, H!Cardinality, Cardinality
<1>2. ASSUME NEW n \in N PROVE at(n) \in D /\ H!Rank(f, at(n)) = n
  <2>1. \E i \in D : rank[i] = n
    BY RankFacts
  <2>2. at(n) \in D /\ rank[at(n)] = n
    BY <2>1
  <2> QED
    BY <2>2
<1> HIDE DEF q, at
<1>3. DOMAIN q = N /\ \A n \in N : q[n] = f[at(n)]
  BY <1>1
<1>4. Range(q) \subseteq Range(f)
  BY <1>2, <1>3 DEF Range
<1>5. Range(f) \subseteq Range(q)
  <2> SUFFICES ASSUME NEW i \in D PROVE f[i] \in Range(q)
    BY DEF Range
  <2>1. H!Rank(f, i) \in N
    BY RankFacts
  <2>2. at(H!Rank(f, i)) = i
    BY <1>2, <2>1, RankFacts
  <2> QED
    BY <1>3, <2>1, <2>2 DEF Range
<1>6. q \in Seq(Range(f))
  <2>1. q \in [N -> Range(f)] /\ Cardinality(D) \in Nat
    BY <1>1, <1>3, <1>4, RankFacts DEF Range
  <2> QED
    BY <2>1
<1>7. \A n, m \in N : n <= m => q[n] <= q[m]
  BY <1>2, <1>3, RankFacts
<1> QED
  BY <1>3, <1>4, <1>5, <1>6, <1>7 DEF q

-----------------------------------------------------------------------------
(* The binary search. *)

\* One step of the search for h in the first n of the keys q: the position
\* where it ends, or that of the search g that it goes on with.
Bounds(n) == (0..n) \X (-1..(n - 1))
SearchStep(q, n, h, g, bounds) ==
  LET lower == bounds[1]
      upper == bounds[2]
      idx == (lower + upper) \div 2
  IN IF lower > upper THEN IF upper < 0 THEN n - 1 ELSE upper
     ELSE IF q[idx + 1] = h THEN idx
     ELSE g[IF q[idx + 1] > h THEN <<lower, idx - 1>> ELSE <<idx + 1, upper>>]
IsSearch(q, n, h, g) == g = [bounds \in Bounds(n) |-> SearchStep(q, n, h, g, bounds)]

\* Where the search goes on, fewer keys are left.
Left(bounds) == (bounds[2] - bounds[1]) + 1
Onward(q, h, bounds) ==
  LET idx == (bounds[1] + bounds[2]) \div 2
  IN IF q[idx + 1] > h THEN <<bounds[1], idx - 1>> ELSE <<idx + 1, bounds[2]>>

LEMMA Middle ==
  ASSUME NEW lower \in Int, NEW upper \in Int, lower <= upper
  PROVE  (lower + upper) \div 2 \in lower..upper
<1> DEFINE s == lower + upper
           m == s \div 2
           r == s % 2
<1>1. s = (2 * m) + r /\ m \in Int /\ r \in 0..1
  OBVIOUS
<1>2. s = lower + upper /\ s \in Int
  OBVIOUS
<1> HIDE DEF m, r, s
<1>3. m \in lower..upper
  BY <1>1, <1>2
<1> QED
  BY <1>3 DEF m, s

LEMMA OnwardFacts ==
  ASSUME NEW q, NEW n \in Nat, NEW h, NEW b \in Bounds(n), ~(b[1] > b[2])
  PROVE  /\ (b[1] + b[2]) \div 2 \in b[1]..b[2]
         /\ Onward(q, h, b) \in Bounds(n)
         /\ Left(Onward(q, h, b)) \in Int /\ Left(b) \in Int
         /\ Left(Onward(q, h, b)) < Left(b)
         /\ \A g : SearchStep(q, n, h, g, b) =
                     IF q[((b[1] + b[2]) \div 2) + 1] = h THEN (b[1] + b[2]) \div 2
                     ELSE g[Onward(q, h, b)]
<1>1. PICK lower \in 0..n, upper \in -1..(n - 1) : b = <<lower, upper>>
  BY DEF Bounds
<1> DEFINE idx == (lower + upper) \div 2
<1>2. lower <= upper /\ lower \in Int /\ upper \in Int /\ b[1] = lower /\ b[2] = upper
  BY <1>1
<1>3. idx \in lower..upper
  BY <1>2, Middle
<1>4. Onward(q, h, b) = <<lower, idx - 1>> \/ Onward(q, h, b) = <<idx + 1, upper>>
  BY <1>2 DEF Onward
<1>5. \A g : SearchStep(q, n, h, g, b) = IF q[idx + 1] = h THEN idx ELSE g[Onward(q, h, b)]
  BY <1>2 DEF SearchStep, Onward
<1> HIDE DEF idx
<1>6. /\ <<lower, idx - 1>> \in Bounds(n) /\ <<idx + 1, upper>> \in Bounds(n)
  BY <1>1, <1>2, <1>3 DEF Bounds
<1>7. /\ Left(<<lower, idx - 1>>) \in Int /\ Left(<<lower, idx - 1>>) < Left(b)
      /\ Left(<<idx + 1, upper>>) \in Int /\ Left(<<idx + 1, upper>>) < Left(b)
      /\ Left(b) \in Int
  BY <1>1, <1>2, <1>3 DEF Left
<1> QED
  BY <1>2, <1>3, <1>4, <1>5, <1>6, <1>7 DEF idx

\* The search is well defined.
LEMMA SearchExists ==
  ASSUME NEW q, NEW n \in Nat, NEW h
  PROVE  \E g : IsSearch(q, n, h, g)
<1> DEFINE B == Bounds(n)
           Solves(g, m) == \A b \in B : Left(b) <= m => g[b] = SearchStep(q, n, h, g, b)
           T == {m \in Nat : \E g \in [B -> Int] : Solves(g, m)}
<1>1. ASSUME NEW b \in B PROVE Left(b) \in Int /\ Left(b) <= n /\ b[1] \in Int /\ b[2] \in -1..(n - 1)
  BY DEF Bounds, Left
<1>2. 0 \in T
  <2> DEFINE g == [b \in B |-> IF b[2] < 0 THEN n - 1 ELSE b[2]]
  <2>1. g \in [B -> Int]
    BY <1>1
  <2>2. ASSUME NEW b \in B, Left(b) <= 0 PROVE g[b] = SearchStep(q, n, h, g, b)
    <3>1. b[1] > b[2]
      BY <1>1, <2>2 DEF Left
    <3> QED
      BY <3>1 DEF SearchStep
  <2> QED
    BY <2>1, <2>2
<1>3. ASSUME NEW m \in T PROVE m + 1 \in T
  <2>1. PICK g \in [B -> Int] : Solves(g, m)
    BY <1>3
  <2> DEFINE k == [b \in B |-> IF Left(b) <= m THEN g[b] ELSE SearchStep(q, n, h, g, b)]
  <2>2. ASSUME NEW b \in B PROVE SearchStep(q, n, h, g, b) \in Int
    <3>1. CASE b[1] > b[2]
      BY <1>1, <3>1 DEF SearchStep
    <3>2. CASE ~(b[1] > b[2])
      <4>1. (b[1] + b[2]) \div 2 \in Int
        BY <1>1
      <4>2. g[Onward(q, h, b)] \in Int
        BY <3>2, OnwardFacts
      <4>3. SearchStep(q, n, h, g, b) = IF q[((b[1] + b[2]) \div 2) + 1] = h
                                        THEN (b[1] + b[2]) \div 2 ELSE g[Onward(q, h, b)]
        BY <3>2, OnwardFacts
      <4> QED
        BY <4>1, <4>2, <4>3
    <3> QED
      BY <3>1, <3>2
  <2>3. k \in [B -> Int]
    BY <2>2
  <2>4. ASSUME NEW b \in B, Left(b) <= m + 1
        PROVE  k[b] = SearchStep(q, n, h, k, b)
    <3>1. k[b] = SearchStep(q, n, h, g, b)
      BY <2>1
    <3>2. SearchStep(q, n, h, g, b) = SearchStep(q, n, h, k, b)
      <4>1. CASE b[1] > b[2]
        BY <4>1 DEF SearchStep
      <4>2. CASE ~(b[1] > b[2])
        <5>1. Onward(q, h, b) \in B /\ Left(Onward(q, h, b)) \in Int /\ Left(Onward(q, h, b)) < Left(b)
          BY <4>2, OnwardFacts
        <5>2. Left(Onward(q, h, b)) <= m
          BY <1>1, <2>4, <5>1
        <5>3. k[Onward(q, h, b)] = g[Onward(q, h, b)]
          BY <5>1, <5>2
        <5>4. \A f : SearchStep(q, n, h, f, b) =
                       IF q[((b[1] + b[2]) \div 2) + 1] = h THEN (b[1] + b[2]) \div 2
                       ELSE f[Onward(q, h, b)]
          BY <4>2, OnwardFacts
        <5> HIDE DEF k
        <5> QED
          BY <5>3, <5>4
      <4> QED
        BY <4>1, <4>2
    <3> QED
      BY <3>1, <3>2
  <2> HIDE DEF k
  <2>5. Solves(k, m + 1)
    BY <2>4
  <2> QED
    BY <2>3, <2>5
<1>4. T \in SUBSET Nat
  OBVIOUS
<1>5. n \in T
  <2> HIDE DEF T
  <2>1. \A m \in Nat : m \in T
    BY <1>2, <1>3, <1>4, Induct
  <2> QED
    BY <2>1
<1>6. PICK g \in [B -> Int] : Solves(g, n)
  BY <1>5
<1>7. \A b \in B : g[b] = SearchStep(q, n, h, g, b)
  BY <1>1, <1>6
<1>8. g = [b \in B |-> SearchStep(q, n, h, g, b)]
  <2> DEFINE e == [b \in B |-> SearchStep(q, n, h, g, b)]
  <2>1. \A b \in B : g[b] = e[b]
    BY <1>7
  <2>2. g = [b \in B |-> g[b]] /\ e = [b \in B |-> e[b]]
    OBVIOUS
  <2> HIDE DEF e
  <2>3. g = e
    BY <2>1, <2>2
  <2> QED
    BY <2>3 DEF e
<1> QED
  BY <1>8 DEF IsSearch

\* It ends at a position that q has among its first n.
LEMMA SearchInside ==
  ASSUME NEW q, NEW n \in Nat \ {0}, NEW h, NEW g, IsSearch(q, n, h, g)
  PROVE  \A b \in Bounds(n) : g[b] \in 0..(n - 1)
<1> DEFINE T == {m \in Nat : \A b \in Bounds(n) : Left(b) <= m => g[b] \in 0..(n - 1)}
<1>1. \A b \in Bounds(n) : g[b] = SearchStep(q, n, h, g, b)
  BY DEF IsSearch
<1>2. ASSUME NEW b \in Bounds(n), b[1] > b[2] PROVE g[b] \in 0..(n - 1)
  <2>1. b[2] \in -1..(n - 1)
    BY DEF Bounds
  <2>2. g[b] = IF b[2] < 0 THEN n - 1 ELSE b[2]
    BY <1>1, <1>2 DEF SearchStep
  <2> QED
    BY <2>1, <2>2
<1>3. 0 \in T
  <2>1. \A b \in Bounds(n) : Left(b) <= 0 => b[1] > b[2]
    BY DEF Left, Bounds
  <2> QED
    BY <1>2, <2>1
<1>4. ASSUME NEW m \in T PROVE m + 1 \in T
  <2> SUFFICES ASSUME NEW b \in Bounds(n), Left(b) <= m + 1, ~(b[1] > b[2])
               PROVE  g[b] \in 0..(n - 1)
    BY <1>2
  <2>1. (b[1] + b[2]) \div 2 \in 0..(n - 1)
    <3>1. b[1] \in 0..n /\ b[2] \in -1..(n - 1)
      BY DEF Bounds
    <3>2. (b[1] + b[2]) \div 2 \in b[1]..b[2]
      BY OnwardFacts
    <3> QED
      BY <3>1, <3>2
  <2>2. g[Onward(q, h, b)] \in 0..(n - 1)
    <3>1. Onward(q, h, b) \in Bounds(n) /\ Left(Onward(q, h, b)) <= m
      BY OnwardFacts
    <3> QED
      BY <3>1
  <2> QED
    BY <1>1, <2>1, <2>2, OnwardFacts
<1>5. T \in SUBSET Nat
  OBVIOUS
<1>6. n \in T
  <2> HIDE DEF T
  <2>1. \A m \in Nat : m \in T
    BY <1>3, <1>4, <1>5, Induct
  <2> QED
    BY <2>1
<1>7. \A b \in Bounds(n) : Left(b) <= n
  BY DEF Bounds, Left
<1> QED
  BY <1>6, <1>7

\* Position p of n keys that ascend is that of the last one that is not above h,
\* or the last of all if there is none.
LastNotAbove(q, n, h, p) ==
  /\ p \in 1..n
  /\ \A i \in 1..n : i > p => q[i] > h
  /\ q[p] > h => p = n /\ \A i \in 1..n : q[i] > h

\* In keys that ascend the search ends there.
LEMMA SearchFinds ==
  ASSUME NEW q \in Seq(Int), NEW n \in Nat \ {0}, n = Len(q), NEW h \in Int,
         \A i, j \in 1..n : i < j => q[i] < q[j],
         NEW g, IsSearch(q, n, h, g)
  PROVE  LastNotAbove(q, n, h, g[<<0, n - 1>>] + 1)
<1> DEFINE Found(p) == /\ p \in 1..n
                       /\ \A i \in 1..n : i > p => q[i] > h
                       /\ q[p] > h => p = n /\ \A i \in 1..n : q[i] > h
           Around(b) == /\ b[1] <= b[2] + 1
                        /\ \A i \in 1..n : i <= b[1] => q[i] < h
                        /\ \A i \in 1..n : i > b[2] + 1 => q[i] > h
           T == {m \in Nat : \A b \in Bounds(n) : Left(b) <= m /\ Around(b) => Found(g[b] + 1)}
<1>1. \A b \in Bounds(n) : g[b] = SearchStep(q, n, h, g, b)
  BY DEF IsSearch
<1>2. \A i \in 1..n : q[i] \in Int
  OBVIOUS
<1>3. ASSUME NEW b \in Bounds(n), b[1] > b[2], Around(b) PROVE Found(g[b] + 1)
  <2>1. b[2] \in -1..(n - 1) /\ b[1] \in 0..n
    BY DEF Bounds
  <2>2. g[b] = IF b[2] < 0 THEN n - 1 ELSE b[2]
    BY <1>1, <1>3 DEF SearchStep
  <2>3. b[1] = b[2] + 1
    BY <1>3, <2>1
  <2>4. CASE b[2] < 0
    <3>1. g[b] + 1 = n
      BY <2>2, <2>4
    <3>2. \A i \in 1..n : q[i] > h
      BY <1>3, <2>1, <2>4
    <3> QED
      BY <3>1, <3>2
  <2>5. CASE ~(b[2] < 0)
    <3>1. g[b] + 1 = b[1] /\ b[1] \in 1..n
      BY <2>1, <2>2, <2>3, <2>5
    <3>2. q[b[1]] < h
      BY <1>3, <3>1
    <3>3. ~(q[b[1]] > h)
      BY <1>2, <3>1, <3>2
    <3> QED
      BY <1>3, <2>3, <3>1, <3>3
  <2> QED
    BY <2>4, <2>5
<1>4. 0 \in T
  <2>1. \A b \in Bounds(n) : Left(b) <= 0 => b[1] > b[2]
    BY DEF Left, Bounds
  <2> QED
    BY <1>3, <2>1
<1>5. ASSUME NEW m \in T PROVE m + 1 \in T
  <2> SUFFICES ASSUME NEW b \in Bounds(n), Left(b) <= m + 1, ~(b[1] > b[2]), Around(b)
               PROVE  Found(g[b] + 1)
    BY <1>3
  <2> DEFINE idx == (b[1] + b[2]) \div 2
  <2>1. idx \in b[1]..b[2] /\ b[1] \in 0..n /\ b[2] \in -1..(n - 1)
    BY OnwardFacts DEF Bounds
  <2>2. g[b] = IF q[idx + 1] = h THEN idx ELSE g[Onward(q, h, b)]
    <3>1. g[b] = SearchStep(q, n, h, g, b)
      BY <1>1
    <3>2. \A f : SearchStep(q, n, h, f, b) =
                   IF q[((b[1] + b[2]) \div 2) + 1] = h THEN (b[1] + b[2]) \div 2
                   ELSE f[Onward(q, h, b)]
      BY OnwardFacts
    <3> QED
      BY <3>1, <3>2
  <2>3. Onward(q, h, b) = IF q[idx + 1] > h THEN <<b[1], idx - 1>> ELSE <<idx + 1, b[2]>>
    BY DEF Onward
  <2> HIDE DEF idx
  <2>4. idx + 1 \in 1..n /\ idx \in Int /\ q[idx + 1] \in Int
    <3>1. \A low \in 0..n, high \in -1..(n - 1) : \A i \in low..high :
            i + 1 \in 1..n /\ i \in Int
      OBVIOUS
    <3>2. idx + 1 \in 1..n /\ idx \in Int
      BY <2>1, <3>1
    <3> QED
      BY <1>2, <3>2
  <2>5. CASE q[idx + 1] = h
    <3>1. g[b] + 1 = idx + 1
      BY <2>2, <2>5
    <3>2. \A i \in 1..n : i > idx + 1 => q[i] > h
      BY <2>4, <2>5
    <3>3. ~(q[idx + 1] > h)
      BY <2>4, <2>5
    <3> QED
      BY <2>4, <3>1, <3>2, <3>3
  <2>6. CASE q[idx + 1] # h
    <3> DEFINE c == Onward(q, h, b)
    <3>1. c \in Bounds(n) /\ Left(c) <= m
      BY OnwardFacts
    <3>2. Around(c)
      <4>1. CASE q[idx + 1] > h
        <5>1. c[1] = b[1] /\ c[2] = idx - 1
          BY <2>3, <4>1
        <5> HIDE DEF c
        <5>2. \A i \in 1..n : i >= idx + 1 => q[i] > h
          BY <1>2, <2>4, <4>1
        <5>3. c[1] <= c[2] + 1
          BY <2>1, <2>4, <5>1
        <5>4. \A i \in 1..n : i > c[2] + 1 => q[i] > h
          BY <2>4, <5>1, <5>2
        <5> QED
          BY <5>1, <5>3, <5>4
      <4>2. CASE q[idx + 1] < h
        <5>1. c[1] = idx + 1 /\ c[2] = b[2]
          BY <2>3, <2>4, <4>2
        <5> HIDE DEF c
        <5>2. \A i \in 1..n : i <= idx + 1 => q[i] < h
          BY <1>2, <2>4, <4>2
        <5> QED
          BY <2>1, <2>4, <5>1, <5>2
      <4> QED
        BY <2>4, <2>6, <4>1, <4>2
    <3> HIDE DEF Around, Found
    <3>3. Found(g[c] + 1)
      BY <3>1, <3>2
    <3> QED
      BY <2>2, <2>6, <3>3
  <2> QED
    BY <2>5, <2>6
<1>6. T \in SUBSET Nat
  OBVIOUS
<1>7. n \in T
  <2> HIDE DEF T
  <2>1. \A m \in Nat : m \in T
    BY <1>4, <1>5, <1>6, Induct
  <2> QED
    BY <2>1
<1>8. <<0, n - 1>> \in Bounds(n) /\ Left(<<0, n - 1>>) <= n /\ Around(<<0, n - 1>>)
  BY DEF Bounds, Left
<1>9. Found(g[<<0, n - 1>>] + 1)
  <2> HIDE DEF Found, Around
  <2> QED
    BY <1>7, <1>8
<1> QED
  BY <1>9 DEF LastNotAbove

-----------------------------------------------------------------------------
(* The ring. *)

\* The hashes of a set of servers.
Points(S) == UNION {H!PointsOf(s) : s \in S}

LEMMA PointsFacts ==
  ASSUME place \in Hashes
  PROVE  /\ \A s \in Servers \cup Others : H!PointsOf(s) \subseteq Nat /\ H!PointsOf(s) # {}
         /\ \A s, t \in Servers \cup Others :
              s # t => H!PointsOf(s) \cap H!PointsOf(t) = {}
<1> DEFINE Ids == Servers \cup Others
<1>1. place \in [Ids \X (1..Replicas) -> Nat] /\ IsInjective(place)
  BY RingAssumption
<1>2. Replicas \in Nat \ {0}
  BY RingAssumption
<1>3. ASSUME NEW s \in Ids PROVE H!PointsOf(s) \subseteq Nat /\ H!PointsOf(s) # {}
  <2>1. \A i \in 1..Replicas : place[<<s, i>>] \in Nat
    BY <1>1
  <2>2. 1 \in 1..Replicas
    BY <1>2
  <2> QED
    BY <2>1, <2>2 DEF H!PointsOf
<1>4. ASSUME NEW s \in Ids, NEW t \in Ids, s # t PROVE H!PointsOf(s) \cap H!PointsOf(t) = {}
  <2>1. ASSUME NEW i \in 1..Replicas, NEW j \in 1..Replicas PROVE place[<<s, i>>] # place[<<t, j>>]
    <3>1. <<s, i>> \in DOMAIN place /\ <<t, j>> \in DOMAIN place /\ <<s, i>> # <<t, j>>
      BY <1>1, <1>4
    <3> QED
      BY <1>1, <3>1 DEF IsInjective
  <2> QED
    BY <2>1 DEF H!PointsOf
<1> QED
  BY <1>3, <1>4

LEMMA PointsFinite ==
  ASSUME NEW S, IsFiniteSet(S)
  PROVE  IsFiniteSet(Points(S))
<1> DEFINE D == S \X (1..Replicas)
           f == [x \in D |-> place[x]]
<1>1. IsFiniteSet(D)
  <2>1. IsFiniteSet(1..Replicas)
    BY FS_Interval, RingAssumption
  <2> QED
    BY <2>1, FS_Product
<1>2. f \in Surjection(D, Points(S))
  <2>1. f \in [D -> Points(S)]
    <3>1. ASSUME NEW x \in D PROVE place[x] \in Points(S)
      <4>1. PICK s \in S, i \in 1..Replicas : x = <<s, i>>
        OBVIOUS
      <4>2. place[x] \in H!PointsOf(s)
        BY <4>1 DEF H!PointsOf
      <4> QED
        BY <4>2 DEF Points
    <3> QED
      BY <3>1
  <2>2. ASSUME NEW k \in Points(S) PROVE \E x \in D : f[x] = k
    <3>1. PICK s \in S : k \in H!PointsOf(s)
      BY DEF Points
    <3>2. PICK i \in 1..Replicas : k = place[<<s, i>>]
      BY <3>1 DEF H!PointsOf
    <3>3. <<s, i>> \in D
      OBVIOUS
    <3> QED
      BY <3>2, <3>3
  <2> QED
    BY <2>1, <2>2 DEF Surjection
<1> QED
  BY <1>1, <1>2, FS_Surjection

\* The members of a finite set, in some order.
LEMMA SetToSeqFacts ==
  ASSUME NEW S, IsFiniteSet(S)
  PROVE  H!SetToSeq(S) \in Seq(S) /\ Range(H!SetToSeq(S)) = S
<1> DEFINE N == 1..Cardinality(S)
           q == CHOOSE f \in [N -> S] : IsInjective(f)
<1>1. H!SetToSeq(S) = q
  BY DEF H!SetToSeq, H!Cardinality, Cardinality, H!IsInjective, IsInjective
<1>2. Cardinality(S) \in Nat /\ \E f \in [N -> S] : IsInjective(f)
  BY FS_CardinalityType DEF ExistsBijection, Bijection, Injection
<1>3. q \in [N -> S] /\ IsInjective(q)
  BY <1>2
<1> HIDE DEF q
<1>4. q \in Injection(N, S) /\ IsFiniteSet(N) /\ Cardinality(N) = Cardinality(S)
  BY <1>2, <1>3, FS_Interval DEF Injection
<1>5. q \in Surjection(N, S)
  BY <1>4, FS_Injection
<1>6. Range(q) = S
  BY <1>3, <1>5 DEF Surjection, Range
<1> QED
  BY <1>1, <1>2, <1>3, <1>6

-----------------------------------------------------------------------------
\* The keys are the hashes on the ring, which belong to the server they are
\* mapped to.  The ring is empty until it is created; from then on it holds the
\* hashes of the list, as long as it is told of every change and of no server
\* of another type.
RingAgrees ==
  /\ H!TypeOK
  /\ Range(keys) = DOMAIN ring
  /\ \A k \in DOMAIN ring : k \in H!PointsOf(ring[k])
  /\ ~created => DOMAIN ring = {}
  /\ created /\ ~strayed => DOMAIN ring = Points(Known)

LEMMA RingInit == ASSUME RoutingInit PROVE RingAgrees
<1>1. Init /\ H!Init
  BY DEF RoutingInit
<1>2. keys = <<>> /\ ring = <<>> /\ created = FALSE /\ place \in Hashes /\ others = {} /\ Known = {}
  BY <1>1, Zenon DEF H!Init
<1>3. DOMAIN ring = {} /\ DOMAIN keys = {} /\ ring \in [{} -> Servers \cup Others] /\ keys \in Seq({})
  BY <1>2
<1>4. H!TypeOK
  BY <1>2, <1>3 DEF H!TypeOK, H!Ids
<1> QED
  BY <1>2, <1>3, <1>4 DEF RingAgrees, Range

\* Adding the hashes of some servers.
LEMMA AddNodesFacts ==
  ASSUME RingAgrees, NEW S \in SUBSET (Servers \cup Others), IsFiniteSet(S), H!AddNodes(S)
  PROVE  /\ keys' \in Seq(DOMAIN ring') /\ ring' \in [DOMAIN ring' -> Servers \cup Others]
         /\ \A i, j \in DOMAIN keys' : i <= j => keys'[i] <= keys'[j]
         /\ Range(keys') = DOMAIN ring'
         /\ DOMAIN ring' = DOMAIN ring \cup Points(S)
         /\ \A k \in DOMAIN ring' : k \in H!PointsOf(ring'[k])
<1> DEFINE new == Points(S)
           f == keys \o H!SetToSeq(new)
           D == DOMAIN ring \cup new
<1>1. /\ keys' = H!Sorted(f)
      /\ ring' = [k \in D |-> IF k \in new THEN CHOOSE s \in S : k \in H!PointsOf(s) ELSE ring[k]]
  BY DEF H!AddNodes, Points
<1>2. place \in Hashes /\ keys \in Seq(DOMAIN ring) /\ ring \in [DOMAIN ring -> Servers \cup Others]
  BY DEF RingAgrees, H!TypeOK, H!Ids
<1>3. IsFiniteSet(new) /\ new \subseteq Nat
  BY <1>2, PointsFacts, PointsFinite DEF Points
<1>4. DOMAIN ring \subseteq Nat
  BY <1>2, PointsFacts DEF RingAgrees
<1>5. H!SetToSeq(new) \in Seq(new) /\ Range(H!SetToSeq(new)) = new
  BY <1>3, SetToSeqFacts
<1>6. f \in Seq(D) /\ Range(f) = D
  <2> DEFINE e == H!SetToSeq(new)
  <2>1. e \in Seq(new) /\ Range(e) = new /\ Range(keys) = DOMAIN ring
    BY <1>5 DEF RingAgrees
  <2> HIDE DEF e, new
  <2>2. keys \in Seq(D) /\ e \in Seq(D)
    BY <1>2, <2>1
  <2>3. Range(keys \o e) = Range(keys) \cup Range(e)
    BY <2>2, RangeConcatenation
  <2> QED
    BY <2>1, <2>2, <2>3 DEF e
<1> HIDE DEF f, new
<1>7. /\ IsFiniteSet(DOMAIN f) /\ DOMAIN f \subseteq Int /\ \A i \in DOMAIN f : f[i] \in Int
  <2>1. DOMAIN f = 1..Len(f) /\ Len(f) \in Nat /\ \A i \in DOMAIN f : f[i] \in D
    BY <1>6
  <2>2. IsFiniteSet(1..Len(f))
    BY <2>1, FS_Interval
  <2>3. \A k \in D : k \in Int
    <3>1. (\A k \in new : k \in Nat) /\ \A k \in DOMAIN ring : k \in Nat
      BY <1>3, <1>4
    <3> QED
      BY <3>1
  <2>4. IsFiniteSet(DOMAIN f)
    BY <2>1, <2>2
  <2>5. DOMAIN f \subseteq Int
    BY <2>1
  <2> HIDE DEF D
  <2> QED
    BY <2>1, <2>3, <2>4, <2>5
<1>8. DOMAIN ring' = D
  BY <1>1
<1>9. /\ keys' \in Seq(DOMAIN ring') /\ Range(keys') = DOMAIN ring'
      /\ \A i, j \in DOMAIN keys' : i <= j => keys'[i] <= keys'[j]
  BY <1>1, <1>6, <1>7, <1>8, SortedFacts
<1>10. ASSUME NEW k \in D PROVE ring'[k] \in Servers \cup Others /\ k \in H!PointsOf(ring'[k])
  <2>1. CASE k \in new
    <3>1. \E s \in S : k \in H!PointsOf(s)
      BY <2>1 DEF new, Points
    <3>2. ring'[k] = CHOOSE s \in S : k \in H!PointsOf(s)
      BY <1>1, <2>1
    <3> QED
      BY <3>1, <3>2
  <2>2. CASE k \notin new
    <3>1. ring'[k] = ring[k] /\ k \in DOMAIN ring
      BY <1>1, <2>2
    <3> QED
      BY <1>2, <3>1 DEF RingAgrees
  <2> QED
    BY <2>1, <2>2
<1> QED
  BY <1>1, <1>8, <1>9, <1>10 DEF new

\* Removing those of one.
LEMMA RemoveNodeFacts ==
  ASSUME RingAgrees, NEW s \in Servers \cup Others, H!RemoveNode(s)
  PROVE  /\ keys' \in Seq(DOMAIN ring') /\ ring' \in [DOMAIN ring' -> Servers \cup Others]
         /\ \A i, j \in DOMAIN keys' : i <= j => keys'[i] <= keys'[j]
         /\ Range(keys') = DOMAIN ring'
         /\ DOMAIN ring' = DOMAIN ring \ H!PointsOf(s)
         /\ \A k \in DOMAIN ring' : k \in H!PointsOf(ring'[k])
<1> DEFINE P == H!PointsOf(s)
           I == {i \in DOMAIN keys : keys[i] \notin P}
           f == [i \in I |-> keys[i]]
           D == DOMAIN ring \ P
<1>1. keys' = H!Sorted(f) /\ ring' = [k \in D |-> ring[k]]
  BY DEF H!RemoveNode, H!Without, H!Restrict
<1>2. place \in Hashes /\ keys \in Seq(DOMAIN ring) /\ ring \in [DOMAIN ring -> Servers \cup Others]
  BY DEF RingAgrees, H!TypeOK, H!Ids
<1>3. \A k \in DOMAIN ring : k \in Nat
  BY <1>2, PointsFacts DEF RingAgrees
<1> HIDE DEF P
<1>4. DOMAIN f = I /\ Range(f) = D
  <2>1. Range(keys) = DOMAIN ring
    BY DEF RingAgrees
  <2> QED
    BY <2>1 DEF Range
<1>5. /\ IsFiniteSet(DOMAIN f) /\ DOMAIN f \subseteq Int /\ \A i \in DOMAIN f : f[i] \in Int
  <2>1. DOMAIN keys = 1..Len(keys) /\ Len(keys) \in Nat
    BY <1>2
  <2>2. IsFiniteSet(DOMAIN keys)
    BY <2>1, FS_Interval
  <2>3. IsFiniteSet(I)
    BY <2>2, FS_Subset
  <2>4. \A i \in I : keys[i] \in DOMAIN ring /\ i \in Int
    BY <1>2, <2>1
  <2> QED
    BY <1>3, <1>4, <2>3, <2>4
<1> HIDE DEF f
<1>6. DOMAIN ring' = D /\ \A k \in D : ring'[k] = ring[k]
  BY <1>1
<1>7. /\ keys' \in Seq(DOMAIN ring') /\ Range(keys') = DOMAIN ring'
      /\ \A i, j \in DOMAIN keys' : i <= j => keys'[i] <= keys'[j]
  BY <1>1, <1>4, <1>5, <1>6, SortedFacts
<1>8. \A k \in D : ring[k] \in Servers \cup Others /\ k \in H!PointsOf(ring[k])
  BY <1>2 DEF RingAgrees
<1> QED
  BY <1>1, <1>6, <1>7, <1>8 DEF P

LEMMA RingStep ==
  ASSUME Types, Types', RingAgrees, [RoutingNext]_routingVars
  PROVE  RingAgrees'
<1> DEFINE Kept(D) == /\ keys' \in Seq(DOMAIN ring') /\ ring' \in [DOMAIN ring' -> Servers \cup Others]
                      /\ \A i, j \in DOMAIN keys' : i <= j => keys'[i] <= keys'[j]
                      /\ Range(keys') = DOMAIN ring'
                      /\ DOMAIN ring' = D
                      /\ \A k \in DOMAIN ring' : k \in H!PointsOf(ring'[k])
<1>1. Known \subseteq Servers /\ Known' \subseteq Servers
  <2>1. list \in Seq(Servers) /\ list' \in Seq(Servers)
    BY DEF Types, TypeOK
  <2>2. Known \subseteq Servers
    BY <2>1 DEF Known, Range
  <2>3. Known' \subseteq Servers
    BY <2>1 DEF Known, Range
  <2> QED
    BY <2>2, <2>3
<1>2. place \in Hashes /\ others \subseteq Others /\ created \in BOOLEAN
  BY DEF RingAgrees, H!TypeOK
<1>3. ASSUME UNCHANGED <<keys, ring>> PROVE Kept(DOMAIN ring)
  BY <1>3 DEF RingAgrees, H!TypeOK, H!Ids
<1>4. ASSUME NEW D, Kept(D), place' = place, others' \subseteq Others, created' \in BOOLEAN,
             ~created' => D = {}, created' /\ ~strayed' => D = Points(Known')
      PROVE  RingAgrees'
  <2>1. \A S : Points(S)' = Points(S)
    BY <1>4 DEF Points, H!PointsOf
  <2>2. \A s : H!PointsOf(s)' = H!PointsOf(s)
    BY <1>4 DEF H!PointsOf
  <2>3. H!TypeOK'
    BY <1>1, <1>2, <1>4 DEF H!TypeOK, H!Ids
  <2> QED
    BY <1>4, <2>1, <2>2, <2>3 DEF RingAgrees
<1>5. ASSUME NEW s \in Servers \cup Others, StationAdds(s) PROVE RingAgrees'
  <2>1. /\ Known' = Known \cup ({s} \cap Servers) /\ others' = others \cup ({s} \cap Others)
        /\ IF created THEN H!AddNodes({s}) ELSE UNCHANGED <<keys, ring>>
        /\ strayed' = (strayed \/ (created /\ s \in Others))
        /\ UNCHANGED <<place, created>>
    BY <1>5 DEF StationAdds, H!AddServer
  <2>2. others' \subseteq Others
    BY <1>2, <2>1
  <2>3. CASE created
    <3>1. IsFiniteSet({s})
      BY FS_Singleton
    <3>2. Kept(DOMAIN ring \cup Points({s}))
      BY <2>1, <2>3, <3>1, AddNodesFacts
    <3>3. ~strayed' => ~strayed /\ Known' = Known \cup {s}
      BY <2>1, <2>3
    <3>4. Points(Known \cup {s}) = Points(Known) \cup Points({s})
      BY DEF Points
    <3>5. ~strayed' => DOMAIN ring \cup Points({s}) = Points(Known')
      BY <2>3, <3>3, <3>4 DEF RingAgrees
    <3> HIDE DEF Kept
    <3> QED
      BY <1>2, <1>4, <2>1, <2>2, <2>3, <3>2, <3>5
  <2>4. CASE ~created
    <3>1. Kept(DOMAIN ring) /\ DOMAIN ring = {} /\ ~created'
      BY <1>3, <2>1, <2>4 DEF RingAgrees
    <3> HIDE DEF Kept
    <3> QED
      BY <1>2, <1>4, <2>1, <2>2, <3>1
  <2> QED
    BY <2>3, <2>4
<1>6. ASSUME NEW s \in Servers \cup Others, StationRemoves(s) PROVE RingAgrees'
  <2>1. /\ Known' = Known \ {s} /\ others' = others \ {s}
        /\ IF created THEN H!RemoveNode(s) ELSE UNCHANGED <<keys, ring>>
        /\ UNCHANGED <<place, created, strayed>>
    BY <1>6 DEF StationRemoves, H!RemoveServer
  <2>2. others' \subseteq Others
    BY <1>2, <2>1
  <2>3. CASE created
    <3>1. Kept(DOMAIN ring \ H!PointsOf(s))
      BY <2>1, <2>3, RemoveNodeFacts
    <3>2. \A t \in Known : t # s => H!PointsOf(t) \cap H!PointsOf(s) = {}
      BY <1>1, <1>2, PointsFacts
    <3>3. Points(Known) \ H!PointsOf(s) = Points(Known \ {s})
      BY <3>2 DEF Points
    <3>4. ~strayed' => DOMAIN ring \ H!PointsOf(s) = Points(Known')
      BY <2>1, <2>3, <3>3 DEF RingAgrees
    <3> HIDE DEF Kept
    <3> QED
      BY <1>2, <1>4, <2>1, <2>2, <2>3, <3>1, <3>4
  <2>4. CASE ~created
    <3>1. Kept(DOMAIN ring) /\ DOMAIN ring = {} /\ ~created'
      BY <1>3, <2>1, <2>4 DEF RingAgrees
    <3> HIDE DEF Kept
    <3> QED
      BY <1>2, <1>4, <2>1, <2>2, <3>1
  <2> QED
    BY <2>3, <2>4
<1>7. ASSUME NEW l \in Lists, NEW S \in SUBSET Others, StationReplaces(l, S) PROVE RingAgrees'
  <2>1. /\ others' = (Range(l) \cup S) \cap Others
        /\ strayed' = (strayed \/ created)
        /\ UNCHANGED <<place, created, keys, ring>>
    BY <1>7 DEF StationReplaces, H!ReplaceServers
  <2>2. Kept(DOMAIN ring) /\ (~created' => DOMAIN ring = {}) /\ ~(created' /\ ~strayed')
    BY <1>3, <2>1 DEF RingAgrees
  <2>3. others' \subseteq Others
    BY <2>1
  <2> HIDE DEF Kept
  <2> QED
    BY <1>2, <1>4, <2>1, <2>2, <2>3
<1>8. ASSUME UNCHANGED ringVars, Known' = Known PROVE RingAgrees'
  <2>1. Kept(DOMAIN ring) /\ UNCHANGED <<place, others, created, strayed>>
    BY <1>3, <1>8 DEF ringVars
  <2>2. (~created' => DOMAIN ring = {}) /\ (created' /\ ~strayed' => DOMAIN ring = Points(Known'))
    BY <1>8, <2>1 DEF RingAgrees
  <2> HIDE DEF Kept
  <2> QED
    BY <1>2, <1>4, <2>1, <2>2
<1>9. ASSUME H!Create PROVE RingAgrees'
  <2>1. /\ ~created /\ created' = TRUE /\ H!AddNodes(Known)
        /\ UNCHANGED <<place, Known, others, strayed>>
    BY <1>9 DEF H!Create
  <2>2. IsFiniteSet(Known)
    BY <1>1, FS_Subset, RouterAssumption
  <2>3. Kept(DOMAIN ring \cup Points(Known))
    BY <1>1, <2>1, <2>2, AddNodesFacts
  <2>4. DOMAIN ring \cup Points(Known) = Points(Known')
    BY <2>1 DEF RingAgrees
  <2> HIDE DEF Kept
  <2> QED
    BY <1>2, <1>4, <2>1, <2>3, <2>4
<1>10. ASSUME RouteCall PROVE RingAgrees'
  <2>1. CASE (RouteRR \/ RouteWRR \/ RouteLA) /\ UNCHANGED ringVars
    <3>1. Known' = Known
      BY <2>1 DEF RouteRR, RouteWRR, RouteLA, Pick, Known
    <3> QED
      BY <1>8, <2>1, <3>1
  <2>2. CASE H!Create
    BY <1>9, <2>2
  <2> QED
    BY <1>10, <2>1, <2>2 DEF RouteCall
<1>11. ASSUME UNCHANGED routingVars PROVE RingAgrees'
  BY <1>8, <1>11 DEF routingVars, vars, Known
<1> QED
  BY <1>5, <1>6, <1>7, <1>10, <1>11 DEF RoutingNext

LEMMA RingAlways == RoutingSpec => []RingAgrees
<1>1. ASSUME Types, Types', RingAgrees, [RoutingNext]_routingVars PROVE RingAgrees'
  BY <1>1, RingStep
<1> QED
  BY <1>1, RingInit, TypesAlways, PTL DEF RoutingSpec

\* The variables of the ring keep their types, and its keys ascend.
THEOREM RingTypeCorrect == RoutingSpec => []H!TypeOK
<1>1. RingAgrees => H!TypeOK
  BY DEF RingAgrees
<1> QED
  BY <1>1, RingAlways, PTL

-----------------------------------------------------------------------------
(* The lookup. *)

\* The place on the ring of the hashes D where a field with hash h belongs: the
\* last hash that is not above h, or the last of all.
IsTarget(D, h, t) ==
  /\ t \in D
  /\ (\E k \in D : k <= h) => t <= h /\ \A k \in D : k <= h => k <= t
  /\ (\A k \in D : k > h) => \A k \in D : k <= t

\* The lookup always ends on the ring, and at the right place unless a hash is
\* there twice.
Target(h) == keys[H!Position(h) + 1]
Finds ==
  DOMAIN ring # {} =>
    \A h \in Fields : /\ Target(h) \in DOMAIN ring
                      /\ IsInjective(keys) => IsTarget(DOMAIN ring, h, Target(h))

LEMMA PositionIsSearch ==
  ASSUME NEW h \in Nat, IsFiniteSet(DOMAIN ring)
  PROVE  \E g : /\ IsSearch(keys, Cardinality(DOMAIN ring), h, g)
                /\ H!Position(h) = g[<<0, Cardinality(DOMAIN ring) - 1>>]
<1> DEFINE n == Cardinality(DOMAIN ring)
           g == CHOOSE f : IsSearch(keys, n, h, f)
<1>1. n \in Nat
  BY FS_CardinalityType
<1>2. IsSearch(keys, n, h, g)
  BY <1>1, SearchExists
<1>3. H!Size = n
  BY DEF H!Size, H!Cardinality, Cardinality
<1>4. H!Position(h) = g[<<0, H!Size - 1>>]
  <2>1. g = CHOOSE f : IsSearch(keys, H!Size, h, f)
    BY <1>3
  <2> HIDE DEF g
  <2> QED
    BY <2>1 DEF H!Position, IsSearch, SearchStep, Bounds
<1> HIDE DEF g
<1> QED
  BY <1>2, <1>3, <1>4

LEMMA RingFinds == ASSUME RingAgrees PROVE Finds
<1> SUFFICES ASSUME DOMAIN ring # {}, NEW h \in Fields
             PROVE  /\ Target(h) \in DOMAIN ring
                    /\ IsInjective(keys) => IsTarget(DOMAIN ring, h, Target(h))
  BY DEF Finds
<1> DEFINE D == DOMAIN ring
           n == Cardinality(D)
           N == 1..Len(keys)
           p == H!Position(h) + 1
<1>1. /\ keys \in Seq(D) /\ Range(keys) = D /\ D \subseteq Nat /\ Len(keys) \in Nat
      /\ \A i, j \in N : i <= j => keys[i] <= keys[j]
  <2>1. /\ keys \in Seq(D) /\ Range(keys) = D /\ place \in Hashes /\ ring \in [D -> Servers \cup Others]
        /\ \A i, j \in DOMAIN keys : i <= j => keys[i] <= keys[j]
    BY DEF RingAgrees, H!TypeOK, H!Ids
  <2>2. D \subseteq Nat
    BY <2>1, PointsFacts DEF RingAgrees
  <2>3. Len(keys) \in Nat /\ DOMAIN keys = N
    BY <2>1
  <2> QED
    BY <2>1, <2>2, <2>3
<1>2. /\ keys \in Surjection(N, D) /\ IsFiniteSet(D) /\ n \in Nat \ {0} /\ n <= Len(keys)
      /\ IsInjective(keys) => n = Len(keys)
  <2>1. DOMAIN keys = N /\ keys \in [N -> D]
    BY <1>1
  <2>2. keys \in Surjection(N, D)
    BY <1>1, <2>1 DEF Surjection, Range
  <2>3. IsFiniteSet(N) /\ Cardinality(N) = Len(keys)
    <3>1. \A m \in Nat : IsFiniteSet(1..m) /\ Cardinality(1..m) = m
      BY FS_Interval
    <3> QED
      BY <1>1, <3>1
  <2>4. IsInjective(keys) => keys \in Injection(N, D)
    BY <2>1 DEF Injection
  <2>5. IsFiniteSet(D) /\ n <= Len(keys) /\ (keys \in Injection(N, D) => n = Len(keys))
    BY <2>2, <2>3, FS_Surjection
  <2>6. n \in Nat \ {0}
    BY <2>5, FS_CardinalityType, FS_EmptySet
  <2> QED
    BY <2>2, <2>4, <2>5, <2>6
<1>3. h \in Nat
  BY RingAssumption
<1>4. PICK g : IsSearch(keys, n, h, g) /\ H!Position(h) = g[<<0, n - 1>>]
  BY <1>2, <1>3, PositionIsSearch
<1>5. p \in 1..n
  <2>1. <<0, n - 1>> \in Bounds(n)
    BY <1>2 DEF Bounds
  <2>2. g[<<0, n - 1>>] \in 0..(n - 1)
    BY <1>2, <1>4, <2>1, SearchInside
  <2> QED
    BY <1>2, <1>4, <2>2
<1>6. Target(h) = keys[p] /\ p \in N /\ keys[p] \in D
  BY <1>1, <1>2, <1>5 DEF Target
<1>7. ASSUME IsInjective(keys) PROVE IsTarget(D, h, keys[p])
  <2>1. n = Len(keys)
    BY <1>2, <1>7
  <2>2. \A i \in N : keys[i] \in Nat
    BY <1>1
  <2>3. \A i, j \in N : i < j => keys[i] < keys[j]
    <3>1. \A i, j \in N : keys[i] = keys[j] => i = j
      BY <1>1, <1>7 DEF IsInjective
    <3> QED
      BY <1>1, <2>2, <3>1
  <2>4. keys \in Seq(Int)
    BY <1>1
  <2>5. /\ \A i \in N : i > p => keys[i] > h
        /\ keys[p] > h => p = n /\ \A i \in N : keys[i] > h
    <3>1. n \in Nat \ {0} /\ h \in Int /\ \A i, j \in 1..n : i < j => keys[i] < keys[j]
      BY <1>2, <1>3, <2>1, <2>3
    <3> HIDE DEF n, p, N, D
    <3>2. LastNotAbove(keys, n, h, g[<<0, n - 1>>] + 1)
      BY <1>4, <2>1, <2>4, <3>1, SearchFinds
    <3>3. p = g[<<0, n - 1>>] + 1 /\ N = 1..n
      BY <1>4, <2>1 DEF p, N
    <3> QED
      BY <3>2, <3>3 DEF LastNotAbove
  <2> HIDE DEF p, n
  <2>6. \A k \in D : \E i \in N : keys[i] = k
    BY <1>2 DEF Surjection
  <2>7. ASSUME \E k \in D : k <= h PROVE keys[p] <= h /\ \A k \in D : k <= h => k <= keys[p]
    <3>1. PICK i \in N : keys[i] <= h
      BY <2>6, <2>7
    <3>2. keys[p] <= h
      BY <1>3, <1>6, <2>2, <2>5, <3>1
    <3>3. ASSUME NEW j \in N, keys[j] <= h PROVE keys[j] <= keys[p]
      <4>1. ~(j > p)
        BY <1>3, <2>2, <2>5, <3>3
      <4>2. j <= p
        BY <1>6, <4>1
      <4> QED
        BY <1>1, <1>6, <4>2
    <3> QED
      BY <2>6, <3>2, <3>3
  <2>8. ASSUME \A k \in D : k > h PROVE \A k \in D : k <= keys[p]
    <3>1. keys[p] > h
      BY <1>6, <2>8
    <3>2. p = Len(keys)
      BY <2>1, <2>5, <3>1
    <3>3. \A j \in N : keys[j] <= keys[p]
      BY <1>1, <1>6, <3>2
    <3> QED
      BY <2>6, <3>3
  <2> HIDE DEF D
  <2> QED
    BY <1>6, <2>7, <2>8 DEF IsTarget
<1> HIDE DEF p, D
<1> QED
  BY <1>6, <1>7 DEF D

\* Two rings that share the places where h belongs on either agree on it.
LEMMA TargetKept ==
  ASSUME NEW D \in SUBSET Nat, NEW E \in SUBSET Nat, NEW h \in Nat, NEW t, NEW u,
         IsTarget(D, h, t), IsTarget(E, h, u), t \in E, u \in D
  PROVE  t = u
<1>1. t \in Nat /\ u \in Nat /\ t \in D /\ u \in E
  BY DEF IsTarget
<1>2. CASE \E k \in D : k <= h
  <2>1. t <= h /\ \A k \in D : k <= h => k <= t
    BY <1>2 DEF IsTarget
  <2>2. u <= h /\ \A k \in E : k <= h => k <= u
    BY <2>1 DEF IsTarget
  <2> QED
    BY <1>1, <2>1, <2>2
<1>3. CASE ~\E k \in D : k <= h
  <2>1. (\A k \in D : k > h) /\ \A k \in D : k <= t
    BY <1>3 DEF IsTarget
  <2>2. ~\E k \in E : k <= h
    <3>1. u > h
      BY <2>1
    <3>2. ~(u <= h)
      BY <1>1, <3>1
    <3> QED
      BY <3>2 DEF IsTarget
  <2>3. \A k \in E : k > h
    BY <2>2
  <2>4. \A k \in E : k <= u
    BY <2>3 DEF IsTarget
  <2> QED
    BY <1>1, <2>1, <2>4
<1> QED
  BY <1>2, <1>3

\* Of the ring of servers S, the owner of a hash is the server it belongs to.
LEMMA OwnerFacts ==
  ASSUME RingAgrees, created, ~strayed, Known \subseteq Servers
  PROVE  \A k \in DOMAIN ring : /\ ring[k] \in Known
                                /\ \A s \in Known : k \in H!PointsOf(s) => s = ring[k]
<1> SUFFICES ASSUME NEW k \in DOMAIN ring
             PROVE  ring[k] \in Known /\ \A s \in Known : k \in H!PointsOf(s) => s = ring[k]
  OBVIOUS
<1>1. place \in Hashes /\ ring[k] \in Servers \cup Others /\ k \in H!PointsOf(ring[k])
  BY DEF RingAgrees, H!TypeOK, H!Ids
<1>2. \A s \in Known : k \in H!PointsOf(s) => s = ring[k]
  BY <1>1, PointsFacts
<1>3. \E s \in Known : k \in H!PointsOf(s)
  BY DEF RingAgrees, Points
<1> QED
  BY <1>2, <1>3

LEMMA LookupMeans == ASSUME RingAgrees, Finds, Known \subseteq Servers PROVE LookupCorrect
<1>1. place \in Hashes /\ ring \in [DOMAIN ring -> Servers \cup Others]
  BY DEF RingAgrees, H!TypeOK, H!Ids
<1>2. DOMAIN ring \subseteq Nat
  BY <1>1, PointsFacts DEF RingAgrees
<1>3. ASSUME NEW h, DOMAIN ring # {} PROVE H!NodeOf(h) = ring[Target(h)]
  BY <1>3 DEF H!NodeOf, Target
<1>4. H!SearchCorrect
  <2> SUFFICES ASSUME ring # <<>>, IsInjective(keys), NEW h \in Fields
               PROVE  H!NodeOf(h) = ring[Max(IF H!Below(h) = {} THEN DOMAIN ring ELSE H!Below(h))]
    BY DEF H!SearchCorrect, H!IsInjective, IsInjective, H!Max, Max
  <2> DEFINE S == IF H!Below(h) = {} THEN DOMAIN ring ELSE H!Below(h)
             t == Target(h)
  <2>1. DOMAIN ring # {}
    <3>1. DOMAIN ring = {} => ring = <<>>
      BY <1>1
    <3> QED
      BY <3>1
  <2>2. IsTarget(DOMAIN ring, h, t)
    BY <2>1 DEF Finds
  <2>3. h \in Nat /\ t \in Nat
    BY <1>2, <2>2, RingAssumption DEF IsTarget
  <2>4. S \subseteq Nat /\ t \in S /\ \A k \in S : t >= k
    <3>1. H!Below(h) = {k \in DOMAIN ring : k <= h}
      BY DEF H!Below
    <3>2. CASE H!Below(h) = {}
      <4>1. \A k \in DOMAIN ring : k > h
        BY <1>2, <2>3, <3>1, <3>2
      <4>2. t \in DOMAIN ring /\ \A k \in DOMAIN ring : k <= t
        BY <2>2, <4>1 DEF IsTarget
      <4> QED
        BY <1>2, <2>3, <3>2, <4>2
    <3>3. CASE H!Below(h) # {}
      <4>1. t \in DOMAIN ring /\ t <= h /\ \A k \in DOMAIN ring : k <= h => k <= t
        BY <2>2, <3>1, <3>3 DEF IsTarget
      <4> QED
        BY <1>2, <2>3, <3>1, <3>3, <4>1
    <3> QED
      BY <3>2, <3>3
  <2> HIDE DEF S, t
  <2>5. Max(S) = t
    <3>1. \E x \in S : \A y \in S : x >= y
      BY <2>4
    <3> DEFINE m == Max(S)
    <3>2. m \in S /\ \A y \in S : m >= y
      BY <3>1 DEF Max
    <3> HIDE DEF m
    <3>3. m \in Nat /\ m >= t /\ t >= m
      BY <2>4, <3>2
    <3>4. m = t
      BY <2>3, <3>3
    <3> QED
      BY <3>4 DEF m
  <2> QED
    BY <1>3, <2>1, <2>5 DEF S, t
<1>5. H!RoutedIsKnown
  <2> SUFFICES ASSUME created, Known # {}, ~strayed, NEW h \in Fields PROVE H!NodeOf(h) \in Known
    BY DEF H!RoutedIsKnown
  <2>1. DOMAIN ring # {}
    <3>1. PICK s \in Known : TRUE
      OBVIOUS
    <3>2. H!PointsOf(s) # {} /\ H!PointsOf(s) \subseteq DOMAIN ring
      BY <1>1, PointsFacts DEF RingAgrees, Points
    <3> QED
      BY <3>2
  <2>2. Target(h) \in DOMAIN ring
    BY <2>1 DEF Finds
  <2> QED
    BY <1>3, <2>1, <2>2, OwnerFacts
<1> QED
  BY <1>4, <1>5 DEF LookupCorrect

\* What the lookups before and after a step rest on.
Looked ==
  /\ Known \subseteq Servers
  /\ RingAgrees
  /\ Finds
  /\ created /\ ~strayed =>
       \A k \in DOMAIN ring : /\ ring[k] \in Known
                              /\ \A s \in Known : k \in H!PointsOf(s) => s = ring[k]

LEMMA LookedAlways == RoutingSpec => []Looked
<1>1. Types /\ RingAgrees => Looked
  <2> SUFFICES ASSUME Types, RingAgrees PROVE Looked
    OBVIOUS
  <2>1. Known \subseteq Servers
    BY DEF Types, TypeOK, Known, Range
  <2> QED
    BY <2>1, RingFinds, OwnerFacts, Zenon DEF Looked
<1> QED
  BY <1>1, TypesAlways, RingAlways, PTL

\* The lookup of the consistent-hash router finds the node that a hash belongs
\* to, unless a server is on the ring twice, and a server the call may go to
\* also then, as long as the ring is told of every change.
THEOREM LookupAlwaysCorrect == RoutingSpec => []LookupCorrect
<1>1. Looked => LookupCorrect
  BY LookupMeans DEF Looked
<1> QED
  BY <1>1, LookedAlways, PTL

LEMMA MovesStep ==
  ASSUME Looked, Looked', [RoutingNext]_routingVars,
         created, IsInjective(keys), IsInjective(keys'), ~strayed',
         NEW h \in Fields
  PROVE  \/ H!NodeOf(h)' = H!NodeOf(h)
         \/ H!NodeOf(h)' \in Known' \ Known
         \/ H!NodeOf(h) \in Known \ Known'
<1> DEFINE D == DOMAIN ring
           E == DOMAIN ring'
           t == Target(h)
           u == Target(h)'
<1>1. ~strayed /\ created' /\ place' = place
  <2>1. CASE UNCHANGED routingVars
    BY <2>1 DEF routingVars, ringVars
  <2>2. ASSUME NEW s \in Servers \cup Others, StationAdds(s) PROVE ~strayed /\ created' /\ place' = place
    BY <2>2 DEF StationAdds, H!AddServer
  <2>3. ASSUME NEW s \in Servers \cup Others, StationRemoves(s) PROVE ~strayed /\ created' /\ place' = place
    BY <2>3 DEF StationRemoves, H!RemoveServer
  <2>4. ASSUME NEW l \in Lists, NEW S \in SUBSET Others, StationReplaces(l, S)
        PROVE  ~strayed /\ created' /\ place' = place
    BY <2>4 DEF StationReplaces, H!ReplaceServers
  <2>5. CASE RouteCall
    BY <2>5 DEF RouteCall, ringVars, H!Create
  <2> QED
    BY <2>1, <2>2, <2>3, <2>4, <2>5 DEF RoutingNext
<1>2. \A s : H!PointsOf(s)' = H!PointsOf(s)
  BY <1>1 DEF H!PointsOf
<1>3. place \in Hashes /\ h \in Nat
  BY RingAssumption DEF Looked, RingAgrees, H!TypeOK
<1>4. D = Points(Known) /\ E = Points(Known')
  <2>1. D = Points(Known) /\ E = Points(Known)'
    BY <1>1 DEF Looked, RingAgrees
  <2>2. Points(Known)' = Points(Known')
    BY <1>2 DEF Points
  <2> QED
    BY <2>1, <2>2
<1>5. D \subseteq Nat /\ E \subseteq Nat /\ (D = {} <=> Known = {}) /\ (E = {} <=> Known' = {})
  <2>1. Known \subseteq Servers /\ Known' \subseteq Servers
    BY DEF Looked
  <2> QED
    BY <1>3, <1>4, <2>1, PointsFacts DEF Points
<1>6. ASSUME D # {} PROVE H!NodeOf(h) = ring[t] /\ IsTarget(D, h, t) /\ t \in D /\ ring[t] \in Known
  <2>1. H!NodeOf(h) = ring[t] /\ IsTarget(D, h, t)
    BY <1>6 DEF H!NodeOf, Target, Looked, Finds
  <2>2. t \in D
    BY <2>1 DEF IsTarget
  <2> QED
    BY <1>1, <2>1, <2>2 DEF Looked
<1>7. ASSUME E # {} PROVE H!NodeOf(h)' = ring'[u] /\ IsTarget(E, h, u) /\ u \in E /\ ring'[u] \in Known'
  <2>1. H!NodeOf(h)' = ring'[u] /\ IsTarget(E, h, u)
    BY <1>7 DEF H!NodeOf, Target, Looked, Finds
  <2>2. u \in E
    BY <2>1 DEF IsTarget
  <2> QED
    BY <1>1, <2>1, <2>2 DEF Looked
<1>8. CASE D = {} /\ E = {}
  BY <1>8 DEF H!NodeOf
<1>9. CASE D = {} /\ E # {}
  BY <1>5, <1>7, <1>9
<1>10. CASE D # {} /\ E = {}
  BY <1>5, <1>6, <1>10
<1>11. CASE D # {} /\ E # {}
  <2> SUFFICES ASSUME ring[t] \in Known', ring'[u] \in Known PROVE ring'[u] = ring[t]
    BY <1>6, <1>7, <1>11
  <2>1. t \in E
    <3>1. t \in H!PointsOf(ring[t])
      BY <1>6, <1>11 DEF Looked, RingAgrees
    <3> QED
      BY <1>4, <3>1 DEF Points
  <2>2. u \in D /\ u \in H!PointsOf(ring'[u])
    <3>1. u \in H!PointsOf(ring'[u])
      BY <1>2, <1>7, <1>11 DEF Looked, RingAgrees
    <3> QED
      BY <1>4, <3>1 DEF Points
  <2>3. t = u
    BY <1>3, <1>5, <1>6, <1>7, <1>11, <2>1, <2>2, TargetKept
  <2>4. \A s \in Known : t \in H!PointsOf(s) => s = ring[t]
    BY <1>1, <1>6, <1>11 DEF Looked
  <2> QED
    BY <2>2, <2>3, <2>4
<1> QED
  BY <1>8, <1>9, <1>10, <1>11

\* A change of the list moves calls only to servers that are new and away from
\* servers that have gone, as long as no server is on the ring twice and the
\* ring was told of every change.
THEOREM MovesOnlyAsNeeded == RoutingSpec => MovesAreNeeded
<1>1. ASSUME Looked, Looked', [RoutingNext]_routingVars
      PROVE  [created /\ H!IsInjective(keys) /\ H!IsInjective(keys') /\ ~strayed' =>
                \A h \in Fields :
                  H!NodeOf(h)' = H!NodeOf(h) \/ H!NodeOf(h)' \in Known' \ Known
                                            \/ H!NodeOf(h) \in Known \ Known']_<<Known, H!ringVars>>
  BY <1>1, MovesStep DEF H!IsInjective, IsInjective
<1> QED
  BY <1>1, LookedAlways, PTL DEF RoutingSpec, MovesAreNeeded, H!MovesAreNeeded

=============================================================================
