----------------------------- MODULE ClientProofs -----------------------------
(***************************************************************************)
(* Theorems about Client, for every number of servers, calls, retries and  *)
(* failures, and every failure mode.                                       *)
(***************************************************************************)
EXTENDS Client, SequenceTheorems, FiniteSetTheorems, TLAPS

(* Types, with what a number must name said of the elements.               *)

TaskSet(n, m) == {t \in Tasks : t.a \in 1..n /\ t.tracer \in 0..m}
AttemptSet(m, k) == {x \in Attempts : /\ x.tracer \in 0..m /\ x.box \in 0..k
                                      /\ x.place = "held" => x.box # 0}
BoxSet(n) == {b \in Boxes : b.opener \in 1..n}
TimerSet(n, m) == {t \in Timers : t.a \in 1..n /\ t.tracer \in 1..m}

Throws == {"nothing", "callback called twice", "no message", "no callback", "no mailbox",
           "unhandled error"}

LifeTypes ==
  /\ failMode \in Modes /\ state \in {"inited", "started", "closed"}
  /\ ticks \in Nat /\ listeners \in Nat /\ closing \in BOOLEAN
  /\ counts \in [starts : Nat, changes : Nat]
InfoTypes == known \subseteq Servers /\ table \in Seq(Servers)
BoxTypes ==
  /\ boxes \in Seq(BoxSet(Len(attempts)))
  /\ mailboxes \in [Servers -> 0..Len(boxes)]
UserTypes ==
  /\ calls \in [Calls -> CallStates] /\ served \in [Calls -> SUBSET Servers]
  /\ thrown \in Throws
RetryTypes == tracers \in Seq(Nat) /\ timers \subseteq TimerSet(Len(attempts), Len(tracers))
AttemptTypes == attempts \in Seq(AttemptSet(Len(tracers), Len(boxes)))
AgendaTypes == agenda \in Seq(TaskSet(Len(attempts), Len(tracers)))
Types == LifeTypes /\ InfoTypes /\ BoxTypes /\ UserTypes /\ RetryTypes /\ AttemptTypes /\ AgendaTypes

LEMMA TypesAreTypeOK == TypeOK <=> Types
<1>1. ASSUME TypeOK PROVE Types
  <2>1. /\ attempts \in Seq(Attempts) /\ boxes \in Seq(Boxes) /\ agenda \in Seq(Tasks)
        /\ tracers \in Seq(Nat) /\ timers \subseteq Timers
    BY <1>1 DEF TypeOK
  <2>8. /\ \A a \in DOMAIN attempts : /\ attempts[a].tracer \in 0..Len(tracers)
                                      /\ attempts[a].box \in 0..Len(boxes)
                                      /\ attempts[a].place = "held" => attempts[a].box # 0
        /\ \A b \in DOMAIN boxes : boxes[b].opener \in DOMAIN attempts
        /\ \A i \in DOMAIN agenda : /\ agenda[i].a \in DOMAIN attempts
                                    /\ agenda[i].tracer \in 0..Len(tracers)
        /\ \A t \in timers : t.a \in DOMAIN attempts /\ t.tracer \in DOMAIN tracers
    BY <1>1 DEF TypeOK
  <2>2. /\ DOMAIN attempts = 1..Len(attempts) /\ DOMAIN tracers = 1..Len(tracers)
    BY <2>1
  <2>3. \A a \in DOMAIN attempts : attempts[a] \in AttemptSet(Len(tracers), Len(boxes))
    BY <2>1, <2>8 DEF AttemptSet
  <2>4. \A b \in DOMAIN boxes : boxes[b] \in BoxSet(Len(attempts))
    BY <2>1, <2>2, <2>8 DEF BoxSet
  <2>5. \A i \in DOMAIN agenda : agenda[i] \in TaskSet(Len(attempts), Len(tracers))
    BY <2>1, <2>2, <2>8 DEF TaskSet
  <2>6. timers \subseteq TimerSet(Len(attempts), Len(tracers))
    BY <2>1, <2>2, <2>8 DEF TimerSet
  <2>7. BoxTypes /\ AttemptTypes /\ AgendaTypes /\ RetryTypes
    <3>1. boxes \in Seq(BoxSet(Len(attempts)))
      BY <2>1, <2>4
    <3>2. attempts \in Seq(AttemptSet(Len(tracers), Len(boxes)))
      BY <2>1, <2>3
    <3>3. agenda \in Seq(TaskSet(Len(attempts), Len(tracers)))
      BY <2>1, <2>5
    <3> QED
      BY <1>1, <2>6, <3>1, <3>2, <3>3
      DEF TypeOK, BoxTypes, AttemptTypes, AgendaTypes, RetryTypes
  <2> QED
    BY <1>1, <2>7 DEF TypeOK, Types, LifeTypes, InfoTypes, UserTypes, Throws
<1>2. ASSUME Types PROVE TypeOK
  <2>1. /\ attempts \in Seq(AttemptSet(Len(tracers), Len(boxes)))
        /\ boxes \in Seq(BoxSet(Len(attempts)))
        /\ agenda \in Seq(TaskSet(Len(attempts), Len(tracers)))
        /\ tracers \in Seq(Nat) /\ timers \subseteq TimerSet(Len(attempts), Len(tracers))
    BY <1>2 DEF Types, BoxTypes, AttemptTypes, AgendaTypes, RetryTypes
  <2>2. DOMAIN attempts = 1..Len(attempts) /\ DOMAIN tracers = 1..Len(tracers)
    BY <2>1
  <2>3. \A a \in DOMAIN attempts : attempts[a] \in AttemptSet(Len(tracers), Len(boxes))
    BY <2>1
  <2>4. \A b \in DOMAIN boxes : boxes[b] \in BoxSet(Len(attempts))
    BY <2>1
  <2>5. \A i \in DOMAIN agenda : agenda[i] \in TaskSet(Len(attempts), Len(tracers))
    BY <2>1
  <2>6. attempts \in Seq(Attempts) /\ boxes \in Seq(Boxes) /\ agenda \in Seq(Tasks)
    BY <2>1 DEF AttemptSet, BoxSet, TaskSet
  <2>7. /\ \A a \in DOMAIN attempts : /\ attempts[a].tracer \in 0..Len(tracers)
                                      /\ attempts[a].box \in 0..Len(boxes)
                                      /\ attempts[a].place = "held" => attempts[a].box # 0
        /\ \A b \in DOMAIN boxes : boxes[b].opener \in DOMAIN attempts
        /\ \A i \in DOMAIN agenda : /\ agenda[i].a \in DOMAIN attempts
                                    /\ agenda[i].tracer \in 0..Len(tracers)
    BY <2>2, <2>3, <2>4, <2>5 DEF AttemptSet, BoxSet, TaskSet
  <2>8. /\ timers \subseteq Timers
        /\ \A t \in timers : t.a \in DOMAIN attempts /\ t.tracer \in DOMAIN tracers
    BY <2>1, <2>2 DEF TimerSet
  <2> QED
    BY <1>2, <2>1, <2>6, <2>7, <2>8
    DEF TypeOK, Types, LifeTypes, InfoTypes, UserTypes, BoxTypes, RetryTypes, Throws
<1> QED
  BY <1>1, <1>2

\* The types, opened.
LEMMA Sizes ==
  ASSUME Types
  PROVE  /\ Len(attempts) \in Nat /\ Len(tracers) \in Nat /\ Len(boxes) \in Nat
         /\ DOMAIN attempts = 1..Len(attempts) /\ DOMAIN tracers = 1..Len(tracers)
         /\ DOMAIN boxes = 1..Len(boxes)
         /\ \A a \in DOMAIN attempts : attempts[a] \in AttemptSet(Len(tracers), Len(boxes))
         /\ \A b \in DOMAIN boxes : boxes[b] \in BoxSet(Len(attempts))
         /\ \A i \in DOMAIN agenda : agenda[i] \in TaskSet(Len(attempts), Len(tracers))
         /\ \A n \in DOMAIN tracers : tracers[n] \in Nat
         /\ agenda \in Seq(TaskSet(Len(attempts), Len(tracers)))
         /\ attempts \in Seq(AttemptSet(Len(tracers), Len(boxes)))
         /\ boxes \in Seq(BoxSet(Len(attempts))) /\ tracers \in Seq(Nat)
         /\ timers \subseteq TimerSet(Len(attempts), Len(tracers))
         /\ listeners \in Nat
  BY LenProperties
  DEF Types, LifeTypes, BoxTypes, AttemptTypes, AgendaTypes, RetryTypes

-----------------------------------------------------------------------------
(* Tasks.                                                                  *)

\* The kinds of task that ForEach and its like make.
Dos == {"lost", "fail", "callback", "dispatch", "unhandled"}

LEMMA TaskFacts ==
  ASSUME NEW n \in Nat, NEW m \in Nat, NEW a \in 1..n
  PROVE  /\ \A do \in Dos : Task(do, a) \in TaskSet(n, m)
         /\ \A ok \in BOOLEAN : CallbackOf(a, ok) \in TaskSet(n, m)
         /\ \A do : Task(do, a).do = do /\ Task(do, a).a = a /\ Task(do, a).flag = FALSE
         /\ \A ok : /\ CallbackOf(a, ok).do = "callback" /\ CallbackOf(a, ok).a = a
                    /\ CallbackOf(a, ok).flag = ok
  BY DEF Task, CallbackOf, TaskSet, Tasks, Dos

\* emit('error') leaves one task for each listener, or the one that throws.
LEMMA EmitFacts ==
  ASSUME NEW n \in Nat, NEW m \in Nat, NEW a \in 1..n, NEW code \in RpcErrors,
         NEW hasCb \in BOOLEAN, NEW tracer \in 0..m, listeners \in Nat
  PROVE  /\ Emit(code, a, hasCb, tracer) \in Seq(TaskSet(n, m))
         /\ Len(Emit(code, a, hasCb, tracer)) = IF listeners = 0 THEN 1 ELSE listeners
         /\ listeners = 0 => Emit(code, a, hasCb, tracer)[1] = Task("unhandled", a)
         /\ \A i \in DOMAIN Emit(code, a, hasCb, tracer) : listeners # 0 =>
              LET t == Emit(code, a, hasCb, tracer)[i]
              IN t.do = "fail" /\ t.a = a /\ t.flag = hasCb /\ t.code = code /\ t.tracer = tracer
<1> DEFINE t == [Task("fail", a) EXCEPT !.code = code, !.flag = hasCb, !.tracer = tracer]
<1>1. t \in TaskSet(n, m) /\ t.do = "fail" /\ t.a = a /\ t.flag = hasCb /\ t.code = code
      /\ t.tracer = tracer
  <2>4. a \in Nat /\ tracer \in Nat
    OBVIOUS
  <2>1. t \in Tasks
    BY <2>4 DEF Task, Tasks
  <2>2. t.do = "fail" /\ t.a = a
    BY DEF Task
  <2>3. t.flag = hasCb /\ t.code = code /\ t.tracer = tracer
    BY DEF Task
  <2> HIDE DEF t
  <2> QED
    BY <2>1, <2>2, <2>3 DEF TaskSet
<1>2. CASE listeners = 0
  <2>1. Emit(code, a, hasCb, tracer) = <<Task("unhandled", a)>>
    BY <1>2 DEF Emit
  <2>2. Task("unhandled", a) \in TaskSet(n, m)
    BY TaskFacts DEF Dos
  <2> QED
    BY <1>2, <2>1, <2>2
<1>3. CASE listeners # 0
  <2>1. Emit(code, a, hasCb, tracer) = [i \in 1..listeners |-> t]
    BY <1>3 DEF Emit
  <2> HIDE DEF t
  <2>2. Emit(code, a, hasCb, tracer) \in [1..listeners -> TaskSet(n, m)]
    BY <1>1, <2>1
  <2>3. Emit(code, a, hasCb, tracer) \in Seq(TaskSet(n, m))
        /\ Len(Emit(code, a, hasCb, tracer)) = listeners
        /\ DOMAIN Emit(code, a, hasCb, tracer) = 1..listeners
    BY <2>2
  <2>4. \A i \in 1..listeners : Emit(code, a, hasCb, tracer)[i] = t
    BY <2>1
  <2> QED
    BY <1>1, <1>3, <2>3, <2>4
<1> QED
  BY <1>2, <1>3

\* The tasks for a set of attempts: one for each, and no other.
LEMMA ForEachFacts ==
  ASSUME Types, NEW as \in SUBSET (1..Len(attempts)), NEW do \in Dos, NEW q \in ForEach(do, as)
  PROVE  /\ q \in Seq(TaskSet(Len(attempts), Len(tracers)))
         /\ \A i \in DOMAIN q : q[i].a \in as /\ q[i].do = do
         /\ \A a \in as : \E i \in DOMAIN q : q[i] = Task(do, a)
         /\ \A i, j \in DOMAIN q : q[i].a = q[j].a => i = j
<1> DEFINE n == Len(attempts)
           m == Len(tracers)
<1>0. n \in Nat /\ m \in Nat /\ as \in SUBSET (1..n)
  BY Sizes
<1> HIDE DEF n, m
<1> DEFINE k == Cardinality(as)
<1>1. IsFiniteSet(as) /\ k \in Nat
  <2>1. IsFiniteSet(1..n)
    BY <1>0, FS_Interval
  <2> QED
    BY <1>0, <2>1, FS_Subset, FS_CardinalityType
<1>2. PICK o \in [1..k -> as] : Range(o) = as /\ q = [i \in DOMAIN o |-> Task(do, o[i])]
  BY DEF ForEach
<1> HIDE DEF k
<1>3. /\ DOMAIN q = 1..k /\ DOMAIN o = 1..k
      /\ \A i \in 1..k : q[i] = Task(do, o[i]) /\ o[i] \in as
  BY <1>2
<1>4. \A i \in 1..k : q[i] \in TaskSet(n, m) /\ q[i].a = o[i]
  <2> SUFFICES ASSUME NEW i \in 1..k PROVE q[i] \in TaskSet(n, m) /\ q[i].a = o[i]
    OBVIOUS
  <2>1. q[i] = Task(do, o[i]) /\ o[i] \in 1..n
    BY <1>0, <1>3
  <2>2. Task(do, o[i]) \in TaskSet(n, m)
    BY <1>0, <2>1, TaskFacts
  <2>3. Task(do, o[i]).a = o[i]
    BY DEF Task
  <2> QED
    BY <2>1, <2>2, <2>3
<1>5. q \in Seq(TaskSet(n, m))
  <2>1. q = [i \in 1..k |-> q[i]]
    BY <1>2, <1>3
  <2> QED
    BY <1>1, <1>4, <2>1
<1>6. \A a \in as : \E i \in 1..k : o[i] = a
  BY <1>2 DEF Range
<1>7. \A i, j \in 1..k : o[i] = o[j] => i = j
  <2>1. o \in Surjection(1..k, as)
    BY <1>2, <1>3, <1>6 DEF Surjection
  <2>2. IsFiniteSet(1..k) /\ Cardinality(1..k) = k
    BY <1>1, FS_Interval
  <2>3. o \in Injection(1..k, as)
    BY <2>1, <2>2, FS_SurjSameCardinalityImpliesInj DEF k
  <2> QED
    BY <1>3, <2>3 DEF Injection, IsInjective
<1>8. \A i \in DOMAIN q : q[i].a \in as /\ q[i].do = do
  <2>1. \A a : Task(do, a).do = do
    BY DEF Task
  <2> QED
    BY <1>3, <1>4, <2>1
<1>9. \A a \in as : \E i \in DOMAIN q : q[i] = Task(do, a)
  BY <1>3, <1>6
<1>10. \A i, j \in DOMAIN q : q[i].a = q[j].a => i = j
  BY <1>3, <1>4, <1>7
<1> QED
  BY <1>5, <1>8, <1>9, <1>10 DEF n, m
-----------------------------------------------------------------------------
(* What the helpers of the actions do.                                     *)

LEMMA ConcatElements ==
  ASSUME NEW S, NEW q \in Seq(S), NEW r \in Seq(S)
  PROVE  /\ q \o r \in Seq(S)
         /\ \A i \in DOMAIN (q \o r) :
              \/ i \in DOMAIN q /\ (q \o r)[i] = q[i]
              \/ i - Len(q) \in DOMAIN r /\ (q \o r)[i] = r[i - Len(q)]
         /\ \A i \in DOMAIN q : i \in DOMAIN (q \o r) /\ (q \o r)[i] = q[i]
         /\ \A i \in DOMAIN r : Len(q) + i \in DOMAIN (q \o r) /\ (q \o r)[Len(q) + i] = r[i]
<1>1. /\ q \o r \in Seq(S) /\ Len(q \o r) = Len(q) + Len(r)
      /\ \A i \in 1..Len(q) + Len(r) : (q \o r)[i] = IF i <= Len(q) THEN q[i] ELSE r[i - Len(q)]
  BY ConcatProperties
<1>2. /\ DOMAIN q = 1..Len(q) /\ DOMAIN r = 1..Len(r) /\ DOMAIN (q \o r) = 1..Len(q) + Len(r)
      /\ Len(q) \in Nat /\ Len(r) \in Nat
  BY <1>1, LenProperties
<1>3. \A i \in DOMAIN (q \o r) : i \in DOMAIN q \/ (i - Len(q) \in DOMAIN r /\ ~(i <= Len(q)))
  BY <1>2
<1>4. \A i \in DOMAIN q : i \in 1..Len(q) + Len(r) /\ i <= Len(q)
  BY <1>2
<1>5. \A i \in DOMAIN r : /\ Len(q) + i \in 1..Len(q) + Len(r) /\ ~(Len(q) + i <= Len(q))
                          /\ Len(q) + i - Len(q) = i
  BY <1>2
<1> QED
  BY <1>1, <1>2, <1>3, <1>4, <1>5

\* The first task of an agenda and the others.
LEMMA RestElements ==
  ASSUME NEW S, NEW q \in Seq(S), q # <<>>
  PROVE  /\ Head(q) \in S /\ Tail(q) \in Seq(S) /\ 1 \in DOMAIN q /\ Head(q) = q[1]
         /\ \A i \in DOMAIN Tail(q) : i + 1 \in DOMAIN q /\ Tail(q)[i] = q[i + 1] /\ i + 1 # 1
         /\ \A i \in DOMAIN q : i = 1 \/ (i - 1 \in DOMAIN Tail(q) /\ Tail(q)[i - 1] = q[i])
  BY EmptySeq, HeadTailProperties

LEMMA AppendElements ==
  ASSUME NEW S, NEW q \in Seq(S), NEW e \in S
  PROVE  /\ Append(q, e) \in Seq(S) /\ Len(Append(q, e)) = Len(q) + 1 /\ Len(q) \in Nat
         /\ DOMAIN q = 1..Len(q) /\ DOMAIN Append(q, e) = 1..Len(q) + 1
         /\ Append(q, e)[Len(q) + 1] = e
         /\ \A i \in 1..Len(q) : Append(q, e)[i] = q[i]
  BY AppendProperties

\* Two states of an attempt: what it asks for is the same.
SameRequest(x, y) ==
  /\ x.call = y.call /\ x.slot = y.slot /\ x.server = y.server /\ x.hasCb = y.hasCb
  /\ x.tracer = y.tracer /\ x.retry = y.retry

\* Moving attempts changes where they are, and nothing else.
LEMMA PlaceFacts ==
  ASSUME NEW m, NEW k, attempts \in Seq(AttemptSet(m, k)), NEW as,
         NEW place \in Places \ {"held"}
  PROVE  /\ Place(as, place) \in Seq(AttemptSet(m, k))
         /\ Len(Place(as, place)) = Len(attempts) /\ DOMAIN Place(as, place) = DOMAIN attempts
         /\ \A a \in DOMAIN attempts : SameRequest(Place(as, place)[a], attempts[a])
         /\ \A a \in DOMAIN attempts \cap as : Place(as, place)[a].place = place
         /\ \A a \in DOMAIN attempts \ as : Place(as, place)[a] = attempts[a]
<1>1. DOMAIN attempts = 1..Len(attempts) /\ Len(attempts) \in Nat
  BY LenProperties
<1>2. ASSUME NEW x \in AttemptSet(m, k)
      PROVE  LET y == [x EXCEPT !.place = place]
             IN  y \in AttemptSet(m, k) /\ SameRequest(y, x) /\ y.place = place
  BY DEF AttemptSet, Attempts, SameRequest
<1>3. /\ DOMAIN Place(as, place) = 1..Len(attempts)
      /\ \A a \in 1..Len(attempts) :
           Place(as, place)[a] = IF a \in as THEN [attempts[a] EXCEPT !.place = place] ELSE attempts[a]
      /\ Place(as, place) = [a \in 1..Len(attempts) |-> Place(as, place)[a]]
  BY <1>1 DEF Place
<1>4. \A a \in 1..Len(attempts) : attempts[a] \in AttemptSet(m, k)
  BY <1>1
<1>5. \A a \in 1..Len(attempts) : Place(as, place)[a] \in AttemptSet(m, k)
  BY <1>2, <1>3, <1>4
<1>6. Place(as, place) \in Seq(AttemptSet(m, k)) /\ Len(Place(as, place)) = Len(attempts)
  <2> DEFINE p == Place(as, place)
             n == Len(attempts)
  <2>1. n \in Nat /\ p = [a \in 1..n |-> p[a]] /\ \A a \in 1..n : p[a] \in AttemptSet(m, k)
    BY <1>1, <1>3, <1>5
  <2> HIDE DEF p, n
  <2>2. p \in Seq(AttemptSet(m, k)) /\ Len(p) = n
    BY <2>1
  <2> QED
    BY <2>2 DEF p, n
<1>7. ASSUME NEW a \in DOMAIN attempts, a \in as
      PROVE  SameRequest(Place(as, place)[a], attempts[a]) /\ Place(as, place)[a].place = place
  <2>1. Place(as, place)[a] = [attempts[a] EXCEPT !.place = place] /\ attempts[a] \in AttemptSet(m, k)
    BY <1>1, <1>3, <1>4, <1>7
  <2>2. \A x \in AttemptSet(m, k) : /\ SameRequest([x EXCEPT !.place = place], x)
                                    /\ [x EXCEPT !.place = place].place = place
    BY <1>2
  <2> QED
    BY <2>1, <2>2, Zenon
<1>8. ASSUME NEW a \in DOMAIN attempts, a \notin as
      PROVE  Place(as, place)[a] = attempts[a]
  BY <1>1, <1>3, <1>8
<1>9. \A a \in DOMAIN attempts : SameRequest(Place(as, place)[a], attempts[a])
  <2>1. \A a \in DOMAIN attempts : SameRequest(attempts[a], attempts[a])
    BY DEF SameRequest
  <2> QED
    BY <1>7, <1>8, <2>1, Zenon
<1> QED
  BY <1>1, <1>3, <1>6, <1>7, <1>8, <1>9

\* The same for a request that a mailbox takes.
LEMMA HoldFacts ==
  ASSUME NEW m, NEW k \in Nat, attempts \in Seq(AttemptSet(m, k)), NEW a \in DOMAIN attempts,
         NEW b \in 1..k
  PROVE  /\ Hold(a, b) \in Seq(AttemptSet(m, k))
         /\ Len(Hold(a, b)) = Len(attempts) /\ DOMAIN Hold(a, b) = DOMAIN attempts
         /\ \A x \in DOMAIN attempts : SameRequest(Hold(a, b)[x], attempts[x])
         /\ Hold(a, b)[a].place = "held"
         /\ \A x \in DOMAIN attempts \ {a} : Hold(a, b)[x] = attempts[x]
<1> DEFINE y == [attempts[a] EXCEPT !.place = "held", !.box = b]
<1>1. /\ DOMAIN attempts = 1..Len(attempts) /\ Len(attempts) \in Nat
      /\ attempts[a] \in AttemptSet(m, k) /\ b \in Nat /\ b # 0 /\ b \in 0..k
  BY LenProperties
<1>2. Hold(a, b) = [attempts EXCEPT ![a] = y]
  <2>1. Hold(a, b) = [attempts EXCEPT ![a] = [[attempts[a] EXCEPT !.place = "held"] EXCEPT !.box = b]]
    BY DEF Hold
  <2> QED
    BY <2>1
<1>3. y \in AttemptSet(m, k) /\ SameRequest(y, attempts[a]) /\ y.place = "held"
  BY <1>1 DEF AttemptSet, Attempts, Places, SameRequest
<1> HIDE DEF y
<1>4. /\ DOMAIN Hold(a, b) = 1..Len(attempts)
      /\ \A x \in 1..Len(attempts) : Hold(a, b)[x] = IF x = a THEN y ELSE attempts[x]
  BY <1>1, <1>2
<1>5. \A x \in 1..Len(attempts) : Hold(a, b)[x] \in AttemptSet(m, k)
  BY <1>1, <1>3, <1>4
<1>6. Hold(a, b) \in Seq(AttemptSet(m, k)) /\ Len(Hold(a, b)) = Len(attempts)
  <2>1. Hold(a, b) = [x \in 1..Len(attempts) |-> Hold(a, b)[x]]
    BY <1>1, <1>2
  <2> QED
    BY <1>1, <1>5, <2>1
<1>7. \A x \in DOMAIN attempts : SameRequest(attempts[x], attempts[x])
  BY DEF SameRequest
<1> QED
  BY <1>1, <1>3, <1>4, <1>6, <1>7

LEMMA NewAttemptFacts ==
  ASSUME NEW m \in Nat, NEW k \in Nat, NEW c \in Calls, NEW slot \in Servers, NEW s \in Servers,
         NEW hasCb \in BOOLEAN, NEW tracer \in 0..m, NEW retry \in Nat
  PROVE  NewAttempt(c, slot, s, hasCb, tracer, retry) \in AttemptSet(m, k)
<1>1. NewAttempt(c, slot, s, hasCb, tracer, retry) \in Attempts
  <2>1. tracer \in Nat /\ 0 \in Nat
    OBVIOUS
  <2> QED
    BY <2>1 DEF NewAttempt, Attempts, Places
<1> QED
  BY <1>1 DEF NewAttempt, AttemptSet

LEMMA ShutFacts ==
  ASSUME NEW n, boxes \in Seq(BoxSet(n)), NEW bs
  PROVE  /\ Shut(bs) \in Seq(BoxSet(n)) /\ Len(Shut(bs)) = Len(boxes)
         /\ DOMAIN Shut(bs) = DOMAIN boxes
         /\ \A b \in DOMAIN boxes : /\ Shut(bs)[b].server = boxes[b].server
                                    /\ Shut(bs)[b].opener = boxes[b].opener
                                    /\ Shut(bs)[b].phase = IF b \in bs THEN "dead" ELSE boxes[b].phase
<1>1. DOMAIN boxes = 1..Len(boxes) /\ Len(boxes) \in Nat
  BY LenProperties
<1>2. ASSUME NEW x \in BoxSet(n)
      PROVE  LET y == [x EXCEPT !.phase = "dead"]
             IN  y \in BoxSet(n) /\ y.server = x.server /\ y.opener = x.opener /\ y.phase = "dead"
  BY DEF BoxSet, Boxes
<1>3. /\ DOMAIN Shut(bs) = 1..Len(boxes)
      /\ \A b \in 1..Len(boxes) :
           Shut(bs)[b] = IF b \in bs THEN [boxes[b] EXCEPT !.phase = "dead"] ELSE boxes[b]
      /\ Shut(bs) = [b \in 1..Len(boxes) |-> Shut(bs)[b]]
  BY <1>1 DEF Shut
<1>4. \A b \in 1..Len(boxes) : boxes[b] \in BoxSet(n)
  BY <1>1
<1>5. \A b \in 1..Len(boxes) : Shut(bs)[b] \in BoxSet(n)
  BY <1>2, <1>3, <1>4
<1>6. Shut(bs) \in Seq(BoxSet(n)) /\ Len(Shut(bs)) = Len(boxes)
  BY <1>1, <1>3, <1>5
<1> QED
  BY <1>1, <1>2, <1>3, <1>4, <1>6

LEMMA SpliceFacts ==
  ASSUME table \in Seq(Servers), NEW s
  PROVE  Splice(s) \in Seq(Servers)
<1>1. CASE s \in Range(table)
  <2> DEFINE index == CHOOSE i \in DOMAIN table : table[i] = s
  <2>1. index \in DOMAIN table
    BY <1>1 DEF Range
  <2> HIDE DEF index
  <2>2. /\ index \in 1..Len(table) /\ Len(table) \in Nat
    BY <2>1
  <2>3. SubSeq(table, 1, index - 1) \in Seq(Servers) /\ SubSeq(table, index + 1, Len(table)) \in Seq(Servers)
    <3>1. \A i \in 1..index - 1 : i \in 1..Len(table)
      BY <2>2
    <3>2. \A i \in index + 1..Len(table) : i \in 1..Len(table)
      BY <2>2
    <3> QED
      BY <2>2, <3>1, <3>2, SubSeqProperties
  <2>4. Splice(s) = SubSeq(table, 1, index - 1) \o SubSeq(table, index + 1, Len(table))
    BY <1>1 DEF Splice, index
  <2> QED
    BY <2>3, <2>4, ConcatProperties
<1>2. CASE s \notin Range(table)
  BY <1>2 DEF Splice
<1> QED
  BY <1>1, <1>2

-----------------------------------------------------------------------------
(* Type correctness.                                                       *)

LEMMA Wider ==
  ASSUME NEW n1 \in Nat, NEW n2 \in Nat, NEW m1 \in Nat, NEW m2 \in Nat, NEW k1 \in Nat,
         NEW k2 \in Nat, n1 <= n2, m1 <= m2, k1 <= k2
  PROVE  /\ TaskSet(n1, m1) \subseteq TaskSet(n2, m2)
         /\ AttemptSet(m1, k1) \subseteq AttemptSet(m2, k2)
         /\ BoxSet(n1) \subseteq BoxSet(n2) /\ TimerSet(n1, m1) \subseteq TimerSet(n2, m2)
  BY DEF TaskSet, AttemptSet, BoxSet, TimerSet

LEMMA OnlyElement ==
  ASSUME NEW S, NEW x \in S
  PROVE  <<x>> \in Seq(S)
  OBVIOUS

LEMMA WiderSeq ==
  ASSUME NEW S, NEW T, S \subseteq T, NEW q \in Seq(S)
  PROVE  q \in Seq(T)
  OBVIOUS

\* The sets above, opened.
LEMMA AttemptFields ==
  ASSUME NEW m \in Nat, NEW k \in Nat, NEW x \in AttemptSet(m, k)
  PROVE  /\ x.call \in Calls /\ x.slot \in Servers /\ x.server \in Servers /\ x.hasCb \in BOOLEAN
         /\ x.tracer \in 0..m /\ x.retry \in Nat /\ x.place \in Places /\ x.box \in 0..k
         /\ x.place = "held" => x.box \in 1..k
  BY DEF AttemptSet, Attempts

LEMMA TaskFields ==
  ASSUME NEW n \in Nat, NEW m \in Nat, NEW t \in TaskSet(n, m)
  PROVE  /\ t.do \in Dos /\ t.code \in RpcErrors \cup {"none"} /\ t.a \in 1..n
         /\ t.flag \in BOOLEAN /\ t.tracer \in 0..m
  BY DEF TaskSet, Tasks, Dos

LEMMA TypeInit ==
  ASSUME ClientAssumption, Init
  PROVE  Types
<1>1. LifeTypes /\ RetryTypes /\ AgendaTypes /\ AttemptTypes
  <2>1. \A S : <<>> \in Seq(S)
    OBVIOUS
  <2> QED
    BY <2>1 DEF Init, LifeTypes, RetryTypes, AgendaTypes, AttemptTypes
<1>2. InfoTypes
  <2>1. Cardinality(Servers) \in Nat
    BY FS_CardinalityType DEF ClientAssumption
  <2>2. known = Servers /\ table \in [1..Cardinality(Servers) -> Servers]
    BY DEF Init
  <2> QED
    BY <2>1, <2>2 DEF InfoTypes
<1>3. BoxTypes
  <2>1. boxes = <<>> /\ mailboxes = [s \in Servers |-> 0]
    BY DEF Init
  <2>2. boxes \in Seq(BoxSet(Len(attempts))) /\ Len(boxes) = 0
    BY <2>1
  <2> QED
    BY <2>1, <2>2 DEF BoxTypes
<1>4. UserTypes
  BY DEF Init, UserTypes, CallStates, Throws
<1> QED
  BY <1>1, <1>2, <1>3, <1>4 DEF Types

\* Steps that change the client's own state or a call that is settled at once.
LEMMA SettleTypes ==
  ASSUME Types, NEW c \in Calls, NEW kind \in {"one", "all", "ignored"}, NEW n \in Nat,
         NEW ok \in BOOLEAN, Settle(c, kind, n, ok)
  PROVE  Types'
<1>1. calls' \in [Calls -> CallStates]
  <2>1. calls \in [Calls -> CallStates]
    BY DEF Types, UserTypes
  <2>2. calls' = [[[calls EXCEPT ![c].kind = kind] EXCEPT ![c].reports = n] EXCEPT ![c].success = ok]
    BY DEF Settle
  <2>3. \A f \in [Calls -> CallStates] : /\ [f EXCEPT ![c].kind = kind] \in [Calls -> CallStates]
                                         /\ [f EXCEPT ![c].reports = n] \in [Calls -> CallStates]
                                         /\ [f EXCEPT ![c].success = ok] \in [Calls -> CallStates]
    BY DEF CallStates
  <2> QED
    BY <2>1, <2>2, <2>3, Zenon
<1>2. UserTypes'
  BY <1>1 DEF Types, UserTypes, Settle
<1> QED
  BY <1>2 DEF Types, Settle, LifeTypes, InfoTypes, BoxTypes, RetryTypes, AttemptTypes, AgendaTypes,
              lifeVars, infoVars, boxVars, retryVars

LEMMA LifeSteps ==
  ASSUME Types, Start \/ StartTick \/ Stop
  PROVE  Types'
<1>1. LifeTypes'
  <2>1. LifeTypes
    BY DEF Types
  <2>2. CASE Start
    BY <2>1, <2>2 DEF LifeTypes, Start
  <2>3. CASE StartTick
    <3>1. ticks' \in Nat /\ listeners' \in Nat /\ state' = "started"
      BY <2>1, <2>3 DEF LifeTypes, StartTick
    <3> QED
      BY <2>1, <2>3, <3>1 DEF LifeTypes, StartTick
  <2>4. CASE Stop
    BY <2>1, <2>4 DEF LifeTypes, Stop
  <2> QED
    BY <2>2, <2>3, <2>4
<1>2. UNCHANGED <<infoVars, workVars>>
  BY DEF Start, StartTick, Stop
<1> QED
  BY <1>1, <1>2 DEF Types, InfoTypes, BoxTypes, UserTypes, RetryTypes, AttemptTypes, AgendaTypes,
              infoVars, workVars, boxVars, retryVars, userVars

LEMMA AddTypes ==
  ASSUME Types, NEW s \in Servers, AddServer(s)
  PROVE  Types'
<1>1. LifeTypes' /\ InfoTypes'
  BY DEF Types, LifeTypes, InfoTypes, AddServer
<1>2. UNCHANGED workVars
  BY DEF AddServer
<1> QED
  BY <1>1, <1>2 DEF Types, BoxTypes, UserTypes, RetryTypes, AttemptTypes, AgendaTypes,
              workVars, boxVars, retryVars, userVars

LEMMA HeldFacts ==
  ASSUME Types, NEW bs
  PROVE  HeldBy(bs) \in SUBSET (1..Len(attempts))
  BY Sizes DEF HeldBy

\* The agenda that errors and callbacks make, before the rest of it.
LEMMA TaskOrders ==
  ASSUME Types, NEW a \in DOMAIN attempts
  PROVE  /\ a \in 1..Len(attempts) /\ a \in Nat
         /\ \A do \in Dos : <<Task(do, a)>> \in Seq(TaskSet(Len(attempts), Len(tracers)))
         /\ \A ok \in BOOLEAN : <<CallbackOf(a, ok)>> \in Seq(TaskSet(Len(attempts), Len(tracers)))
         /\ \A code \in RpcErrors, flag \in BOOLEAN, tracer \in 0..Len(tracers) :
              Emit(code, a, flag, tracer) \in Seq(TaskSet(Len(attempts), Len(tracers)))
         /\ attempts[a].tracer \in 0..Len(tracers) /\ attempts[a].server \in Servers
<1>1. a \in 1..Len(attempts) /\ Len(attempts) \in Nat /\ Len(tracers) \in Nat /\ Len(boxes) \in Nat
      /\ attempts[a] \in AttemptSet(Len(tracers), Len(boxes)) /\ listeners \in Nat
  BY Sizes
<1>2. \A do \in Dos : Task(do, a) \in TaskSet(Len(attempts), Len(tracers))
  BY <1>1, TaskFacts
<1>3. \A ok \in BOOLEAN : CallbackOf(a, ok) \in TaskSet(Len(attempts), Len(tracers))
  BY <1>1, TaskFacts
<1>4. attempts[a].tracer \in 0..Len(tracers) /\ attempts[a].server \in Servers
  BY <1>1, AttemptFields
<1> QED
  BY <1>1, <1>2, <1>3, <1>4, EmitFacts

\* Mailboxes are shut, some forgotten, and the requests they hold are lost.
LEMMA LoseTypes ==
  ASSUME Types, NEW bs, NEW forgotten, NEW lost,
         boxes' = Shut(bs), mailboxes' = Forget(forgotten), attempts' = Place(lost, "late"),
         tracers' = tracers
  PROVE  /\ BoxTypes' /\ AttemptTypes'
         /\ Len(attempts') = Len(attempts) /\ Len(boxes') = Len(boxes)
<1>1. boxes' \in Seq(BoxSet(Len(attempts))) /\ Len(boxes') = Len(boxes)
  BY Sizes, ShutFacts
<1>2. /\ attempts' \in Seq(AttemptSet(Len(tracers), Len(boxes))) /\ Len(attempts') = Len(attempts)
  <2>1. attempts \in Seq(AttemptSet(Len(tracers), Len(boxes)))
    BY Sizes
  <2> QED
    BY <2>1, PlaceFacts DEF Places
<1>3. mailboxes' \in [Servers -> 0..Len(boxes)]
  BY Sizes DEF Types, BoxTypes, Forget
<1> QED
  BY <1>1, <1>2, <1>3 DEF BoxTypes, AttemptTypes

LEMMA CloseTypes ==
  ASSUME Types, CloseAll
  PROVE  Types'
<1> DEFINE all == Range(mailboxes) \ {0}
           held == HeldBy(Open(all))
<1>1. /\ boxes' = Shut(all) /\ mailboxes' = Forget(Open(all)) /\ attempts' = Place(held, "late")
      /\ agenda' \in ForEach("lost", held) /\ held \in SUBSET (1..Len(attempts))
      /\ UNCHANGED <<failMode, state, ticks, listeners, counts, infoVars, retryVars, userVars>>
      /\ closing' = FALSE
  BY HeldFacts DEF CloseAll
<1> HIDE DEF all, held
<1>2. tracers' = tracers /\ timers' = timers
  BY <1>1 DEF retryVars
<1>3. /\ BoxTypes' /\ AttemptTypes' /\ Len(attempts') = Len(attempts)
  BY <1>1, <1>2, LoseTypes
<1>4. agenda' \in Seq(TaskSet(Len(attempts), Len(tracers)))
  BY <1>1, Sizes, ForEachFacts DEF Dos
<1>5. AgendaTypes' /\ RetryTypes'
  BY <1>2, <1>3, <1>4, Sizes DEF AgendaTypes, RetryTypes
<1>6. LifeTypes' /\ InfoTypes' /\ UserTypes'
  BY <1>1 DEF Types, LifeTypes, InfoTypes, UserTypes, infoVars, userVars
<1> QED
  BY <1>3, <1>5, <1>6 DEF Types

LEMMA RemoveTypes ==
  ASSUME Types, NEW s \in Servers, RemoveServer(s)
  PROVE  Types'
<1> DEFINE bs == {mailboxes[s]} \ {0}
           held == HeldBy(Open(bs))
<1>1. /\ boxes' = Shut(bs) /\ mailboxes' = Forget(bs) /\ attempts' = Place(held, "late")
      /\ agenda' \in ForEach("lost", held) /\ held \in SUBSET (1..Len(attempts))
      /\ known' = known \ {s} /\ table' = Splice(s)
      /\ UNCHANGED <<failMode, state, ticks, listeners, closing, retryVars, userVars>>
      /\ counts' = [counts EXCEPT !.changes = @ + 1]
  BY HeldFacts DEF RemoveServer
<1> HIDE DEF bs, held
<1>2. tracers' = tracers /\ timers' = timers
  BY <1>1 DEF retryVars
<1>3. /\ BoxTypes' /\ AttemptTypes' /\ Len(attempts') = Len(attempts)
  BY <1>1, <1>2, LoseTypes
<1>4. agenda' \in Seq(TaskSet(Len(attempts), Len(tracers)))
  BY <1>1, Sizes, ForEachFacts DEF Dos
<1>5. AgendaTypes' /\ RetryTypes'
  BY <1>2, <1>3, <1>4, Sizes DEF AgendaTypes, RetryTypes
<1>6. InfoTypes'
  BY <1>1, SpliceFacts DEF Types, InfoTypes
<1>7. LifeTypes' /\ UserTypes'
  BY <1>1 DEF Types, LifeTypes, UserTypes, userVars
<1> QED
  BY <1>3, <1>5, <1>6, <1>7 DEF Types

LEMMA EndedTypes ==
  ASSUME Types, NEW b \in DOMAIN boxes, MailboxEnded(b)
  PROVE  Types'
<1> DEFINE other == {mailboxes[boxes[b].server]} \ {0}
           ended == Open({b} \cup other)
<1>1. PICK own \in ForEach("lost", HeldBy({b})), others \in ForEach("lost", HeldBy(ended \ {b})) :
        agenda' = own \o others
  BY DEF MailboxEnded
<1>2. /\ boxes' = Shut({b} \cup other) /\ mailboxes' = Forget(other)
      /\ attempts' = Place(HeldBy(ended), "late")
      /\ UNCHANGED <<lifeVars, infoVars, retryVars, userVars>>
  BY DEF MailboxEnded
<1>3. tracers' = tracers /\ timers' = timers
  BY <1>2 DEF retryVars
<1>4. HeldBy({b}) \in SUBSET (1..Len(attempts)) /\ HeldBy(ended \ {b}) \in SUBSET (1..Len(attempts))
  BY HeldFacts
<1> HIDE DEF other, ended
<1>5. /\ BoxTypes' /\ AttemptTypes' /\ Len(attempts') = Len(attempts)
  BY <1>2, <1>3, LoseTypes
<1>6. own \in Seq(TaskSet(Len(attempts), Len(tracers)))
  BY <1>4, Sizes, ForEachFacts DEF Dos
<1>7. others \in Seq(TaskSet(Len(attempts), Len(tracers)))
  BY <1>4, Sizes, ForEachFacts DEF Dos
<1>8. agenda' \in Seq(TaskSet(Len(attempts), Len(tracers)))
  BY <1>1, <1>6, <1>7, ConcatElements
<1>9. AgendaTypes' /\ RetryTypes'
  BY <1>3, <1>5, <1>8, Sizes DEF AgendaTypes, RetryTypes
<1>10. LifeTypes' /\ InfoTypes' /\ UserTypes'
  BY <1>2 DEF Types, LifeTypes, InfoTypes, UserTypes, lifeVars, infoVars, userVars
<1> QED
  BY <1>5, <1>9, <1>10 DEF Types

\* Steps that make no attempt, no tracer and no mailbox.
LEMMA WorkTypes ==
  ASSUME Types, Len(attempts') = Len(attempts), tracers' = tracers, Len(boxes') = Len(boxes),
         timers' \subseteq timers,
         attempts' \in Seq(AttemptSet(Len(tracers), Len(boxes))),
         boxes' \in Seq(BoxSet(Len(attempts))), mailboxes' \in [Servers -> 0..Len(boxes)],
         agenda' \in Seq(TaskSet(Len(attempts), Len(tracers)))
  PROVE  BoxTypes' /\ RetryTypes' /\ AttemptTypes' /\ AgendaTypes'
  BY Sizes DEF BoxTypes, RetryTypes, AttemptTypes, AgendaTypes

\* A mailbox enters another phase.
LEMMA PhaseFacts ==
  ASSUME Types, NEW b \in DOMAIN boxes, NEW phase \in {"open", "dead"}
  PROVE  LET new == [boxes EXCEPT ![b].phase = phase]
         IN  /\ new \in Seq(BoxSet(Len(attempts))) /\ Len(new) = Len(boxes)
             /\ DOMAIN new = DOMAIN boxes
             /\ \A x \in DOMAIN boxes : /\ new[x].server = boxes[x].server
                                        /\ new[x].opener = boxes[x].opener
                                        /\ new[x].phase = IF x = b THEN phase ELSE boxes[x].phase
<1> DEFINE y == [boxes[b] EXCEPT !.phase = phase]
           B == BoxSet(Len(attempts))
<1>1. /\ boxes \in Seq(B) /\ Len(boxes) \in Nat /\ DOMAIN boxes = 1..Len(boxes)
      /\ \A x \in DOMAIN boxes : boxes[x] \in B
  BY Sizes
<1>2. y \in B /\ y.server = boxes[b].server /\ y.opener = boxes[b].opener /\ y.phase = phase
  BY <1>1 DEF BoxSet, Boxes
<1>3. [boxes EXCEPT ![b].phase = phase] = [boxes EXCEPT ![b] = y]
  OBVIOUS
<1> HIDE DEF y, B
<1>4. [boxes EXCEPT ![b] = y] \in Seq(B) /\ Len([boxes EXCEPT ![b] = y]) = Len(boxes)
  BY <1>1, <1>2
<1> QED
  BY <1>1, <1>2, <1>3, <1>4 DEF B

LEMMA ConnectedTypes ==
  ASSUME Types, NEW b \in DOMAIN boxes, MailboxConnected(b)
  PROVE  Types'
<1> DEFINE pending == {a \in DOMAIN attempts : attempts[a].place = "pending"
                                               /\ attempts[a].server = boxes[b].server}
<1>1. /\ boxes' = [boxes EXCEPT ![b].phase = "open"] /\ agenda' \in ForEach("dispatch", pending)
      /\ UNCHANGED <<lifeVars, infoVars, mailboxes, retryVars, userVars, attempts>>
      /\ pending \in SUBSET (1..Len(attempts))
  BY Sizes DEF MailboxConnected
<1> HIDE DEF pending
<1>2. boxes' \in Seq(BoxSet(Len(attempts))) /\ Len(boxes') = Len(boxes)
  BY <1>1, PhaseFacts
<1>3. agenda' \in Seq(TaskSet(Len(attempts), Len(tracers)))
  BY <1>1, Sizes, ForEachFacts DEF Dos
<1>4. mailboxes' \in [Servers -> 0..Len(boxes)]
  BY <1>1 DEF Types, BoxTypes
<1>5. LifeTypes' /\ InfoTypes' /\ UserTypes' /\ attempts' = attempts /\ tracers' = tracers
      /\ timers' = timers
  BY <1>1 DEF Types, LifeTypes, InfoTypes, UserTypes, lifeVars, infoVars, userVars, retryVars
<1> QED
  BY <1>2, <1>3, <1>4, <1>5, Sizes, WorkTypes DEF Types

LEMMA FailedTypes ==
  ASSUME Types, NEW b \in DOMAIN boxes, MailboxFailed(b)
  PROVE  Types'
<1> DEFINE a == boxes[b].opener
<1>1. /\ boxes' = [boxes EXCEPT ![b].phase = "dead"]
      /\ mailboxes' = [mailboxes EXCEPT ![boxes[b].server] = 0]
      /\ agenda' = Emit("FAIL_CONNECT_SERVER", a, TRUE, attempts[a].tracer)
      /\ UNCHANGED <<lifeVars, infoVars, retryVars, userVars, attempts>>
  BY DEF MailboxFailed
<1>2. boxes' \in Seq(BoxSet(Len(attempts))) /\ Len(boxes') = Len(boxes)
  BY <1>1, PhaseFacts
<1>3. a \in DOMAIN attempts /\ boxes[b].server \in Servers
  BY Sizes DEF BoxSet, Boxes
<1> HIDE DEF a
<1>4. agenda' \in Seq(TaskSet(Len(attempts), Len(tracers)))
  BY <1>1, <1>3, TaskOrders DEF RpcErrors
<1>5. mailboxes' \in [Servers -> 0..Len(boxes)]
  <2>1. mailboxes \in [Servers -> 0..Len(boxes)] /\ Len(boxes) \in Nat
    BY Sizes DEF Types, BoxTypes
  <2> QED
    BY <1>1, <1>3, <2>1
<1>6. LifeTypes' /\ InfoTypes' /\ UserTypes' /\ attempts' = attempts /\ tracers' = tracers
      /\ timers' = timers
  BY <1>1 DEF Types, LifeTypes, InfoTypes, UserTypes, lifeVars, infoVars, userVars, retryVars
<1> QED
  BY <1>2, <1>4, <1>5, <1>6, Sizes, WorkTypes DEF Types

\* Steps of one request that leave the mailboxes alone.
LEMMA AttemptStepTypes ==
  ASSUME Types, UNCHANGED <<lifeVars, infoVars, boxVars, retryVars, calls, thrown>>,
         served' \in [Calls -> SUBSET Servers],
         attempts' \in Seq(AttemptSet(Len(tracers), Len(boxes))), Len(attempts') = Len(attempts),
         agenda' \in Seq(TaskSet(Len(attempts), Len(tracers)))
  PROVE  Types'
<1>1. LifeTypes' /\ InfoTypes' /\ UserTypes'
  BY DEF Types, LifeTypes, InfoTypes, UserTypes, lifeVars, infoVars
<1>2. boxes' = boxes /\ mailboxes' = mailboxes /\ tracers' = tracers /\ timers' = timers
  BY DEF boxVars, retryVars
<1>3. boxes \in Seq(BoxSet(Len(attempts))) /\ mailboxes \in [Servers -> 0..Len(boxes)]
  BY DEF Types, BoxTypes
<1> QED
  BY <1>1, <1>2, <1>3, WorkTypes DEF Types

LEMMA FilterTypes ==
  ASSUME Types, NEW a \in DOMAIN attempts, FilterDone(a) \/ FilterFailed(a) \/ CbTimeout(a)
  PROVE  Types'
<1> DEFINE b == mailboxes[attempts[a].server]
           Q == Seq(TaskSet(Len(attempts), Len(tracers)))
           A == Seq(AttemptSet(Len(tracers), Len(boxes)))
<1>1. /\ UNCHANGED <<lifeVars, infoVars, boxVars, retryVars, calls, thrown>> /\ served' = served
      /\ served \in [Calls -> SUBSET Servers]
  BY DEF FilterDone, FilterFailed, CbTimeout, userVars, Types, UserTypes
<1>2. b \in 0..Len(boxes)
  BY TaskOrders DEF Types, BoxTypes
<1>5. attempts' \in A /\ Len(attempts') = Len(attempts)
  <2>1. attempts' = Place({a}, "done") \/ (b # 0 /\ attempts' = Hold(a, b))
    BY DEF FilterDone, FilterFailed, CbTimeout
  <2>2. attempts \in A
    BY Sizes
  <2>3. CASE attempts' = Place({a}, "done")
    BY <2>2, <2>3, PlaceFacts DEF Places
  <2>4. CASE b # 0 /\ attempts' = Hold(a, b)
    BY <1>2, <2>2, <2>4, Sizes, HoldFacts
  <2> QED
    BY <2>1, <2>3, <2>4
<1>6. agenda' \in Q
  <2>1. \/ agenda' = <<CallbackOf(a, FALSE)>>
                     \o Emit("FAIL_FIND_MAILBOX", a, FALSE, attempts[a].tracer)
        \/ agenda' = <<CallbackOf(a, FALSE)>> \o Emit("FILTER_ERROR", a, FALSE, attempts[a].tracer)
        \/ agenda' = <<Task("lost", a)>> \/ agenda' = agenda
    BY DEF FilterDone, FilterFailed, CbTimeout
  <2>2. /\ <<CallbackOf(a, FALSE)>> \in Q /\ <<Task("lost", a)>> \in Q /\ agenda \in Q
        /\ Emit("FAIL_FIND_MAILBOX", a, FALSE, attempts[a].tracer) \in Q
        /\ Emit("FILTER_ERROR", a, FALSE, attempts[a].tracer) \in Q
    BY TaskOrders, Sizes DEF RpcErrors, Dos
  <2> HIDE DEF Q
  <2>3. \A p, q \in Q : p \o q \in Q
    BY ConcatProperties DEF Q
  <2> QED
    BY <2>1, <2>2, <2>3
<1> QED
  BY <1>1, <1>5, <1>6, AttemptStepTypes

LEMMA AnswerTypes ==
  ASSUME Types, NEW a \in DOMAIN attempts, NEW ok \in BOOLEAN, NEW filtered \in BOOLEAN,
         Answer(a, ok, filtered)
  PROVE  Types'
<1> DEFINE Q == Seq(TaskSet(Len(attempts), Len(tracers)))
<1>1. attempts' \in Seq(AttemptSet(Len(tracers), Len(boxes))) /\ Len(attempts') = Len(attempts)
  BY Sizes, PlaceFacts DEF Answer, Places
<1>2. agenda' \in Q
  <2>1. <<CallbackOf(a, ok)>> \in Q
    BY TaskOrders
  <2>3. Emit("FILTER_ERROR", a, FALSE, 0) \in Q
    <3>1. 0 \in 0..Len(tracers) /\ "FILTER_ERROR" \in RpcErrors
      BY Sizes DEF RpcErrors
    <3> QED
      BY <3>1, TaskOrders
  <2>4. <<>> \in Q
    OBVIOUS
  <2>2. agenda' = (IF filtered THEN <<>> ELSE Emit("FILTER_ERROR", a, FALSE, 0))
                  \o <<CallbackOf(a, ok)>>
    BY DEF Answer
  <2> HIDE DEF Q
  <2> QED
    BY <2>1, <2>2, <2>3, <2>4, ConcatProperties DEF Q
<1>3. served' \in [Calls -> SUBSET Servers]
  BY TaskOrders DEF Answer, Types, UserTypes
<1> QED
  BY <1>1, <1>2, <1>3, AttemptStepTypes DEF Answer

\* The list of servers of a call.
QueueOf(q) == q \in Seq(Servers) /\ q # <<>> /\ IsInjective(q)

LEMMA InvokeTypes ==
  ASSUME Types, NEW c \in Calls, NEW kind \in {"one", "all"}, NEW q, QueueOf(q),
         Invoke(c, kind, q)
  PROVE  Types'
<1> DEFINE n == Len(attempts)
           new == [i \in DOMAIN q |-> NewAttempt(c, q[i], q[i], TRUE, 0, 0)]
           A == AttemptSet(Len(tracers), Len(boxes))
           T == TaskSet(n + Len(q), Len(tracers))
<1>1. /\ calls' = [calls EXCEPT ![c].kind = kind, ![c].targets = Range(q)]
      /\ attempts' = attempts \o new
      /\ agenda' = [i \in DOMAIN q |-> Task("dispatch", n + i)]
      /\ UNCHANGED <<lifeVars, infoVars, boxVars, retryVars, thrown, served>>
  BY DEF Invoke
<1>2. /\ q \in Seq(Servers) /\ DOMAIN q = 1..Len(q) /\ Len(q) \in Nat
      /\ \A i \in DOMAIN q : q[i] \in Servers
  BY DEF QueueOf
<1>3. /\ n \in Nat /\ Len(tracers) \in Nat /\ Len(boxes) \in Nat /\ attempts \in Seq(A)
      /\ boxes \in Seq(BoxSet(n)) /\ timers \subseteq TimerSet(n, Len(tracers))
      /\ tracers \in Seq(Nat)
  BY Sizes
<1>4. new \in Seq(A) /\ Len(new) = Len(q)
  <2>1. \A i \in DOMAIN q : NewAttempt(c, q[i], q[i], TRUE, 0, 0) \in A
    <3>1. 0 \in 0..Len(tracers) /\ 0 \in Nat
      BY <1>3
    <3> QED
      BY <1>2, <1>3, <3>1, NewAttemptFacts
  <2>2. \A i \in 1..Len(q) : new[i] \in A
    BY <1>2, <2>1
  <2>3. new = [i \in 1..Len(q) |-> new[i]]
    BY <1>2
  <2> HIDE DEF A, new
  <2> QED
    BY <1>2, <2>2, <2>3
<1>5. attempts' \in Seq(A) /\ Len(attempts') = n + Len(q)
  <2> HIDE DEF A, new
  <2> QED
    BY <1>1, <1>3, <1>4, ConcatProperties
<1>6. agenda' \in Seq(T)
  <2>1. \A i \in DOMAIN q : Task("dispatch", n + i) \in T
    <3> SUFFICES ASSUME NEW i \in DOMAIN q PROVE Task("dispatch", n + i) \in T
      OBVIOUS
    <3>1. n + Len(q) \in Nat /\ n + i \in 1..n + Len(q)
      BY <1>2, <1>3
    <3> QED
      BY <1>3, <3>1, TaskFacts DEF Dos
  <2> HIDE DEF T, n
  <2> QED
    BY <1>1, <1>2, <2>1
<1>7. boxes \in Seq(BoxSet(n + Len(q))) /\ timers \subseteq TimerSet(n + Len(q), Len(tracers))
  <2>1. n + Len(q) \in Nat /\ n <= n + Len(q)
    BY <1>2, <1>3
  <2>2. BoxSet(n) \subseteq BoxSet(n + Len(q))
        /\ TimerSet(n, Len(tracers)) \subseteq TimerSet(n + Len(q), Len(tracers))
    BY <1>3, <2>1, Wider
  <2> QED
    BY <1>3, <2>2, WiderSeq
<1>8. UserTypes'
  <2>1. calls \in [Calls -> CallStates]
    BY DEF Types, UserTypes
  <2>2. Range(q) \in SUBSET Servers
    BY <1>2 DEF Range
  <2>3. calls' \in [Calls -> CallStates]
    BY <1>1, <2>1, <2>2 DEF CallStates
  <2> QED
    BY <1>1, <2>3 DEF Types, UserTypes
<1> HIDE DEF n, A, T, new
<1>9. boxes' = boxes /\ mailboxes' = mailboxes /\ tracers' = tracers /\ timers' = timers
  BY <1>1 DEF boxVars, retryVars
<1>10. BoxTypes' /\ RetryTypes'
  BY <1>3, <1>5, <1>7, <1>9 DEF BoxTypes, RetryTypes, Types
<1>11. AttemptTypes' /\ AgendaTypes'
  BY <1>5, <1>6, <1>9 DEF AttemptTypes, AgendaTypes, A, T
<1>12. LifeTypes' /\ InfoTypes'
  BY <1>1 DEF Types, LifeTypes, InfoTypes, lifeVars, infoVars
<1> QED
  BY <1>8, <1>10, <1>11, <1>12 DEF Types

LEMMA OneServer ==
  ASSUME NEW s \in Servers
  PROVE  QueueOf(<<s>>) /\ Len(<<s>>) = 1 /\ <<s>>[1] = s /\ Range(<<s>>) = {s}
  BY DEF QueueOf, IsInjective, Range

LEMMA ListsFacts ==
  ASSUME ClientAssumption, NEW q \in Lists, q # <<>>
  PROVE  QueueOf(q)
<1>1. PICK n \in 0..Cardinality(Servers) : q \in [1..n -> Servers] /\ IsInjective(q)
  BY DEF Lists
<1>2. Cardinality(Servers) \in Nat
  BY FS_CardinalityType DEF ClientAssumption
<1> QED
  BY <1>1, <1>2 DEF QueueOf

LEMMA CallTypes ==
  ASSUME ClientAssumption, Types, NEW c \in Calls,
         \/ ProxyIgnored(c) \/ RpcRejected(c)
         \/ \E s \in DefRoute : RpcInvoke(c, s)
         \/ \E q \in Lists : RpcToAll(c, q)
  PROVE  Types'
<1>1. CASE ProxyIgnored(c) \/ RpcRejected(c)
  BY <1>1, SettleTypes DEF ProxyIgnored, RpcRejected
<1>2. ASSUME NEW s \in DefRoute, RpcInvoke(c, s) PROVE Types'
  <2>1. Invoke(c, "one", <<s>>) \/ Settle(c, "one", 1, FALSE)
    BY <1>2 DEF RpcInvoke
  <2> QED
    BY <2>1, OneServer, InvokeTypes, SettleTypes DEF DefRoute
<1>3. ASSUME NEW q \in Lists, RpcToAll(c, q) PROVE Types'
  <2>1. CASE q = <<>>
    BY <1>3, <2>1, SettleTypes DEF RpcToAll
  <2>2. CASE q # <<>>
    BY <1>3, <2>2, ListsFacts, InvokeTypes DEF RpcToAll
  <2> QED
    BY <2>1, <2>2
<1> QED
  BY <1>1, <1>2, <1>3

LEMMA RetryConnectTypes ==
  ASSUME Types, NEW t \in timers, RetryConnect(t)
  PROVE  Types'
<1> DEFINE s == attempts[t.a].server
           Q == Seq(TaskSet(Len(attempts), Len(tracers)))
<1>1. UNCHANGED <<lifeVars, infoVars, boxes, calls, attempts, tracers, served>>
  BY DEF RetryConnect
<1>2. t \in TimerSet(Len(attempts), Len(tracers)) /\ t.a \in DOMAIN attempts
      /\ t.tracer \in 0..Len(tracers)
  BY Sizes DEF TimerSet
<1>3. s \in Servers
  BY <1>2, TaskOrders
<1> HIDE DEF s
<1>4. /\ agenda' \in Q /\ timers' \subseteq timers /\ mailboxes' \in [Servers -> 0..Len(boxes)]
      /\ thrown' \in Throws
  <2>1. mailboxes \in [Servers -> 0..Len(boxes)] /\ thrown \in Throws /\ Len(boxes) \in Nat
    BY Sizes DEF Types, BoxTypes, UserTypes
  <2>2. \/ Throw("no mailbox") /\ UNCHANGED mailboxes
        \/ /\ timers' = timers \ {t}
           /\ mailboxes' = [mailboxes EXCEPT ![s] = 0]
           /\ agenda' = Emit("FAIL_CONNECT_SERVER", t.a, TRUE, t.tracer)
           /\ UNCHANGED thrown
    BY DEF RetryConnect, s
  <2>3. Emit("FAIL_CONNECT_SERVER", t.a, TRUE, t.tracer) \in Q
    BY <1>2, TaskOrders DEF RpcErrors
  <2>4. CASE Throw("no mailbox") /\ UNCHANGED mailboxes
    <3>1. <<>> \in Q
      OBVIOUS
    <3> HIDE DEF Q
    <3> QED
      BY <2>1, <2>4, <3>1 DEF Throw, Throws
  <2>5. CASE /\ timers' = timers \ {t}
             /\ mailboxes' = [mailboxes EXCEPT ![s] = 0]
             /\ agenda' = Emit("FAIL_CONNECT_SERVER", t.a, TRUE, t.tracer)
             /\ UNCHANGED thrown
    <3>1. [mailboxes EXCEPT ![s] = 0] \in [Servers -> 0..Len(boxes)]
      BY <1>3, <2>1
    <3> HIDE DEF Q
    <3> QED
      BY <2>1, <2>3, <2>5, <3>1
  <2> QED
    BY <2>2, <2>4, <2>5
<1>5. LifeTypes' /\ InfoTypes' /\ UserTypes'
  BY <1>1, <1>4 DEF Types, LifeTypes, InfoTypes, UserTypes, lifeVars, infoVars
<1> QED
  BY <1>1, <1>4, <1>5, Sizes, WorkTypes DEF Types

\* One attempt more.
LEMMA OneMore ==
  ASSUME Types, NEW x \in AttemptSet(Len(tracers), Len(boxes)), attempts' = Append(attempts, x),
         UNCHANGED <<boxVars, tracers>>, timers' \subseteq timers
  PROVE  /\ BoxTypes' /\ RetryTypes' /\ AttemptTypes'
         /\ Len(attempts') = Len(attempts) + 1
         /\ Seq(TaskSet(Len(attempts), Len(tracers))) \subseteq Seq(TaskSet(Len(attempts'), Len(tracers')))
         /\ <<Task("dispatch", Len(attempts) + 1)>> \in Seq(TaskSet(Len(attempts'), Len(tracers')))
<1>1. /\ Len(attempts) \in Nat /\ Len(tracers) \in Nat /\ Len(boxes) \in Nat
      /\ attempts \in Seq(AttemptSet(Len(tracers), Len(boxes)))
      /\ boxes \in Seq(BoxSet(Len(attempts))) /\ tracers \in Seq(Nat)
      /\ timers \subseteq TimerSet(Len(attempts), Len(tracers))
  BY Sizes
<1>2. Len(attempts') = Len(attempts) + 1 /\ AttemptTypes'
  BY <1>1, AppendProperties DEF AttemptTypes, boxVars
<1>3. /\ BoxSet(Len(attempts)) \subseteq BoxSet(Len(attempts'))
      /\ TimerSet(Len(attempts), Len(tracers)) \subseteq TimerSet(Len(attempts'), Len(tracers))
      /\ TaskSet(Len(attempts), Len(tracers)) \subseteq TaskSet(Len(attempts'), Len(tracers))
  BY <1>1, <1>2, Wider
<1>4. /\ boxes \in Seq(BoxSet(Len(attempts')))
      /\ Seq(TaskSet(Len(attempts), Len(tracers))) \subseteq Seq(TaskSet(Len(attempts'), Len(tracers)))
  BY <1>1, <1>3, WiderSeq
<1>5. BoxTypes' /\ RetryTypes'
  BY <1>1, <1>3, <1>4 DEF BoxTypes, RetryTypes, boxVars, Types
<1>6. Task("dispatch", Len(attempts) + 1) \in TaskSet(Len(attempts'), Len(tracers))
  <2>1. Len(attempts') \in Nat /\ Len(attempts) + 1 \in 1..Len(attempts')
    BY <1>1, <1>2
  <2> QED
    BY <1>1, <2>1, TaskFacts DEF Dos
<1> QED
  BY <1>2, <1>4, <1>5, <1>6

LEMMA RetryDispatchTypes ==
  ASSUME Types, NEW t \in timers, RetryDispatch(t)
  PROVE  Types'
<1> DEFINE a == attempts[t.a]
           x == NewAttempt(a.call, a.slot, a.server, FALSE, t.tracer, t.retry)
<1>1. /\ timers' = timers \ {t} /\ attempts' = Append(attempts, x)
      /\ agenda' = <<Task("dispatch", Len(attempts) + 1)>>
      /\ UNCHANGED <<lifeVars, infoVars, boxVars, userVars, tracers>>
  BY DEF RetryDispatch
<1>2. /\ t \in TimerSet(Len(attempts), Len(tracers)) /\ t.a \in DOMAIN attempts
      /\ t.tracer \in 0..Len(tracers) /\ t.retry \in Nat
  BY Sizes DEF TimerSet, Timers
<1>3. a.call \in Calls /\ a.slot \in Servers /\ a.server \in Servers
  BY <1>2, Sizes, AttemptFields
<1>4. x \in AttemptSet(Len(tracers), Len(boxes))
  BY <1>2, <1>3, Sizes, NewAttemptFacts
<1> HIDE DEF a, x
<1>5. BoxTypes' /\ RetryTypes' /\ AttemptTypes' /\ AgendaTypes'
  BY <1>1, <1>4, OneMore DEF AgendaTypes
<1>6. LifeTypes' /\ InfoTypes' /\ UserTypes'
  BY <1>1 DEF Types, LifeTypes, InfoTypes, UserTypes, lifeVars, infoVars, userVars
<1> QED
  BY <1>5, <1>6 DEF Types

\* A tracer that is new, or counts one more retry.
LEMMA CountedFacts ==
  ASSUME Types, NEW n \in 0..Len(tracers)
  PROVE  LET k == IF n = 0 THEN Len(tracers) + 1 ELSE n
         IN  /\ Counted(n) \in Seq(Nat) /\ k \in DOMAIN Counted(n) /\ k \in 1..Len(Counted(n))
             /\ Len(Counted(n)) >= Len(tracers) /\ Len(Counted(n)) \in Nat
             /\ \A i \in DOMAIN tracers : /\ i \in DOMAIN Counted(n)
                                          /\ Counted(n)[i] = IF i = k THEN tracers[i] + 1 ELSE tracers[i]
             /\ k \notin DOMAIN tracers => n = 0 /\ Counted(n)[k] = 1
<1>1. tracers \in Seq(Nat) /\ Len(tracers) \in Nat /\ DOMAIN tracers = 1..Len(tracers)
  BY Sizes
<1>2. CASE n = 0
  <2>1. Counted(n) = Append(tracers, 1)
    BY <1>2 DEF Counted
  <2> QED
    BY <1>1, <1>2, <2>1, AppendProperties
<1>3. CASE n # 0
  <2>1. Counted(n) = [tracers EXCEPT ![n] = tracers[n] + 1] /\ n \in DOMAIN tracers
        /\ tracers[n] + 1 \in Nat
    BY <1>1, <1>3 DEF Counted
  <2>2. Counted(n) \in Seq(Nat) /\ Len(Counted(n)) = Len(tracers)
    BY <1>1, <2>1
  <2> QED
    BY <1>1, <1>3, <2>1, <2>2
<1> QED
  BY <1>2, <1>3

\* The task at hand and the rest of the agenda.
LEMMA HeadFacts ==
  ASSUME Types, agenda # <<>>
  PROVE  LET t == Head(agenda)
             T == TaskSet(Len(attempts), Len(tracers))
         IN  /\ t \in T /\ t.a \in DOMAIN attempts /\ t.tracer \in 0..Len(tracers)
             /\ t.flag \in BOOLEAN /\ Tail(agenda) \in Seq(T)
             /\ 1 \in DOMAIN agenda /\ t = agenda[1]
<1> DEFINE t == Head(agenda)
           T == TaskSet(Len(attempts), Len(tracers))
<1>1. agenda \in Seq(T) /\ Len(attempts) \in Nat /\ Len(tracers) \in Nat
      /\ DOMAIN attempts = 1..Len(attempts)
  BY Sizes
<1> HIDE DEF T
<1>2. t \in T /\ Tail(agenda) \in Seq(T) /\ 1 \in DOMAIN agenda /\ t = agenda[1]
  BY <1>1, RestElements
<1> HIDE DEF t
<1>3. t.a \in 1..Len(attempts) /\ t.tracer \in 0..Len(tracers) /\ t.flag \in BOOLEAN
  BY <1>1, <1>2, TaskFields DEF T
<1> QED
  BY <1>1, <1>2, <1>3 DEF t, T

LEMMA LostTypes ==
  ASSUME Types, agenda # <<>>, agenda' = SendFailed(Head(agenda).a) \o Tail(agenda),
         UNCHANGED <<lifeVars, infoVars, boxVars, retryVars, userVars, attempts>>
  PROVE  Types'
<1> DEFINE a == Head(agenda).a
           Q == Seq(TaskSet(Len(attempts), Len(tracers)))
<1>1. a \in DOMAIN attempts /\ Tail(agenda) \in Q
  BY HeadFacts
<1> HIDE DEF a
<1>2. /\ Emit("FAIL_SEND_MESSAGE", a, FALSE, attempts[a].tracer) \in Q
      /\ <<CallbackOf(a, FALSE)>> \in Q
  BY <1>1, TaskOrders DEF RpcErrors
<1>3. agenda' = (Emit("FAIL_SEND_MESSAGE", a, FALSE, attempts[a].tracer)
                 \o <<CallbackOf(a, FALSE)>>) \o Tail(agenda)
  BY DEF SendFailed, a
<1>4. agenda' \in Q
  BY <1>1, <1>2, <1>3, ConcatProperties
<1>5. served \in [Calls -> SUBSET Servers] /\ attempts \in Seq(AttemptSet(Len(tracers), Len(boxes)))
  BY Sizes DEF Types, UserTypes
<1> QED
  BY <1>4, <1>5, AttemptStepTypes DEF userVars

LEMMA EachNextTypes ==
  ASSUME NEW call \in CallStates, NEW slot \in Servers, NEW ok \in BOOLEAN
  PROVE  LET n == EachNext(call, slot, ok)
             good == IF ok THEN call.good \cup {slot} ELSE call.good
         IN  /\ n \in CallStates /\ n.kind = call.kind /\ n.targets = call.targets
             /\ n.called = call.called \cup {slot} /\ n.good = good
             /\ n.reports = IF ~ok \/ good = call.targets THEN 1 ELSE call.reports
             /\ n.success = (call.success \/ good = call.targets)
  BY DEF EachNext, CallStates

\* What the callback of an attempt does to the calls.
LEMMA CallbackCases ==
  ASSUME Types, NEW a \in DOMAIN attempts, NEW ok \in BOOLEAN, NEW rest,
         RunCallback(a, ok, rest)
  PROVE  LET c == attempts[a].call
             slot == attempts[a].slot
         IN  /\ c \in Calls /\ slot \in Servers
             /\ \/ /\ Throw("callback called twice") /\ UNCHANGED calls
                   /\ attempts[a].hasCb /\ calls[c].kind = "all" /\ slot \in calls[c].called
                \/ /\ agenda' = rest /\ UNCHANGED <<timers, thrown>>
                   /\ \/ ~attempts[a].hasCb /\ calls' = calls
                      \/ /\ attempts[a].hasCb /\ calls[c].kind = "all" /\ slot \notin calls[c].called
                         /\ calls' = [calls EXCEPT ![c] = EachNext(calls[c], slot, ok)]
                      \/ /\ attempts[a].hasCb /\ calls[c].kind # "all"
                         /\ calls' = [calls EXCEPT ![c].reports = @ + 1]
<1>1. attempts[a].call \in Calls /\ attempts[a].slot \in Servers
  BY Sizes, AttemptFields
<1> QED
  BY <1>1 DEF RunCallback

LEMMA CallbackTypes ==
  ASSUME Types, agenda # <<>>, RunCallback(Head(agenda).a, Head(agenda).flag, Tail(agenda)),
         UNCHANGED <<lifeVars, infoVars, boxVars, tracers, attempts, served>>
  PROVE  Types'
<1> DEFINE a == Head(agenda).a
           c == attempts[a].call
           slot == attempts[a].slot
           ok == Head(agenda).flag
           Q == Seq(TaskSet(Len(attempts), Len(tracers)))
<1>1. a \in DOMAIN attempts /\ ok \in BOOLEAN /\ Tail(agenda) \in Q
  BY HeadFacts
<1>2. calls \in [Calls -> CallStates] /\ thrown \in Throws
  BY DEF Types, UserTypes
<1>3. RunCallback(a, ok, Tail(agenda))
  OBVIOUS
<1> HIDE DEF a, ok
<1>4. calls' \in [Calls -> CallStates]
  <2>1. c \in Calls /\ slot \in Servers
    BY <1>1, <1>3, CallbackCases
  <2>2. EachNext(calls[c], slot, ok) \in CallStates
    BY <1>1, <1>2, <2>1, EachNextTypes
  <2>3. [calls EXCEPT ![c].reports = @ + 1] \in [Calls -> CallStates]
    BY <1>2, <2>1 DEF CallStates
  <2>4. \/ calls' = calls \/ calls' = [calls EXCEPT ![c] = EachNext(calls[c], slot, ok)]
        \/ calls' = [calls EXCEPT ![c].reports = @ + 1]
    BY <1>1, <1>3, CallbackCases
  <2> HIDE DEF c, slot
  <2> QED
    BY <1>2, <2>1, <2>2, <2>3, <2>4
<1>5. agenda' \in Q /\ thrown' \in Throws /\ timers' \subseteq timers
  <2>1. <<>> \in Q
    OBVIOUS
  <2>2. Throw("callback called twice") \/ (agenda' = Tail(agenda) /\ UNCHANGED <<timers, thrown>>)
    BY <1>3 DEF RunCallback
  <2> HIDE DEF Q
  <2> QED
    BY <1>1, <1>2, <2>1, <2>2 DEF Throw, Throws
<1>6. LifeTypes' /\ InfoTypes' /\ UserTypes'
  BY <1>4, <1>5 DEF Types, LifeTypes, InfoTypes, UserTypes, lifeVars, infoVars
<1> QED
  BY <1>5, <1>6, Sizes, WorkTypes DEF Types, BoxTypes, boxVars

LEMMA DispatchTypes ==
  ASSUME Types, agenda # <<>>, RunDispatch(Head(agenda).a, Tail(agenda)),
         UNCHANGED <<lifeVars, infoVars, retryVars, calls, thrown, served>>
  PROVE  Types'
<1> DEFINE a == Head(agenda).a
           rest == Tail(agenda)
           s == attempts[a].server
           Q == Seq(TaskSet(Len(attempts), Len(tracers)))
<1>1. a \in DOMAIN attempts /\ rest \in Q /\ s \in Servers /\ a \in 1..Len(attempts)
  BY HeadFacts, TaskOrders
<1>2. /\ Len(attempts) \in Nat /\ Len(tracers) \in Nat /\ Len(boxes) \in Nat
      /\ boxes \in Seq(BoxSet(Len(attempts))) /\ mailboxes \in [Servers -> 0..Len(boxes)]
      /\ attempts \in Seq(AttemptSet(Len(tracers), Len(boxes)))
  BY Sizes DEF Types, BoxTypes
<1>3. /\ \A code \in RpcErrors : Emit(code, a, TRUE, attempts[a].tracer) \o rest \in Q
  <2>1. \A code \in RpcErrors : Emit(code, a, TRUE, attempts[a].tracer) \in Q
    BY <1>1, TaskOrders
  <2> QED
    BY <1>1, <2>1, ConcatProperties
<1>4. \A place \in Places \ {"held"} :
        /\ Place({a}, place) \in Seq(AttemptSet(Len(tracers), Len(boxes)))
        /\ Len(Place({a}, place)) = Len(attempts)
  BY <1>2, PlaceFacts
<1>5. \/ /\ UNCHANGED boxVars
         /\ \E place \in Places \ {"held"} : attempts' = Place({a}, place)
         /\ agenda' = rest \/ \E code \in RpcErrors :
                                agenda' = Emit(code, a, TRUE, attempts[a].tracer) \o rest
      \/ /\ boxes' = Append(boxes, [server |-> s, phase |-> "connecting", opener |-> a])
         /\ mailboxes' = [mailboxes EXCEPT ![s] = Len(boxes) + 1]
         /\ attempts' = Place({a}, "pending") /\ agenda' = rest
  BY Zenon DEF RunDispatch, RpcErrors, Places
<1> HIDE DEF a, rest, s
<1>6. CASE /\ UNCHANGED boxVars
           /\ \E place \in Places \ {"held"} : attempts' = Place({a}, place)
           /\ agenda' = rest \/ \E code \in RpcErrors :
                                  agenda' = Emit(code, a, TRUE, attempts[a].tracer) \o rest
  <2>1. served \in [Calls -> SUBSET Servers]
    BY DEF Types, UserTypes
  <2>2. agenda' \in Q
    BY <1>1, <1>3, <1>6
  <2> QED
    BY <1>4, <1>6, <2>1, <2>2, AttemptStepTypes
<1>7. CASE /\ boxes' = Append(boxes, [server |-> s, phase |-> "connecting", opener |-> a])
           /\ mailboxes' = [mailboxes EXCEPT ![s] = Len(boxes) + 1]
           /\ attempts' = Place({a}, "pending") /\ agenda' = rest
  <2>1. [server |-> s, phase |-> "connecting", opener |-> a] \in BoxSet(Len(attempts))
    BY <1>1, <1>2 DEF BoxSet, Boxes
  <2>2. boxes' \in Seq(BoxSet(Len(attempts))) /\ Len(boxes') = Len(boxes) + 1
    BY <1>2, <1>7, <2>1, AppendProperties
  <2>3. mailboxes' \in [Servers -> 0..Len(boxes')]
    BY <1>1, <1>2, <1>7, <2>2
  <2>4. /\ attempts' \in Seq(AttemptSet(Len(tracers), Len(boxes')))
        /\ Len(attempts') = Len(attempts)
    <3>1. /\ Place({a}, "pending") \in Seq(AttemptSet(Len(tracers), Len(boxes)))
          /\ Len(Place({a}, "pending")) = Len(attempts)
      BY <1>4 DEF Places
    <3>2. AttemptSet(Len(tracers), Len(boxes)) \subseteq AttemptSet(Len(tracers), Len(boxes'))
      BY <1>2, <2>2, Wider
    <3> QED
      BY <1>7, <3>1, <3>2, WiderSeq
  <2>5. BoxTypes' /\ RetryTypes' /\ AttemptTypes' /\ AgendaTypes'
    BY <1>1, <1>7, <2>2, <2>3, <2>4, Sizes
    DEF BoxTypes, RetryTypes, AttemptTypes, AgendaTypes, retryVars
  <2>6. LifeTypes' /\ InfoTypes' /\ UserTypes'
    BY DEF Types, LifeTypes, InfoTypes, UserTypes, lifeVars, infoVars
  <2> QED
    BY <2>5, <2>6 DEF Types
<1> QED
  BY <1>5, <1>6, <1>7

LEMMA FailFastTypes ==
  ASSUME Types, agenda # <<>>, FailFast(Head(agenda), Tail(agenda)),
         UNCHANGED <<lifeVars, served, known, boxVars, calls>>
  PROVE  Types'
<1> DEFINE a == Head(agenda).a
           Q == Seq(TaskSet(Len(attempts), Len(tracers)))
<1>1. a \in DOMAIN attempts /\ Tail(agenda) \in Q
  BY HeadFacts
<1>2. <<CallbackOf(a, FALSE)>> \in Q /\ <<CallbackOf(a, FALSE)>> \o Tail(agenda) \in Q
      /\ <<>> \o Tail(agenda) \in Q
  <2>1. <<CallbackOf(a, FALSE)>> \in Q
    BY <1>1, TaskOrders
  <2>2. <<>> \in Q
    OBVIOUS
  <2> QED
    BY <1>1, <2>1, <2>2, ConcatProperties
<1>3. agenda' \in Q
  BY <1>2 DEF FailFast
<1>4. UNCHANGED <<table, attempts, retryVars, thrown>>
  BY DEF FailFast
<1>5. served \in [Calls -> SUBSET Servers] /\ attempts \in Seq(AttemptSet(Len(tracers), Len(boxes)))
  BY Sizes DEF Types, UserTypes
<1> QED
  BY <1>3, <1>4, <1>5, AttemptStepTypes DEF infoVars

LEMMA FailOverTypes ==
  ASSUME Types, agenda # <<>>, FailOver(Head(agenda), Tail(agenda)),
         UNCHANGED <<lifeVars, served, known, boxVars, calls>>
  PROVE  Types'
<1> DEFINE t == Head(agenda)
           rest == Tail(agenda)
           a == attempts[t.a]
           others == Splice(a.server)
           x == NewAttempt(a.call, a.slot, Head(others), t.flag /\ a.hasCb, 0, 0)
           Q == Seq(TaskSet(Len(attempts), Len(tracers)))
<1>1. t.a \in DOMAIN attempts /\ rest \in Q /\ t.flag \in BOOLEAN
  BY HeadFacts
<1>2. /\ a.call \in Calls /\ a.slot \in Servers /\ a.server \in Servers /\ a.hasCb \in BOOLEAN
      /\ Len(tracers) \in Nat /\ Len(boxes) \in Nat
  BY <1>1, Sizes, AttemptFields
<1>3. table \in Seq(Servers) /\ others \in Seq(Servers)
  BY SpliceFacts DEF Types, InfoTypes
<1>4. tracers' = tracers /\ thrown \in Throws
  BY DEF FailOver, Types, UserTypes
<1>5. \/ /\ \E what \in Throws : Throw(what)
         /\ table' \in {table, others} /\ UNCHANGED attempts
      \/ /\ agenda' = <<CallbackOf(t.a, FALSE)>> \o rest /\ UNCHANGED <<timers, thrown>>
         /\ table' = others /\ UNCHANGED attempts
      \/ /\ others # <<>> /\ table' = others /\ attempts' = Append(attempts, x)
         /\ agenda' = <<Task("dispatch", Len(attempts) + 1)>> \o rest
         /\ UNCHANGED <<timers, thrown>>
  BY DEF FailOver, Throws
<1> HIDE DEF t, rest, a, others
<1>6. CASE \/ /\ \E what \in Throws : Throw(what)
              /\ table' \in {table, others} /\ UNCHANGED attempts
           \/ /\ agenda' = <<CallbackOf(t.a, FALSE)>> \o rest /\ UNCHANGED <<timers, thrown>>
              /\ table' = others /\ UNCHANGED attempts
  <2>1. <<>> \in Q
    OBVIOUS
  <2>2. <<CallbackOf(t.a, FALSE)>> \o rest \in Q
    BY <1>1, TaskOrders, ConcatProperties
  <2> HIDE DEF Q
  <2>3. agenda' \in Q /\ timers' \subseteq timers /\ thrown' \in Throws /\ attempts' = attempts
        /\ table' \in Seq(Servers)
    BY <1>3, <1>4, <1>6, <2>1, <2>2 DEF Throw
  <2>4. BoxTypes' /\ RetryTypes' /\ AttemptTypes' /\ AgendaTypes'
    BY <1>4, <2>3, Sizes, WorkTypes DEF Types, BoxTypes, boxVars, Q
  <2>5. LifeTypes' /\ InfoTypes' /\ UserTypes'
    BY <2>3 DEF Types, LifeTypes, InfoTypes, UserTypes, lifeVars
  <2> QED
    BY <2>4, <2>5 DEF Types
<1>7. CASE /\ others # <<>> /\ table' = others /\ attempts' = Append(attempts, x)
           /\ agenda' = <<Task("dispatch", Len(attempts) + 1)>> \o rest
           /\ UNCHANGED <<timers, thrown>>
  <2>1. Head(others) \in Servers
    BY <1>3, <1>7, RestElements
  <2>2. x \in AttemptSet(Len(tracers), Len(boxes))
    <3>1. 0 \in 0..Len(tracers) /\ 0 \in Nat /\ (t.flag /\ a.hasCb) \in BOOLEAN
      BY <1>1, <1>2
    <3> QED
      BY <1>2, <2>1, <3>1, NewAttemptFacts
  <2> HIDE DEF x
  <2>3. /\ BoxTypes' /\ RetryTypes' /\ AttemptTypes'
        /\ Q \subseteq Seq(TaskSet(Len(attempts'), Len(tracers)))
        /\ <<Task("dispatch", Len(attempts) + 1)>> \in Seq(TaskSet(Len(attempts'), Len(tracers)))
    BY <1>4, <1>7, <2>2, OneMore
  <2>4. AgendaTypes'
    <3>1. rest \in Seq(TaskSet(Len(attempts'), Len(tracers)))
      BY <1>1, <2>3
    <3> QED
      BY <1>4, <1>7, <2>3, <3>1, ConcatProperties DEF AgendaTypes
  <2>5. LifeTypes' /\ InfoTypes' /\ UserTypes'
    BY <1>3, <1>7 DEF Types, LifeTypes, InfoTypes, UserTypes, lifeVars
  <2> QED
    BY <2>3, <2>4, <2>5 DEF Types
<1> QED
  BY <1>5, <1>6, <1>7

\* What failsafe does: it counts, and sets a timer, calls back or throws.
LEMMA FailSafeCases ==
  ASSUME Types, agenda # <<>>, FailSafe(Head(agenda), Tail(agenda))
  PROVE  LET t == Head(agenda)
             n == IF t.tracer = 0 THEN Len(tracers) + 1 ELSE t.tracer
             retry == Counted(t.tracer)[n]
         IN  /\ failMode = "failsafe" /\ tracers' = Counted(t.tracer)
             /\ UNCHANGED <<table, attempts>>
             /\ \/ /\ retry <= RetryTimes /\ agenda' = Tail(agenda) /\ UNCHANGED thrown
                   /\ \E kind \in {"connect", "dispatch"} :
                        timers' = timers \cup {[kind |-> kind, a |-> t.a, tracer |-> n,
                                                retry |-> retry]}
                   /\ t.code \in {"FAIL_CONNECT_SERVER", "FAIL_FIND_MAILBOX", "FAIL_SEND_MESSAGE"}
                \/ /\ agenda' = <<CallbackOf(t.a, FALSE)>> \o Tail(agenda)
                   /\ t.flag /\ UNCHANGED <<timers, thrown>>
                \/ Throw("no callback")
  BY Zenon DEF FailSafe

LEMMA FailSafeTypes ==
  ASSUME Types, agenda # <<>>, FailSafe(Head(agenda), Tail(agenda)),
         UNCHANGED <<lifeVars, served, known, boxVars, calls>>
  PROVE  Types'
<1> DEFINE t == Head(agenda)
           rest == Tail(agenda)
           n == IF t.tracer = 0 THEN Len(tracers) + 1 ELSE t.tracer
           m == Len(tracers')
           retry == Counted(t.tracer)[n]
           Q == Seq(TaskSet(Len(attempts), m))
<1>1. t.a \in DOMAIN attempts /\ rest \in Seq(TaskSet(Len(attempts), Len(tracers)))
      /\ t.tracer \in 0..Len(tracers)
  BY HeadFacts
<1>2. tracers' = Counted(t.tracer) /\ attempts' = attempts /\ table' = table
  BY FailSafeCases
<1>3. /\ tracers' \in Seq(Nat) /\ m \in Nat /\ Len(tracers) <= m /\ n \in 1..m /\ retry \in Nat
      /\ Len(attempts) \in Nat /\ Len(boxes) \in Nat /\ Len(tracers) \in Nat
      /\ attempts \in Seq(AttemptSet(Len(tracers), Len(boxes))) /\ t.a \in 1..Len(attempts)
      /\ timers \subseteq TimerSet(Len(attempts), Len(tracers))
  <2>1. Counted(t.tracer) \in Seq(Nat) /\ n \in DOMAIN Counted(t.tracer) /\ Len(Counted(t.tracer)) \in Nat
        /\ Len(Counted(t.tracer)) >= Len(tracers) /\ n \in 1..Len(Counted(t.tracer))
    BY <1>1, CountedFacts
  <2>2. Len(tracers) \in Nat /\ t.a \in 1..Len(attempts)
    BY <1>1, Sizes
  <2>3. retry \in Nat
    BY <2>1
  <2> HIDE DEF t, n, retry
  <2> QED
    BY <1>2, <2>1, <2>2, <2>3, Sizes
<1>4. \/ /\ agenda' = rest /\ UNCHANGED thrown
         /\ \E kind \in {"connect", "dispatch"} :
              timers' = timers \cup {[kind |-> kind, a |-> t.a, tracer |-> n, retry |-> retry]}
      \/ /\ agenda' = <<CallbackOf(t.a, FALSE)>> \o rest /\ UNCHANGED <<timers, thrown>>
      \/ Throw("no callback")
  BY FailSafeCases
<1> HIDE DEF t, rest, n, retry, m
<1>5. /\ TaskSet(Len(attempts), Len(tracers)) \subseteq TaskSet(Len(attempts), m)
      /\ AttemptSet(Len(tracers), Len(boxes)) \subseteq AttemptSet(m, Len(boxes))
      /\ TimerSet(Len(attempts), Len(tracers)) \subseteq TimerSet(Len(attempts), m)
  <2>1. Len(attempts) <= Len(attempts) /\ Len(boxes) <= Len(boxes)
    BY <1>3
  <2> QED
    BY <1>3, <2>1, Wider
<1>6. rest \in Q /\ attempts \in Seq(AttemptSet(m, Len(boxes)))
  BY <1>1, <1>3, <1>5, WiderSeq
<1>7. timers' \subseteq TimerSet(Len(attempts), m)
  <2>1. \A kind \in {"connect", "dispatch"} :
          [kind |-> kind, a |-> t.a, tracer |-> n, retry |-> retry] \in TimerSet(Len(attempts), m)
    <3>1. t.a \in Nat /\ n \in Nat
      BY <1>3
    <3> QED
      BY <1>3, <3>1 DEF TimerSet, Timers
  <2>2. timers \subseteq TimerSet(Len(attempts), m)
    BY <1>3, <1>5
  <2> QED
    BY <1>4, <2>1, <2>2 DEF Throw
<1>8. agenda' \in Q
  <2>1. <<CallbackOf(t.a, FALSE)>> \in Q
    <3>1. CallbackOf(t.a, FALSE) \in TaskSet(Len(attempts), m)
      BY <1>3, TaskFacts
    <3> QED
      BY <3>1, OnlyElement
  <2>2. <<>> \in Q
    OBVIOUS
  <2>3. <<CallbackOf(t.a, FALSE)>> \o rest \in Q
    BY <1>6, <2>1, ConcatProperties
  <2> HIDE DEF Q
  <2> QED
    BY <1>4, <1>6, <2>2, <2>3 DEF Throw
<1>9. BoxTypes' /\ RetryTypes' /\ AttemptTypes' /\ AgendaTypes'
  <2>1. BoxTypes /\ boxes' = boxes /\ mailboxes' = mailboxes
    BY DEF Types, boxVars
  <2> QED
    BY <1>2, <1>3, <1>6, <1>7, <1>8, <2>1 DEF BoxTypes, RetryTypes, AttemptTypes, AgendaTypes, m
<1>10. LifeTypes' /\ InfoTypes' /\ UserTypes'
  <2>1. thrown' \in Throws
    BY <1>4 DEF Throw, Throws, Types, UserTypes
  <2> QED
    BY <1>2, <2>1 DEF Types, LifeTypes, InfoTypes, UserTypes, lifeVars
<1> QED
  BY <1>9, <1>10 DEF Types

\* The cases of a handler that goes on.
LEMMA ContinueCases ==
  ASSUME Continue
  PROVE  LET t == Head(agenda)
             rest == Tail(agenda)
         IN  /\ agenda # <<>> /\ UNCHANGED <<lifeVars, served>>
             /\ \/ /\ t.do = "lost" /\ agenda' = SendFailed(t.a) \o rest
                   /\ UNCHANGED <<infoVars, boxVars, retryVars, userVars, attempts>>
                \/ /\ t.do = "callback" /\ RunCallback(t.a, t.flag, rest)
                   /\ UNCHANGED <<infoVars, boxVars, tracers, attempts>>
                \/ /\ t.do = "dispatch" /\ RunDispatch(t.a, rest)
                   /\ UNCHANGED <<infoVars, retryVars, calls, thrown>>
                \/ /\ t.do = "fail" /\ UNCHANGED <<known, boxVars, calls>>
                   /\ FailFast(t, rest) \/ FailOver(t, rest) \/ FailSafe(t, rest)
                \/ /\ t.do = "unhandled" /\ Throw("unhandled error")
                   /\ UNCHANGED <<infoVars, boxVars, tracers, calls, attempts>>
  BY Zenon DEF Continue, userVars

LEMMA ContinueTypes ==
  ASSUME Types, Continue
  PROVE  Types'
<1> DEFINE t == Head(agenda)
           rest == Tail(agenda)
<1>1. agenda # <<>> /\ UNCHANGED <<lifeVars, served>>
  BY DEF Continue
<1>2. CASE /\ agenda' = SendFailed(t.a) \o rest
           /\ UNCHANGED <<infoVars, boxVars, retryVars, userVars, attempts>>
  BY <1>1, <1>2, LostTypes
<1>3. CASE /\ RunCallback(t.a, t.flag, rest)
           /\ UNCHANGED <<infoVars, boxVars, tracers, attempts>>
  BY <1>1, <1>3, CallbackTypes
<1>4. CASE RunDispatch(t.a, rest) /\ UNCHANGED <<infoVars, retryVars, calls, thrown>>
  BY <1>1, <1>4, DispatchTypes
<1>5. CASE /\ UNCHANGED <<known, boxVars, calls>>
           /\ FailFast(t, rest) \/ FailOver(t, rest) \/ FailSafe(t, rest)
  BY <1>1, <1>5, FailFastTypes, FailOverTypes, FailSafeTypes
<1>6. CASE Throw("unhandled error") /\ UNCHANGED <<infoVars, boxVars, tracers, calls, attempts>>
  <2>1. \A S : <<>> \in Seq(S)
    OBVIOUS
  <2>2. LifeTypes' /\ InfoTypes' /\ UserTypes'
    BY <1>1, <1>6 DEF Types, LifeTypes, InfoTypes, UserTypes, lifeVars, infoVars, Throw, Throws
  <2>3. BoxTypes' /\ RetryTypes' /\ AttemptTypes' /\ AgendaTypes'
    BY <1>6, <2>1
    DEF Types, BoxTypes, RetryTypes, AttemptTypes, AgendaTypes, boxVars, Throw
  <2> QED
    BY <2>2, <2>3 DEF Types
<1> QED
  BY <1>2, <1>3, <1>4, <1>5, <1>6, ContinueCases

LEMMA TypeStep ==
  ASSUME ClientAssumption, Types, [Next]_vars
  PROVE  Types'
<1>1. CASE Continue
  BY <1>1, ContinueTypes
<1>2. CASE Start \/ StartTick \/ Stop
  BY <1>2, LifeSteps
<1>3. CASE CloseAll
  BY <1>3, CloseTypes
<1>4. ASSUME NEW s \in Servers, AddServer(s) \/ RemoveServer(s) PROVE Types'
  BY <1>4, AddTypes, RemoveTypes
<1>5. ASSUME NEW c \in Calls,
             \/ ProxyIgnored(c) \/ RpcRejected(c)
             \/ \E s \in DefRoute : RpcInvoke(c, s)
             \/ \E q \in Lists : RpcToAll(c, q)
      PROVE  Types'
  BY <1>5, CallTypes
<1>6. ASSUME NEW b \in DOMAIN boxes, MailboxConnected(b) \/ MailboxFailed(b) \/ MailboxEnded(b)
      PROVE  Types'
  BY <1>6, ConnectedTypes, FailedTypes, EndedTypes
<1>7. ASSUME NEW a \in DOMAIN attempts, FilterDone(a) \/ FilterFailed(a) \/ CbTimeout(a)
      PROVE  Types'
  BY <1>7, FilterTypes
<1>8. ASSUME NEW a \in DOMAIN attempts, NEW ok \in BOOLEAN, NEW filtered \in BOOLEAN,
             Answer(a, ok, filtered)
      PROVE  Types'
  BY <1>8, AnswerTypes
<1>9. ASSUME NEW t \in timers, RetryConnect(t) \/ RetryDispatch(t) PROVE Types'
  BY <1>9, RetryConnectTypes, RetryDispatchTypes
<1>10. CASE UNCHANGED vars
  BY <1>10 DEF vars, lifeVars, infoVars, workVars, boxVars, retryVars, userVars, Types, LifeTypes,
               InfoTypes, UserTypes, BoxTypes, RetryTypes, AttemptTypes, AgendaTypes
<1> QED
  BY <1>1, <1>2, <1>3, <1>4, <1>5, <1>6, <1>7, <1>8, <1>9, <1>10, Zenon DEF Next

LEMMA TypesAlways ==
  ASSUME ClientAssumption
  PROVE  Spec => []Types
<1>1. Init => Types
  BY TypeInit
<1>2. Types /\ [Next]_vars => Types'
  BY TypeStep
<1> QED
  BY <1>1, <1>2, PTL DEF Spec

\* Every variable has the type its comment gives, and every number that names an
\* attempt, a mailbox or a tracer names one that exists, whatever order the
\* handlers of the client, its station and its failure process run in.
THEOREM TypeCorrect == Spec => []TypeOK
<1>1. Types => TypeOK
  BY TypesAreTypeOK
<1> QED
  BY <1>1, TypesAlways, ClientAssumption, PTL

-----------------------------------------------------------------------------
(* Requests.  What an attempt asks for never changes, and there are only   *)
(* three ways to make one.                                                 *)

SameRequests ==
  /\ DOMAIN attempts' = DOMAIN attempts
  /\ \A a \in DOMAIN attempts : SameRequest(attempts'[a], attempts[a])

LEMMA PlaceSame ==
  ASSUME Types, NEW as, NEW place \in Places \ {"held"}, attempts' = Place(as, place)
  PROVE  SameRequests
<1>1. attempts \in Seq(AttemptSet(Len(tracers), Len(boxes)))
  BY Sizes
<1> QED
  BY <1>1, PlaceFacts DEF SameRequests

LEMMA HoldSame ==
  ASSUME Types, NEW a \in DOMAIN attempts, NEW b \in 1..Len(boxes), attempts' = Hold(a, b)
  PROVE  SameRequests
<1>1. attempts \in Seq(AttemptSet(Len(tracers), Len(boxes))) /\ Len(boxes) \in Nat
  BY Sizes
<1> QED
  BY <1>1, HoldFacts DEF SameRequests

LEMMA UnchangedSame ==
  ASSUME UNCHANGED attempts
  PROVE  SameRequests
  BY DEF SameRequests, SameRequest

\* Steps that make no attempt and count no retry.
NoRetry == SameRequests /\ timers' \subseteq timers /\ tracers' = tracers

InvokeStep(c, kind, q) ==
  /\ Running /\ state = "started" /\ calls[c].kind = "none" /\ QueueOf(q)
  /\ Invoke(c, kind, q)
FailOverStep ==
  /\ agenda # <<>> /\ Head(agenda).do = "fail" /\ FailOver(Head(agenda), Tail(agenda))
  /\ UNCHANGED <<lifeVars, served, known, boxVars, calls>>
FailSafeStep ==
  /\ agenda # <<>> /\ Head(agenda).do = "fail" /\ FailSafe(Head(agenda), Tail(agenda))
  /\ UNCHANGED <<lifeVars, served, known, boxVars, calls>>

\* A call that is over before it began.
SettleStep(c) ==
  /\ Running /\ calls[c].kind = "none"
  /\ Settle(c, "one", 1, FALSE) \/ Settle(c, "all", 1, TRUE) \/ Settle(c, "ignored", 0, FALSE)

LEMMA CallCases ==
  ASSUME ClientAssumption, Types, NEW c \in Calls,
         \/ ProxyIgnored(c) \/ RpcRejected(c)
         \/ \E s \in DefRoute : RpcInvoke(c, s)
         \/ \E q \in Lists : RpcToAll(c, q)
  PROVE  \/ SettleStep(c)
         \/ \E kind \in {"one", "all"}, q \in Seq(Servers) : InvokeStep(c, kind, q)
<1>1. CASE ProxyIgnored(c) \/ RpcRejected(c)
  BY <1>1 DEF ProxyIgnored, RpcRejected, SettleStep
<1>2. ASSUME NEW s \in DefRoute, RpcInvoke(c, s)
      PROVE  SettleStep(c) \/ InvokeStep(c, "one", <<s>>)
  BY <1>2, OneServer DEF DefRoute, RpcInvoke, SettleStep, InvokeStep
<1>3. ASSUME NEW q \in Lists, RpcToAll(c, q)
      PROVE  SettleStep(c) \/ (q \in Seq(Servers) /\ InvokeStep(c, "all", q))
  <2>1. CASE q = <<>>
    BY <1>3, <2>1 DEF RpcToAll, SettleStep
  <2>2. CASE q # <<>>
    BY <1>3, <2>2, ListsFacts DEF RpcToAll, InvokeStep, QueueOf
  <2> QED
    BY <2>1, <2>2
<1>4. \A s \in Servers : <<s>> \in Seq(Servers)
  OBVIOUS
<1> QED
  BY <1>1, <1>2, <1>3, <1>4 DEF DefRoute

LEMMA ContinueRetry ==
  ASSUME Types, Continue
  PROVE  NoRetry \/ FailOverStep \/ FailSafeStep
<1> DEFINE t == Head(agenda)
           rest == Tail(agenda)
<1>1. /\ agenda # <<>> /\ UNCHANGED <<lifeVars, served>>
      /\ \/ /\ t.do = "lost" /\ agenda' = SendFailed(t.a) \o rest
            /\ UNCHANGED <<infoVars, boxVars, retryVars, userVars, attempts>>
         \/ /\ t.do = "callback" /\ RunCallback(t.a, t.flag, rest)
            /\ UNCHANGED <<infoVars, boxVars, tracers, attempts>>
         \/ /\ t.do = "dispatch" /\ RunDispatch(t.a, rest)
            /\ UNCHANGED <<infoVars, retryVars, calls, thrown>>
         \/ /\ t.do = "fail" /\ UNCHANGED <<known, boxVars, calls>>
            /\ FailFast(t, rest) \/ FailOver(t, rest) \/ FailSafe(t, rest)
         \/ /\ t.do = "unhandled" /\ Throw("unhandled error")
            /\ UNCHANGED <<infoVars, boxVars, tracers, calls, attempts>>
  BY ContinueCases
<1> HIDE DEF t, rest
<1>2. CASE UNCHANGED <<retryVars, attempts>>
  BY <1>2, UnchangedSame DEF NoRetry, retryVars
<1>3. CASE RunCallback(t.a, t.flag, rest) /\ UNCHANGED <<tracers, attempts>>
  <2>1. timers' \subseteq timers
    BY <1>3 DEF RunCallback, Throw
  <2> QED
    BY <1>3, <2>1, UnchangedSame DEF NoRetry
<1>4. CASE RunDispatch(t.a, rest) /\ UNCHANGED retryVars
  <2>1. \E place \in Places \ {"held"} : attempts' = Place({t.a}, place)
    BY <1>4, Zenon DEF RunDispatch, Places
  <2> QED
    BY <1>4, <2>1, PlaceSame DEF NoRetry, retryVars
<1>5. CASE FailFast(t, rest)
  BY <1>5, UnchangedSame DEF FailFast, NoRetry, retryVars
<1>6. CASE Throw("unhandled error") /\ UNCHANGED <<tracers, attempts>>
  BY <1>6, UnchangedSame DEF NoRetry, Throw
<1>7. CASE t.do = "fail" /\ UNCHANGED <<known, boxVars, calls>> /\ FailOver(t, rest)
  BY <1>1, <1>7 DEF FailOverStep, t, rest
<1>8. CASE t.do = "fail" /\ UNCHANGED <<known, boxVars, calls>> /\ FailSafe(t, rest)
  BY <1>1, <1>8 DEF FailSafeStep, t, rest
<1> QED
  BY <1>1, <1>2, <1>3, <1>4, <1>5, <1>6, <1>7, <1>8 DEF retryVars

LEMMA RetryCases ==
  ASSUME ClientAssumption, Types, [Next]_vars
  PROVE  \/ NoRetry \/ FailOverStep \/ FailSafeStep
         \/ \E c \in Calls, kind \in {"one", "all"}, q \in Seq(Servers) : InvokeStep(c, kind, q)
         \/ \E t \in timers : RetryDispatch(t)
<1>1. CASE Continue
  BY <1>1, ContinueRetry
<1>2. CASE UNCHANGED <<retryVars, attempts>>
  BY <1>2, UnchangedSame DEF NoRetry, retryVars
<1>3. CASE Start \/ StartTick \/ Stop \/ \E s \in Servers : AddServer(s)
  BY <1>2, <1>3 DEF Start, StartTick, Stop, AddServer, workVars
<1>4. CASE (\E as : attempts' = Place(as, "late") \/ attempts' = Place(as, "done")) /\ UNCHANGED retryVars
  BY <1>4, PlaceSame DEF NoRetry, retryVars, Places
<1>5. CASE CloseAll \/ \E s \in Servers : RemoveServer(s)
  BY <1>4, <1>5 DEF CloseAll, RemoveServer
<1>6. ASSUME NEW c \in Calls,
             \/ ProxyIgnored(c) \/ RpcRejected(c)
             \/ \E s \in DefRoute : RpcInvoke(c, s)
             \/ \E q \in Lists : RpcToAll(c, q)
      PROVE  \/ UNCHANGED <<retryVars, attempts>>
             \/ \E kind \in {"one", "all"}, q \in Seq(Servers) : InvokeStep(c, kind, q)
  <2>1. SettleStep(c) => UNCHANGED <<retryVars, attempts>>
    BY DEF SettleStep, Settle
  <2> QED
    BY <1>6, <2>1, CallCases
<1>7. ASSUME NEW b \in DOMAIN boxes, MailboxConnected(b) \/ MailboxFailed(b) \/ MailboxEnded(b)
      PROVE  NoRetry
  <2>1. CASE MailboxConnected(b) \/ MailboxFailed(b)
    BY <2>1, UnchangedSame DEF MailboxConnected, MailboxFailed, NoRetry, retryVars
  <2>2. CASE MailboxEnded(b)
    BY <2>2, PlaceSame DEF MailboxEnded, NoRetry, retryVars, Places
  <2> QED
    BY <1>7, <2>1, <2>2
<1>8. ASSUME NEW a \in DOMAIN attempts, FilterDone(a) \/ FilterFailed(a) \/ CbTimeout(a)
      PROVE  NoRetry
  <2>1. CASE attempts' = Place({a}, "done") /\ UNCHANGED retryVars
    BY <2>1, PlaceSame DEF NoRetry, retryVars, Places
  <2>2. CASE FilterFailed(a) \/ CbTimeout(a)
    BY <2>1, <2>2 DEF FilterFailed, CbTimeout
  <2>3. CASE FilterDone(a)
    <3>1. mailboxes[attempts[a].server] \in 0..Len(boxes) /\ Len(boxes) \in Nat
      BY TaskOrders, Sizes DEF Types, BoxTypes
    <3>2. CASE /\ mailboxes[attempts[a].server] # 0
               /\ attempts' = Hold(a, mailboxes[attempts[a].server])
               /\ UNCHANGED retryVars
      BY <3>1, <3>2, HoldSame DEF NoRetry, retryVars
    <3> QED
      BY <2>1, <2>3, <3>2 DEF FilterDone
  <2> QED
    BY <1>8, <2>2, <2>3
<1>9. ASSUME NEW a \in DOMAIN attempts, NEW ok \in BOOLEAN, NEW filtered \in BOOLEAN,
             Answer(a, ok, filtered)
      PROVE  NoRetry
  BY <1>9, PlaceSame DEF Answer, NoRetry, retryVars, Places
<1>10. ASSUME NEW t \in timers, RetryConnect(t) PROVE NoRetry
  <2>1. timers' \subseteq timers
    BY <1>10 DEF RetryConnect, Throw
  <2> QED
    BY <1>10, <2>1, UnchangedSame DEF RetryConnect, NoRetry
<1>11. CASE UNCHANGED vars
  BY <1>2, <1>11 DEF vars, workVars
<1> QED
  BY <1>1, <1>2, <1>3, <1>5, <1>6, <1>7, <1>8, <1>9, <1>10, <1>11, Zenon DEF Next

-----------------------------------------------------------------------------
(* Retries.                                                                *)

\* A number is given out once, and is at most what its tracer has counted.
Counting ==
  /\ \A t \in timers : t.retry <= tracers[t.tracer]
  /\ \A a \in DOMAIN attempts :
       attempts[a].tracer # 0 => attempts[a].retry <= tracers[attempts[a].tracer]
Numbered == RetriesBounded /\ Counting

\* What a step that counts nothing keeps.
LEMMA NoRetryNumbered ==
  ASSUME Types, Numbered, NoRetry
  PROVE  Numbered'
<1>1. /\ DOMAIN attempts' = DOMAIN attempts /\ timers' \subseteq timers /\ tracers' = tracers
      /\ \A a \in DOMAIN attempts : attempts'[a].tracer = attempts[a].tracer
                                    /\ attempts'[a].retry = attempts[a].retry
  BY DEF NoRetry, SameRequests, SameRequest
<1>2. RetriesBounded'
  BY <1>1 DEF Numbered, RetriesBounded
<1>3. Counting'
  BY <1>1 DEF Numbered, Counting
<1> QED
  BY <1>2, <1>3 DEF Numbered

\* New attempts of no tracer.
LEMMA FreshNumbered ==
  ASSUME Types, Numbered, timers' \subseteq timers, tracers' = tracers,
         DOMAIN attempts \subseteq DOMAIN attempts',
         \A a \in DOMAIN attempts : attempts'[a] = attempts[a],
         \A a \in DOMAIN attempts' \ DOMAIN attempts : attempts'[a].tracer = 0
  PROVE  Numbered'
<1>1. \A a \in DOMAIN attempts' : attempts'[a].tracer # 0 =>
        a \in DOMAIN attempts /\ attempts'[a] = attempts[a]
  OBVIOUS
<1>2. \A t \in timers : t.tracer # 0
  BY Sizes DEF TimerSet
<1>3. RetriesBounded'
  BY <1>1, <1>2 DEF Numbered, RetriesBounded
<1>4. Counting'
  BY <1>1 DEF Numbered, Counting
<1> QED
  BY <1>3, <1>4 DEF Numbered

\* The attempts of a new call, one for each server asked.
Asked(c, s) == \E a \in DOMAIN attempts' \ DOMAIN attempts :
  /\ attempts'[a] = NewAttempt(c, s, s, TRUE, 0, 0)
  /\ \E i \in DOMAIN agenda' : agenda'[i] = Task("dispatch", a)

LEMMA InvokeFacts ==
  ASSUME Types, NEW c \in Calls, NEW kind \in {"one", "all"}, NEW q \in Seq(Servers),
         InvokeStep(c, kind, q)
  PROVE  /\ DOMAIN attempts \subseteq DOMAIN attempts'
         /\ \A a \in DOMAIN attempts : attempts'[a] = attempts[a]
         /\ \A a \in DOMAIN attempts' \ DOMAIN attempts :
              \E s \in Range(q) : attempts'[a] = NewAttempt(c, s, s, TRUE, 0, 0)
         /\ \A s \in Range(q) : Asked(c, s)
         /\ \A a1, a2 \in DOMAIN attempts' \ DOMAIN attempts :
              attempts'[a1].slot = attempts'[a2].slot => a1 = a2
         /\ \A i \in DOMAIN agenda' : \E a \in DOMAIN attempts' \ DOMAIN attempts :
              agenda'[i] = Task("dispatch", a)
         /\ \A i, j \in DOMAIN agenda' : agenda'[i].a = agenda'[j].a => i = j
<1> DEFINE n == Len(attempts)
           new == [i \in DOMAIN q |-> NewAttempt(c, q[i], q[i], TRUE, 0, 0)]
<1>1. /\ attempts' = attempts \o new
      /\ agenda' = [i \in DOMAIN q |-> Task("dispatch", n + i)] /\ IsInjective(q)
  BY DEF InvokeStep, Invoke, QueueOf
<1>2. /\ Len(q) \in Nat /\ DOMAIN q = 1..Len(q) /\ n \in Nat /\ DOMAIN attempts = 1..n
      /\ \A i \in DOMAIN q : q[i] \in Servers
  BY Sizes, LenProperties
<1>3. attempts \in Seq(AttemptSet(Len(tracers), Len(boxes)))
  BY Sizes
<1>4. new \in Seq(AttemptSet(Len(tracers), Len(boxes))) /\ Len(new) = Len(q)
  <2>1. \A i \in DOMAIN q : NewAttempt(c, q[i], q[i], TRUE, 0, 0) \in AttemptSet(Len(tracers), Len(boxes))
    <3>1. 0 \in 0..Len(tracers) /\ 0 \in Nat /\ Len(tracers) \in Nat /\ Len(boxes) \in Nat
      BY Sizes
    <3> QED
      BY <1>2, <3>1, NewAttemptFacts
  <2>2. \A i \in 1..Len(q) : new[i] \in AttemptSet(Len(tracers), Len(boxes))
    BY <1>2, <2>1
  <2>3. new = [i \in 1..Len(q) |-> new[i]]
    BY <1>2
  <2> HIDE DEF new
  <2> QED
    BY <1>2, <2>2, <2>3
<1>5. \A i \in 1..Len(q) : new[i] = NewAttempt(c, q[i], q[i], TRUE, 0, 0)
  BY <1>2
<1> HIDE DEF new, n
<1>6. /\ DOMAIN attempts' = 1..n + Len(q)
      /\ \A a \in 1..n + Len(q) : attempts'[a] = IF a <= n THEN attempts[a] ELSE new[a - n]
  <2> DEFINE A == AttemptSet(Len(tracers), Len(boxes))
  <2>1. attempts \in Seq(A) /\ new \in Seq(A) /\ Len(attempts) = n
    BY <1>3, <1>4 DEF n
  <2> HIDE DEF A
  <2>2. /\ attempts \o new \in Seq(A) /\ Len(attempts \o new) = Len(attempts) + Len(new)
        /\ \A a \in 1..Len(attempts) + Len(new) :
             (attempts \o new)[a] = IF a <= Len(attempts) THEN attempts[a] ELSE new[a - Len(attempts)]
    BY <2>1, ConcatProperties
  <2> QED
    BY <1>1, <1>4, <2>1, <2>2, LenProperties
<1>7. \A i \in 1..Len(q) : n + i \in 1..n + Len(q) /\ ~(n + i <= n) /\ n + i - n = i
  BY <1>2
<1>9. \A i, j \in 1..Len(q) : q[i] = q[j] => i = j
  BY <1>1, <1>2 DEF IsInjective
<1>10. DOMAIN agenda' = 1..Len(q) /\ \A i \in 1..Len(q) : agenda'[i] = Task("dispatch", n + i)
  BY <1>1, <1>2
<1>11. \A a \in 1..n : a \in 1..n + Len(q) /\ a <= n
  BY <1>2
<1>12. \A a \in DOMAIN attempts : a \in DOMAIN attempts' /\ attempts'[a] = attempts[a]
  BY <1>2, <1>6, <1>11
<1>13. \A i \in 1..Len(q) : /\ n + i \in DOMAIN attempts' \ DOMAIN attempts
                            /\ attempts'[n + i] = NewAttempt(c, q[i], q[i], TRUE, 0, 0)
  <2>1. ASSUME NEW i \in 1..Len(q) PROVE attempts'[n + i] = new[i]
    <3>1. n + i \in 1..n + Len(q)
      BY <1>7
    <3>2. attempts'[n + i] = IF n + i <= n THEN attempts[n + i] ELSE new[n + i - n]
      BY <1>2, <1>6, <3>1
    <3>3. ~(n + i <= n) /\ n + i - n = i
      BY <1>7
    <3> QED
      BY <3>2, <3>3
  <2>2. \A i \in 1..Len(q) : n + i \notin 1..n
    BY <1>2
  <2> QED
    BY <1>2, <1>5, <1>6, <1>7, <2>1, <2>2
<1>14. \A a \in DOMAIN attempts' \ DOMAIN attempts : a - n \in 1..Len(q) /\ n + (a - n) = a
  BY <1>2, <1>6
<1>15. ASSUME NEW a \in DOMAIN attempts' \ DOMAIN attempts
       PROVE  \E s \in Range(q) : attempts'[a] = NewAttempt(c, s, s, TRUE, 0, 0)
  <2> DEFINE i == a - n
  <2>1. i \in 1..Len(q) /\ n + i = a
    BY <1>14
  <2> HIDE DEF i
  <2>2. attempts'[a] = NewAttempt(c, q[i], q[i], TRUE, 0, 0) /\ q[i] \in Range(q)
    BY <1>2, <1>13, <2>1 DEF Range
  <2> QED
    BY <2>2
<1>16. ASSUME NEW s \in Range(q)
       PROVE  Asked(c, s)
  <2>1. PICK i \in 1..Len(q) : q[i] = s
    BY <1>2 DEF Range
  <2> DEFINE a == n + i
  <2>2. /\ a \in DOMAIN attempts' \ DOMAIN attempts
        /\ attempts'[a] = NewAttempt(c, s, s, TRUE, 0, 0)
    BY <1>13, <2>1
  <2>3. i \in DOMAIN agenda' /\ agenda'[i] = Task("dispatch", a)
    BY <1>10
  <2> HIDE DEF a
  <2> QED
    BY <2>2, <2>3 DEF Asked
<1>17. ASSUME NEW a1 \in DOMAIN attempts' \ DOMAIN attempts,
              NEW a2 \in DOMAIN attempts' \ DOMAIN attempts,
              attempts'[a1].slot = attempts'[a2].slot
       PROVE  a1 = a2
  <2> DEFINE i == a1 - n
             j == a2 - n
  <2>1. i \in 1..Len(q) /\ n + i = a1 /\ j \in 1..Len(q) /\ n + j = a2
    BY <1>14
  <2> HIDE DEF i, j
  <2>2. attempts'[n + i].slot = q[i] /\ attempts'[n + j].slot = q[j]
    <3>1. \A s : NewAttempt(c, s, s, TRUE, 0, 0).slot = s
      BY DEF NewAttempt
    <3> QED
      BY <1>13, <2>1, <3>1
  <2>3. q[i] = q[j]
    BY <1>17, <2>1, <2>2
  <2> QED
    BY <1>9, <2>1, <2>3
<1>18. ASSUME NEW i \in DOMAIN agenda'
       PROVE  \E a \in DOMAIN attempts' \ DOMAIN attempts : agenda'[i] = Task("dispatch", a)
  <2> DEFINE a == n + i
  <2>1. a \in DOMAIN attempts' \ DOMAIN attempts /\ agenda'[i] = Task("dispatch", a)
    BY <1>10, <1>13
  <2> HIDE DEF a
  <2> QED
    BY <2>1
<1>19. ASSUME NEW i \in DOMAIN agenda', NEW j \in DOMAIN agenda', agenda'[i].a = agenda'[j].a
       PROVE  i = j
  <2>1. agenda'[i].a = n + i /\ agenda'[j].a = n + j
    BY <1>10 DEF Task
  <2>2. i \in Nat /\ j \in Nat
    BY <1>10
  <2>3. n + i = n + j
    BY <1>19, <2>1
  <2> QED
    BY <1>2, <2>2, <2>3
<1> QED
  BY <1>12, <1>15, <1>16, <1>17, <1>18, <1>19

\* The rest of such a step.
LEMMA InvokeRest ==
  ASSUME Types, NEW c \in Calls, NEW kind \in {"one", "all"}, NEW q \in Seq(Servers),
         InvokeStep(c, kind, q)
  PROVE  /\ UNCHANGED <<lifeVars, infoVars, boxVars, retryVars, thrown, served>>
         /\ agenda = <<>> /\ thrown = "nothing" /\ calls[c].kind = "none"
         /\ Range(q) # {} /\ Range(q) \subseteq Servers
         /\ \A i, j \in DOMAIN q : q[i] = q[j] => i = j
         /\ \A d \in Calls \ {c} : calls'[d] = calls[d]
         /\ calls'[c].kind = kind /\ calls'[c].targets = Range(q)
         /\ calls'[c].called = calls[c].called /\ calls'[c].good = calls[c].good
         /\ calls'[c].reports = calls[c].reports /\ calls'[c].success = calls[c].success
<1>1. /\ UNCHANGED <<lifeVars, infoVars, boxVars, retryVars, thrown, served>>
      /\ q # <<>> /\ agenda = <<>> /\ thrown = "nothing" /\ calls[c].kind = "none"
      /\ IsInjective(q)
      /\ calls' = [[calls EXCEPT ![c].kind = kind] EXCEPT ![c].targets = Range(q)]
  BY DEF InvokeStep, Invoke, Running, QueueOf
<1>2. calls \in [Calls -> CallStates]
  BY DEF Types, UserTypes
<1>3. /\ \A d \in Calls \ {c} : calls'[d] = calls[d]
      /\ calls'[c].kind = kind /\ calls'[c].targets = Range(q)
      /\ calls'[c].called = calls[c].called /\ calls'[c].good = calls[c].good
      /\ calls'[c].reports = calls[c].reports /\ calls'[c].success = calls[c].success
  BY <1>1, <1>2 DEF CallStates
<1>4. Range(q) # {} /\ Range(q) \subseteq Servers
  <2>1. 1 \in DOMAIN q
    BY <1>1, EmptySeq, LenProperties
  <2> QED
    BY <2>1 DEF Range
<1>5. \A i, j \in DOMAIN q : q[i] = q[j] => i = j
  BY <1>1 DEF IsInjective
<1> QED
  BY <1>1, <1>3, <1>4, <1>5

\* The attempt that a failover or a retry appends.
LEMMA AppendFacts ==
  ASSUME Types, NEW x, attempts' = Append(attempts, x)
  PROVE  LET n == Len(attempts)
         IN  /\ n \in Nat /\ DOMAIN attempts = 1..n /\ DOMAIN attempts' = 1..n + 1
             /\ \A a \in 1..n : a \in DOMAIN attempts' /\ attempts'[a] = attempts[a]
             /\ n + 1 \in DOMAIN attempts' /\ n + 1 \notin DOMAIN attempts /\ attempts'[n + 1] = x
             /\ \A a \in DOMAIN attempts' : a \in 1..n \/ a = n + 1
<1>1. Len(attempts) \in Nat /\ DOMAIN attempts = 1..Len(attempts)
      /\ attempts \in Seq(AttemptSet(Len(tracers), Len(boxes)))
  BY Sizes
<1>2. attempts \in Seq(AttemptSet(Len(tracers), Len(boxes)) \cup {x})
  BY <1>1
<1> QED
  BY <1>1, <1>2, AppendProperties

LEMMA InvokeNumbered ==
  ASSUME Types, Numbered, NEW c \in Calls, NEW kind \in {"one", "all"}, NEW q \in Seq(Servers),
         InvokeStep(c, kind, q)
  PROVE  Numbered'
<1>1. /\ timers' = timers /\ tracers' = tracers /\ DOMAIN attempts \subseteq DOMAIN attempts'
      /\ \A a \in DOMAIN attempts : attempts'[a] = attempts[a]
  BY InvokeFacts, InvokeRest DEF retryVars
<1>2. \A a \in DOMAIN attempts' \ DOMAIN attempts : attempts'[a].tracer = 0
  <2>1. \A s : NewAttempt(c, s, s, TRUE, 0, 0).tracer = 0
    BY DEF NewAttempt
  <2>2. \A a \in DOMAIN attempts' \ DOMAIN attempts :
          \E s \in Range(q) : attempts'[a] = NewAttempt(c, s, s, TRUE, 0, 0)
    BY InvokeFacts
  <2> QED
    BY <2>1, <2>2
<1> QED
  BY <1>1, <1>2, FreshNumbered

LEMMA FailOverCases ==
  ASSUME Types, FailOverStep
  PROVE  LET t == Head(agenda)
             a == attempts[t.a]
             others == Splice(a.server)
         IN  /\ failMode = "failover" /\ UNCHANGED <<lifeVars, served, known, boxVars, calls, tracers>>
             /\ \/ /\ Throw("no message") \/ Throw("no callback")
                   /\ attempts' = attempts
                \/ /\ agenda' = <<CallbackOf(t.a, FALSE)>> \o Tail(agenda)
                   /\ t.flag /\ UNCHANGED <<timers, thrown, attempts>>
                \/ /\ others # <<>>
                   /\ attempts' = Append(attempts, NewAttempt(a.call, a.slot, Head(others),
                                                              t.flag /\ a.hasCb, 0, 0))
                   /\ agenda' = <<Task("dispatch", Len(attempts) + 1)>> \o Tail(agenda)
                   /\ UNCHANGED <<timers, thrown>>
  BY DEF FailOverStep, FailOver

LEMMA FailOverNumbered ==
  ASSUME Types, Numbered, FailOverStep
  PROVE  Numbered'
<1> DEFINE t == Head(agenda)
           a == attempts[t.a]
           x == NewAttempt(a.call, a.slot, Head(Splice(a.server)), t.flag /\ a.hasCb, 0, 0)
<1>1. CASE attempts' = attempts /\ timers' \subseteq timers /\ tracers' = tracers
  BY <1>1, UnchangedSame, NoRetryNumbered DEF NoRetry
<1>2. CASE attempts' = Append(attempts, x) /\ timers' = timers /\ tracers' = tracers
  <2>1. x.tracer = 0
    BY DEF NewAttempt
  <2> HIDE DEF x
  <2>2. /\ DOMAIN attempts \subseteq DOMAIN attempts'
        /\ \A b \in DOMAIN attempts : attempts'[b] = attempts[b]
        /\ \A b \in DOMAIN attempts' \ DOMAIN attempts : attempts'[b] = x
    BY <1>2, AppendFacts
  <2> QED
    BY <1>2, <2>1, <2>2, FreshNumbered
<1> QED
  BY <1>1, <1>2, FailOverCases DEF Throw

\* A retry takes its number from the timer it ends.
LEMMA RetryNumbered ==
  ASSUME Types, Numbered, NEW t \in timers, RetryDispatch(t)
  PROVE  Numbered'
<1> DEFINE a == attempts[t.a]
           x == NewAttempt(a.call, a.slot, a.server, FALSE, t.tracer, t.retry)
           n == Len(attempts)
<1>1. /\ timers' = timers \ {t} /\ attempts' = Append(attempts, x) /\ tracers' = tracers
  BY DEF RetryDispatch
<1>2. x.tracer = t.tracer /\ x.retry = t.retry
  BY DEF NewAttempt
<1> HIDE DEF x, n
<1>3. /\ DOMAIN attempts' = DOMAIN attempts \cup {n + 1} /\ n + 1 \notin DOMAIN attempts
      /\ \A b \in DOMAIN attempts : attempts'[b] = attempts[b]
      /\ attempts'[n + 1] = x
  BY <1>1, AppendFacts DEF n
<1>4. /\ t.retry \in 1..RetryTimes /\ t.retry <= tracers[t.tracer]
      /\ \A b \in DOMAIN attempts : attempts[b].tracer = t.tracer => attempts[b].retry # t.retry
      /\ \A t2 \in timers : t2.tracer = t.tracer /\ t2.retry = t.retry => t2 = t
  BY DEF Numbered, RetriesBounded, Counting
<1>5. Counting'
  BY <1>1, <1>2, <1>3, <1>4 DEF Numbered, Counting
<1>6. /\ \A u \in timers' : u.retry \in 1..RetryTimes
      /\ \A b \in DOMAIN attempts' : attempts'[b].tracer # 0 => attempts'[b].retry \in 1..RetryTimes
  BY <1>1, <1>2, <1>3, <1>4 DEF Numbered, RetriesBounded
<1>7. \A a1, a2 \in DOMAIN attempts' :
        attempts'[a1].tracer # 0 /\ attempts'[a1].tracer = attempts'[a2].tracer
          /\ attempts'[a1].retry = attempts'[a2].retry => a1 = a2
  BY <1>2, <1>3, <1>4 DEF Numbered, RetriesBounded
<1>8. /\ \A t1, t2 \in timers' : t1.tracer = t2.tracer /\ t1.retry = t2.retry => t1 = t2
      /\ \A b \in DOMAIN attempts', u \in timers' :
           attempts'[b].tracer = u.tracer => attempts'[b].retry # u.retry
  BY <1>1, <1>2, <1>3, <1>4 DEF Numbered, RetriesBounded
<1> QED
  BY <1>5, <1>6, <1>7, <1>8 DEF Numbered, RetriesBounded

\* failsafe gives its timer a number that its tracer has never given out.
LEMMA FailSafeNumbered ==
  ASSUME Types, Numbered, FailSafeStep, ClientAssumption
  PROVE  Numbered'
<1> DEFINE t == Head(agenda)
           n == IF t.tracer = 0 THEN Len(tracers) + 1 ELSE t.tracer
           retry == Counted(t.tracer)[n]
<1>1. /\ agenda # <<>> /\ FailSafe(Head(agenda), Tail(agenda))
      /\ t.tracer \in 0..Len(tracers)
  BY HeadFacts DEF FailSafeStep
<1>2. /\ tracers' = Counted(t.tracer) /\ attempts' = attempts
      /\ \/ timers' \subseteq timers
         \/ /\ retry <= RetryTimes
            /\ \E kind \in {"connect", "dispatch"} :
                 timers' = timers \cup {[kind |-> kind, a |-> t.a, tracer |-> n, retry |-> retry]}
  BY <1>1, FailSafeCases DEF Throw
<1>3. /\ n \in DOMAIN tracers'
      /\ \A i \in DOMAIN tracers : /\ i \in DOMAIN tracers'
                                   /\ tracers'[i] = IF i = n THEN tracers[i] + 1 ELSE tracers[i]
      /\ n \notin DOMAIN tracers => tracers'[n] = 1
      /\ retry = tracers'[n]
  BY <1>1, <1>2, CountedFacts
<1> HIDE DEF n, retry
<1>4. /\ \A i \in DOMAIN tracers : tracers[i] \in Nat
      /\ \A u \in timers : u.tracer \in DOMAIN tracers /\ u.retry \in Nat
      /\ \A a \in DOMAIN attempts :
           /\ attempts[a].tracer # 0 => attempts[a].tracer \in DOMAIN tracers
           /\ attempts[a].retry \in Nat
  <2>1. \A u \in timers : u.tracer \in DOMAIN tracers /\ u.retry \in Nat
    BY Sizes DEF TimerSet, Timers
  <2>2. ASSUME NEW a \in DOMAIN attempts
        PROVE  (attempts[a].tracer # 0 => attempts[a].tracer \in DOMAIN tracers) /\ attempts[a].retry \in Nat
    <3>1. attempts[a].tracer \in 0..Len(tracers) /\ attempts[a].retry \in Nat
      BY Sizes, AttemptFields
    <3> QED
      BY <3>1, Sizes
  <2> QED
    BY <2>1, <2>2, Sizes
<1>5. Counting
  BY DEF Numbered
<1>6. retry \in Nat /\ retry >= 1
  BY <1>3, <1>4
<1>7. /\ \A u \in timers : u.retry <= tracers'[u.tracer] /\ (u.tracer = n => u.retry < retry)
      /\ \A a \in DOMAIN attempts : attempts[a].tracer # 0 =>
           /\ attempts[a].retry <= tracers'[attempts[a].tracer]
           /\ attempts[a].tracer = n => attempts[a].retry < retry
  <2>1. ASSUME NEW i \in DOMAIN tracers, NEW r \in Nat, r <= tracers[i]
        PROVE  r <= tracers'[i] /\ (i = n => r < retry)
    BY <1>3, <1>4, <2>1
  <2> QED
    BY <1>4, <1>5, <2>1 DEF Counting
<1>8. n # 0
  <2>1. Len(tracers) \in Nat
    BY Sizes
  <2> QED
    BY <2>1 DEF n
<1>9. CASE timers' \subseteq timers
  <2>1. RetriesBounded'
    BY <1>2, <1>9 DEF Numbered, RetriesBounded
  <2>2. Counting'
    BY <1>2, <1>7, <1>9 DEF Counting
  <2> QED
    BY <2>1, <2>2 DEF Numbered
<1>10. ASSUME retry <= RetryTimes, NEW kind \in {"connect", "dispatch"},
              timers' = timers \cup {[kind |-> kind, a |-> t.a, tracer |-> n, retry |-> retry]}
       PROVE  Numbered'
  <2> DEFINE new == [kind |-> kind, a |-> t.a, tracer |-> n, retry |-> retry]
  <2>1. new.tracer = n /\ new.retry = retry
    OBVIOUS
  <2>2. timers' = timers \cup {new}
    BY <1>10
  <2> HIDE DEF new
  <2>3. Counting'
    BY <1>2, <1>3, <1>6, <1>7, <2>1, <2>2 DEF Counting
  <2>4. /\ \A u \in timers' : u.retry \in 1..RetryTimes
        /\ \A a \in DOMAIN attempts' : attempts'[a].tracer # 0 => attempts'[a].retry \in 1..RetryTimes
    <3>1. RetryTimes \in Nat
      BY DEF ClientAssumption
    <3>2. retry \in 1..RetryTimes
      BY <1>6, <1>10, <3>1
    <3> QED
      BY <1>2, <2>1, <2>2, <3>2 DEF Numbered, RetriesBounded
  <2>5. \A t1, t2 \in timers' : t1.tracer = t2.tracer /\ t1.retry = t2.retry => t1 = t2
    <3>1. \A u \in timers : u.tracer = n => u.retry # retry
      BY <1>4, <1>6, <1>7
    <3> QED
      BY <2>1, <2>2, <3>1 DEF Numbered, RetriesBounded
  <2>6. \A a \in DOMAIN attempts', u \in timers' :
          attempts'[a].tracer = u.tracer => attempts'[a].retry # u.retry
    <3>1. \A a \in DOMAIN attempts : attempts[a].tracer = n => attempts[a].retry # retry
      BY <1>4, <1>6, <1>7, <1>8
    <3> QED
      BY <1>2, <2>1, <2>2, <3>1 DEF Numbered, RetriesBounded
  <2> QED
    BY <1>2, <2>3, <2>4, <2>5, <2>6 DEF Numbered, RetriesBounded
<1> QED
  BY <1>2, <1>9, <1>10

\* failsafe retries on behalf of a tracer at most retryTimes times, whatever
\* fails and in whatever order: what it does again is numbered from 1 to
\* retryTimes, and no number is used twice.
THEOREM RetriesCorrect == Spec => []RetriesBounded
<1>1. Init => Numbered
  BY DEF Init, Numbered, RetriesBounded, Counting
<1>2. ASSUME Types, Numbered, [Next]_vars PROVE Numbered'
  BY <1>2, ClientAssumption, RetryCases, NoRetryNumbered, FailOverNumbered, FailSafeNumbered,
     InvokeNumbered, RetryNumbered, Zenon
<1>3. Numbered => RetriesBounded
  BY DEF Numbered
<1> QED
  BY <1>1, <1>2, <1>3, TypesAlways, ClientAssumption, PTL DEF Spec

-----------------------------------------------------------------------------
(* What each step does to the other parts of the state.                    *)

LEMMA LifeCases ==
  ASSUME [Next]_vars
  PROVE  /\ failMode' = failMode
         /\ \/ UNCHANGED <<state, listeners>>
            \/ state' = "started" /\ listeners' = listeners + 1
            \/ state = "started" /\ listeners' = listeners
<1>1. CASE Start \/ StartTick \/ Stop \/ CloseAll
  BY <1>1 DEF Start, StartTick, Stop, CloseAll
<1>2. CASE UNCHANGED <<failMode, state, listeners>>
  BY <1>2
<1>3. CASE Continue \/ UNCHANGED vars
  BY <1>3 DEF Continue, vars, lifeVars
<1>4. ASSUME NEW s \in Servers, AddServer(s) \/ RemoveServer(s)
      PROVE  UNCHANGED <<failMode, state, listeners>>
  BY <1>4 DEF AddServer, RemoveServer
<1>5. ASSUME NEW c \in Calls,
             \/ ProxyIgnored(c) \/ RpcRejected(c)
             \/ \E s \in DefRoute : RpcInvoke(c, s)
             \/ \E q \in Lists : RpcToAll(c, q)
      PROVE  UNCHANGED <<failMode, state, listeners>>
  BY <1>5 DEF ProxyIgnored, RpcRejected, RpcInvoke, RpcToAll, Settle, Invoke, lifeVars
<1>6. ASSUME NEW b \in DOMAIN boxes, MailboxConnected(b) \/ MailboxFailed(b) \/ MailboxEnded(b)
      PROVE  UNCHANGED <<failMode, state, listeners>>
  BY <1>6 DEF MailboxConnected, MailboxFailed, MailboxEnded, lifeVars
<1>7. ASSUME NEW a \in DOMAIN attempts,
             \/ FilterDone(a) \/ FilterFailed(a) \/ CbTimeout(a)
             \/ \E ok, filtered \in BOOLEAN : Answer(a, ok, filtered)
      PROVE  UNCHANGED <<failMode, state, listeners>>
  BY <1>7 DEF FilterDone, FilterFailed, CbTimeout, Answer, lifeVars
<1>8. ASSUME NEW t \in timers, RetryConnect(t) \/ RetryDispatch(t)
      PROVE  UNCHANGED <<failMode, state, listeners>>
  BY <1>8 DEF RetryConnect, RetryDispatch, lifeVars
<1> QED
  BY <1>1, <1>2, <1>3, <1>4, <1>5, <1>6, <1>7, <1>8, Zenon DEF Next

CallbackStep ==
  /\ agenda # <<>> /\ Head(agenda).do = "callback"
  /\ RunCallback(Head(agenda).a, Head(agenda).flag, Tail(agenda))
  /\ UNCHANGED <<lifeVars, infoVars, boxVars, tracers, attempts, served>>

\* The steps that the user's side of the state notices.
LEMMA UserCases ==
  ASSUME ClientAssumption, Types, [Next]_vars
  PROVE  \/ UNCHANGED <<calls, served>>
         \/ \E c \in Calls : SettleStep(c)
         \/ \E c \in Calls, kind \in {"one", "all"}, q \in Seq(Servers) : InvokeStep(c, kind, q)
         \/ \E a \in DOMAIN attempts, ok, filtered \in BOOLEAN : Answer(a, ok, filtered)
         \/ CallbackStep
<1>1. CASE Continue
  BY <1>1, ContinueCases DEF CallbackStep, FailFast, FailOver, FailSafe, userVars, boxVars
<1>2. CASE Start \/ StartTick \/ Stop \/ CloseAll
  BY <1>2 DEF Start, StartTick, Stop, CloseAll, workVars, userVars
<1>3. ASSUME NEW s \in Servers, AddServer(s) \/ RemoveServer(s)
      PROVE  UNCHANGED <<calls, served>>
  BY <1>3 DEF AddServer, RemoveServer, workVars, userVars
<1>4. ASSUME NEW c \in Calls,
             \/ ProxyIgnored(c) \/ RpcRejected(c)
             \/ \E s \in DefRoute : RpcInvoke(c, s)
             \/ \E q \in Lists : RpcToAll(c, q)
      PROVE  \/ SettleStep(c)
             \/ \E kind \in {"one", "all"}, q \in Seq(Servers) : InvokeStep(c, kind, q)
  BY <1>4, CallCases
<1>5. ASSUME NEW b \in DOMAIN boxes, MailboxConnected(b) \/ MailboxFailed(b) \/ MailboxEnded(b)
      PROVE  UNCHANGED <<calls, served>>
  BY <1>5 DEF MailboxConnected, MailboxFailed, MailboxEnded, userVars
<1>6. ASSUME NEW a \in DOMAIN attempts, FilterDone(a) \/ FilterFailed(a) \/ CbTimeout(a)
      PROVE  UNCHANGED <<calls, served>>
  BY <1>6 DEF FilterDone, FilterFailed, CbTimeout, userVars
<1>7. ASSUME NEW t \in timers, RetryConnect(t) \/ RetryDispatch(t)
      PROVE  UNCHANGED <<calls, served>>
  BY <1>7 DEF RetryConnect, RetryDispatch, userVars
<1>8. CASE UNCHANGED vars
  BY <1>8 DEF vars, workVars, userVars
<1> QED
  BY <1>1, <1>2, <1>3, <1>4, <1>5, <1>6, <1>7, <1>8, Zenon DEF Next

\* Requests stay what they are.
LEMMA RequestsKept ==
  ASSUME ClientAssumption, Types, [Next]_vars
  PROVE  \A a \in DOMAIN attempts : a \in DOMAIN attempts' /\ SameRequest(attempts'[a], attempts[a])
<1>1. CASE NoRetry
  BY <1>1 DEF NoRetry, SameRequests
<1>2. CASE DOMAIN attempts \subseteq DOMAIN attempts'
           /\ \A a \in DOMAIN attempts : attempts'[a] = attempts[a]
  BY <1>2 DEF SameRequest
<1>3. CASE FailOverStep
  BY <1>2, <1>3, FailOverCases, AppendFacts, UnchangedSame DEF SameRequests
<1>4. CASE FailSafeStep
  BY <1>2, <1>4 DEF FailSafeStep, FailSafe
<1>5. ASSUME NEW c \in Calls, NEW kind \in {"one", "all"}, NEW q \in Seq(Servers),
             InvokeStep(c, kind, q)
      PROVE  DOMAIN attempts \subseteq DOMAIN attempts'
             /\ \A a \in DOMAIN attempts : attempts'[a] = attempts[a]
  BY <1>5, InvokeFacts
<1>6. ASSUME NEW t \in timers, RetryDispatch(t)
      PROVE  DOMAIN attempts \subseteq DOMAIN attempts'
             /\ \A a \in DOMAIN attempts : attempts'[a] = attempts[a]
  BY <1>6, AppendFacts DEF RetryDispatch
<1> QED
  BY <1>1, <1>2, <1>3, <1>4, <1>5, <1>6, RetryCases

-----------------------------------------------------------------------------
(* What a step puts on the agenda.                                         *)

\* Tasks that neither report a result nor lack a listener.
Harmless == {t \in Tasks : t.do # "unhandled" /\ ~(t.do = "callback" /\ t.flag)}

LEMMA HarmlessFacts ==
  ASSUME Types, listeners # 0, NEW a \in DOMAIN attempts
  PROVE  /\ \A do \in {"lost", "dispatch"} : <<Task(do, a)>> \in Seq(Harmless)
         /\ <<CallbackOf(a, FALSE)>> \in Seq(Harmless)
         /\ \A code \in RpcErrors, flag \in BOOLEAN, tracer \in 0..Len(tracers) :
              Emit(code, a, flag, tracer) \in Seq(Harmless)
         /\ attempts[a].tracer \in 0..Len(tracers)
<1>1. /\ a \in 1..Len(attempts) /\ Len(attempts) \in Nat /\ Len(tracers) \in Nat /\ listeners \in Nat
      /\ attempts[a].tracer \in 0..Len(tracers)
  BY Sizes, TaskOrders
<1>2. TaskSet(Len(attempts), Len(tracers)) \subseteq Tasks
  BY DEF TaskSet
<1>3. ASSUME NEW do \in {"lost", "dispatch"} PROVE Task(do, a) \in Harmless
  <2>1. Task(do, a) \in TaskSet(Len(attempts), Len(tracers))
    BY <1>1, TaskFacts DEF Dos
  <2>2. Task(do, a).do = do
    BY DEF Task
  <2> QED
    BY <1>2, <2>1, <2>2 DEF Harmless
<1>4. CallbackOf(a, FALSE) \in Harmless
  <2>1. CallbackOf(a, FALSE) \in TaskSet(Len(attempts), Len(tracers))
    BY <1>1, TaskFacts
  <2>2. CallbackOf(a, FALSE).flag = FALSE
    BY DEF CallbackOf, Task
  <2>3. CallbackOf(a, FALSE).do = "callback"
    BY DEF CallbackOf, Task
  <2> QED
    BY <1>2, <2>1, <2>2, <2>3 DEF Harmless
<1>5. ASSUME NEW code \in RpcErrors, NEW flag \in BOOLEAN, NEW tracer \in 0..Len(tracers)
      PROVE  Emit(code, a, flag, tracer) \in Seq(Harmless)
  <2> DEFINE e == Emit(code, a, flag, tracer)
  <2>1. e \in Seq(TaskSet(Len(attempts), Len(tracers))) /\ \A i \in DOMAIN e : e[i].do = "fail"
    BY <1>1, EmitFacts
  <2> HIDE DEF e
  <2>2. \A i \in DOMAIN e : e[i] \in Harmless
    BY <1>2, <2>1 DEF Harmless
  <2>3. e \in Seq(Harmless)
    BY <2>1, <2>2
  <2> QED
    BY <2>3 DEF e
<1> QED
  BY <1>1, <1>3, <1>4, <1>5, OnlyElement

LEMMA HarmlessOrders ==
  ASSUME Types, NEW as \in SUBSET (1..Len(attempts)), NEW do \in {"lost", "dispatch"},
         NEW q \in ForEach(do, as)
  PROVE  q \in Seq(Harmless)
<1>1. /\ q \in Seq(TaskSet(Len(attempts), Len(tracers)))
      /\ \A i \in DOMAIN q : q[i].do = do
  BY ForEachFacts DEF Dos
<1>2. \A i \in DOMAIN q : q[i] \in Harmless
  <2>1. \A i \in DOMAIN q : q[i] \in TaskSet(Len(attempts), Len(tracers))
    BY <1>1
  <2> QED
    BY <1>1, <2>1 DEF Harmless, TaskSet
<1> QED
  BY <1>1, <1>2

\* An agenda of such tasks and of tasks that were there before.
Tame == agenda' \in Seq(Harmless \cup Range(agenda))

LEMMA AgendaParts ==
  ASSUME Types
  PROVE  /\ agenda \in Seq(Harmless \cup Range(agenda)) /\ <<>> \in Seq(Harmless \cup Range(agenda))
         /\ agenda # <<>> => Tail(agenda) \in Seq(Harmless \cup Range(agenda))
         /\ Seq(Harmless) \subseteq Seq(Harmless \cup Range(agenda))
         /\ \A p, q \in Seq(Harmless \cup Range(agenda)) : p \o q \in Seq(Harmless \cup Range(agenda))
<1> DEFINE S == Harmless \cup Range(agenda)
<1>1. agenda \in Seq(S)
  <2>1. agenda \in Seq(TaskSet(Len(attempts), Len(tracers))) /\ \A i \in DOMAIN agenda : agenda[i] \in S
    BY Sizes DEF Range
  <2> HIDE DEF S
  <2> QED
    BY <2>1
<1>2. Harmless \subseteq S
  OBVIOUS
<1> HIDE DEF S
<1>3. Seq(Harmless) \subseteq Seq(S)
  BY <1>2, WiderSeq
<1>4. agenda # <<>> => Tail(agenda) \in Seq(S)
  BY <1>1, RestElements
<1>5. \A p, q \in Seq(S) : p \o q \in Seq(S)
  BY ConcatProperties
<1>6. <<>> \in Seq(S)
  OBVIOUS
<1> QED
  BY <1>1, <1>3, <1>4, <1>5, <1>6 DEF S

LEMMA ContinueTame ==
  ASSUME Types, listeners # 0, Continue
  PROVE  Tame
<1> DEFINE t == Head(agenda)
           rest == Tail(agenda)
           Q == Seq(Harmless \cup Range(agenda))
<1>1. /\ agenda # <<>> /\ t.a \in DOMAIN attempts
  BY HeadFacts DEF Continue
<1>2. /\ rest \in Q /\ <<>> \in Q /\ Seq(Harmless) \subseteq Q
      /\ \A p, q \in Q : p \o q \in Q
  BY <1>1, AgendaParts
<1>3. /\ <<CallbackOf(t.a, FALSE)>> \in Q
      /\ \A code \in RpcErrors, flag \in BOOLEAN : Emit(code, t.a, flag, attempts[t.a].tracer) \in Q
  BY <1>1, <1>2, HarmlessFacts
<1>4. \/ agenda' = SendFailed(t.a) \o rest
      \/ RunCallback(t.a, t.flag, rest) \/ RunDispatch(t.a, rest)
      \/ FailFast(t, rest) \/ FailOver(t, rest) \/ FailSafe(t, rest)
      \/ Throw("unhandled error")
  BY DEF Continue
<1> HIDE DEF t, rest, Q
<1>5. CASE agenda' = SendFailed(t.a) \o rest
  <2>1. Emit("FAIL_SEND_MESSAGE", t.a, FALSE, attempts[t.a].tracer) \in Q
    BY <1>3 DEF RpcErrors
  <2>2. SendFailed(t.a) \in Q
    BY <1>2, <1>3, <2>1 DEF SendFailed
  <2> QED
    BY <1>2, <1>5, <2>2, Zenon DEF Tame, Q
<1>6. CASE agenda' = <<>> \/ agenda' = rest
  BY <1>2, <1>6, Zenon DEF Tame, Q
<1>7. CASE agenda' = <<CallbackOf(t.a, FALSE)>> \o rest \/ agenda' = <<>> \o rest
  BY <1>2, <1>3, <1>7, Zenon DEF Tame, Q
<1>8. CASE RunCallback(t.a, t.flag, rest) \/ Throw("unhandled error")
  BY <1>6, <1>8 DEF RunCallback, Throw
<1>9. CASE RunDispatch(t.a, rest)
  <2>1. \/ agenda' = rest
        \/ \E code \in RpcErrors : agenda' = Emit(code, t.a, TRUE, attempts[t.a].tracer) \o rest
    BY <1>9, Zenon DEF RunDispatch, RpcErrors
  <2> QED
    BY <1>2, <1>3, <1>6, <2>1, Zenon DEF Tame, Q
<1>10. CASE FailFast(t, rest) \/ FailSafe(t, rest)
  BY <1>6, <1>7, <1>10 DEF FailFast, FailSafe, Throw
<1>11. CASE FailOver(t, rest)
  <2>1. CASE agenda' = <<Task("dispatch", Len(attempts) + 1)>> \o rest
    <3>1. Task("dispatch", Len(attempts) + 1) \in Harmless
      <4>1. Len(attempts) + 1 \in Nat
        BY Sizes
      <4> QED
        BY <4>1 DEF Task, Tasks, Harmless
    <3>2. <<Task("dispatch", Len(attempts) + 1)>> \in Q
      BY <1>2, <3>1, OnlyElement
    <3> QED
      BY <1>2, <2>1, <3>2, Zenon DEF Tame, Q
  <2> QED
    BY <1>6, <1>7, <1>11, <2>1 DEF FailOver, Throw
<1> QED
  BY <1>4, <1>5, <1>8, <1>9, <1>10, <1>11 DEF Tame, Q

\* Only an answer puts a result on the agenda.
LEMMA AgendaCases ==
  ASSUME ClientAssumption, Types, attempts # <<>> => listeners # 0, [Next]_vars
  PROVE  \/ Tame
         \/ \E a \in DOMAIN attempts, filtered \in BOOLEAN :
              /\ Answer(a, TRUE, filtered)
              /\ agenda' \in Seq(Harmless \cup {CallbackOf(a, TRUE)})
<1> DEFINE Q == Seq(Harmless \cup Range(agenda))
<1>1. /\ agenda \in Q /\ Seq(Harmless) \subseteq Q /\ \A p, q \in Seq(Harmless) : p \o q \in Seq(Harmless)
  BY AgendaParts, ConcatProperties
<1>2. \A a \in DOMAIN attempts : listeners # 0
  <2>1. attempts = <<>> => DOMAIN attempts = {}
    OBVIOUS
  <2> QED
    BY <2>1
<1> HIDE DEF Q
<1>3. ASSUME NEW c \in Calls, NEW kind \in {"one", "all"}, NEW q \in Seq(Servers),
             InvokeStep(c, kind, q)
      PROVE  agenda' \in Seq(Harmless)
  <2>1. \A i \in DOMAIN agenda' : \E a \in DOMAIN attempts' \ DOMAIN attempts :
          agenda'[i] = Task("dispatch", a)
    BY <1>3, InvokeFacts
  <2>2. agenda' \in Seq(TaskSet(Len(attempts'), Len(tracers')))
    <3>1. Types'
      BY <1>3, InvokeTypes DEF InvokeStep
    <3> QED
      BY <3>1 DEF Types, AgendaTypes
  <2>3. \A i \in DOMAIN agenda' : agenda'[i] \in Harmless
    <3>1. \A a : Task("dispatch", a).do = "dispatch"
      BY DEF Task
    <3>2. \A i \in DOMAIN agenda' : agenda'[i] \in Tasks /\ agenda'[i].do = "dispatch"
      BY <2>1, <2>2, <3>1 DEF TaskSet
    <3> QED
      BY <3>2 DEF Harmless
  <2> QED
    BY <2>2, <2>3
<1>4. CASE Continue
  <2>1. listeners # 0
    BY <1>2, <1>4, HeadFacts DEF Continue
  <2> QED
    BY <1>4, <2>1, ContinueTame
<1>5. UNCHANGED agenda => Tame
  BY <1>1 DEF Tame, Q
<1>6. CASE Start \/ StartTick \/ Stop \/ \E s \in Servers : AddServer(s)
  BY <1>5, <1>6 DEF Start, StartTick, Stop, AddServer, workVars
<1>7. agenda' \in Seq(Harmless) => Tame
  BY <1>1 DEF Tame, Q
<1>8. CASE CloseAll \/ \E s \in Servers : RemoveServer(s)
  <2>1. \E as : as \in SUBSET (1..Len(attempts)) /\ agenda' \in ForEach("lost", as)
    BY <1>8, HeldFacts DEF CloseAll, RemoveServer
  <2> QED
    BY <1>7, <2>1, HarmlessOrders
<1>9. ASSUME NEW c \in Calls,
             \/ ProxyIgnored(c) \/ RpcRejected(c)
             \/ \E s \in DefRoute : RpcInvoke(c, s)
             \/ \E q \in Lists : RpcToAll(c, q)
      PROVE  Tame
  <2>1. SettleStep(c) => UNCHANGED agenda
    BY DEF SettleStep, Settle
  <2>2. (\E kind \in {"one", "all"}, q \in Seq(Servers) : InvokeStep(c, kind, q))
          => agenda' \in Seq(Harmless)
    BY <1>3
  <2>3. SettleStep(c) \/ \E kind \in {"one", "all"}, q \in Seq(Servers) : InvokeStep(c, kind, q)
    BY <1>9, CallCases
  <2> QED
    BY <1>5, <1>7, <2>1, <2>2, <2>3, Zenon
<1>10. ASSUME NEW b \in DOMAIN boxes, MailboxConnected(b) PROVE Tame
  <2> DEFINE pending == {a \in DOMAIN attempts : attempts[a].place = "pending"
                                                 /\ attempts[a].server = boxes[b].server}
  <2>1. pending \in SUBSET (1..Len(attempts)) /\ agenda' \in ForEach("dispatch", pending)
    BY <1>10, Sizes DEF MailboxConnected
  <2> HIDE DEF pending
  <2>2. agenda' \in Seq(Harmless)
    BY <2>1, HarmlessOrders
  <2> QED
    BY <1>7, <2>2, Zenon
<1>11. ASSUME NEW b \in DOMAIN boxes, MailboxFailed(b) PROVE Tame
  <2> DEFINE a == boxes[b].opener
  <2>1. a \in DOMAIN attempts /\ "FAIL_CONNECT_SERVER" \in RpcErrors
    BY Sizes DEF BoxSet, RpcErrors
  <2>2. agenda' = Emit("FAIL_CONNECT_SERVER", a, TRUE, attempts[a].tracer)
    BY <1>11 DEF MailboxFailed
  <2> HIDE DEF a
  <2> QED
    BY <1>2, <1>7, <2>1, <2>2, HarmlessFacts, Zenon
<1>12. ASSUME NEW b \in DOMAIN boxes, MailboxEnded(b) PROVE Tame
  <2>1. PICK A1 \in SUBSET (1..Len(attempts)), A2 \in SUBSET (1..Len(attempts)) :
          \E own \in ForEach("lost", A1), others \in ForEach("lost", A2) : agenda' = own \o others
    BY <1>12, HeldFacts DEF MailboxEnded
  <2>2. PICK own \in ForEach("lost", A1), others \in ForEach("lost", A2) : agenda' = own \o others
    BY <2>1
  <2>3. own \in Seq(Harmless) /\ others \in Seq(Harmless)
    BY HarmlessOrders
  <2> QED
    BY <1>1, <1>7, <2>2, <2>3, Zenon
<1>13. ASSUME NEW a \in DOMAIN attempts, FilterDone(a) \/ FilterFailed(a) \/ CbTimeout(a)
       PROVE  Tame
  <2>1. /\ <<CallbackOf(a, FALSE)>> \in Seq(Harmless) /\ <<Task("lost", a)>> \in Seq(Harmless)
        /\ Emit("FAIL_FIND_MAILBOX", a, FALSE, attempts[a].tracer) \in Seq(Harmless)
        /\ Emit("FILTER_ERROR", a, FALSE, attempts[a].tracer) \in Seq(Harmless)
    BY <1>2, HarmlessFacts DEF RpcErrors
  <2>2. \/ agenda' = <<CallbackOf(a, FALSE)>>
                     \o Emit("FAIL_FIND_MAILBOX", a, FALSE, attempts[a].tracer)
        \/ agenda' = <<CallbackOf(a, FALSE)>> \o Emit("FILTER_ERROR", a, FALSE, attempts[a].tracer)
        \/ agenda' = <<Task("lost", a)>> \/ agenda' = agenda
    BY <1>13 DEF FilterDone, FilterFailed, CbTimeout
  <2> QED
    BY <1>1, <1>5, <1>7, <2>1, <2>2, Zenon
<1>14. ASSUME NEW a \in DOMAIN attempts, NEW ok \in BOOLEAN, NEW filtered \in BOOLEAN,
              Answer(a, ok, filtered)
       PROVE  \/ Tame
              \/ ok = TRUE /\ agenda' \in Seq(Harmless \cup {CallbackOf(a, TRUE)})
  <2> DEFINE e == IF filtered THEN <<>> ELSE Emit("FILTER_ERROR", a, FALSE, 0)
  <2>1. agenda' = e \o <<CallbackOf(a, ok)>>
    BY <1>14 DEF Answer
  <2>2. e \in Seq(Harmless)
    <3>1. 0 \in 0..Len(tracers) /\ "FILTER_ERROR" \in RpcErrors
      BY Sizes DEF RpcErrors
    <3>2. Emit("FILTER_ERROR", a, FALSE, 0) \in Seq(Harmless)
      BY <1>2, <3>1, HarmlessFacts
    <3>3. <<>> \in Seq(Harmless)
      OBVIOUS
    <3> QED
      BY <3>2, <3>3
  <2> HIDE DEF e
  <2>3. CASE ok = FALSE
    <3>1. <<CallbackOf(a, ok)>> \in Seq(Harmless)
      BY <1>2, <2>3, HarmlessFacts
    <3> QED
      BY <1>1, <1>7, <2>1, <2>2, <3>1, Zenon
  <2>4. CASE ok = TRUE
    <3> DEFINE S == Harmless \cup {CallbackOf(a, TRUE)}
    <3>1. CallbackOf(a, ok) \in S /\ Harmless \subseteq S
      BY <2>4
    <3> HIDE DEF S
    <3>2. e \in Seq(S) /\ <<CallbackOf(a, ok)>> \in Seq(S)
      BY <2>2, <3>1, WiderSeq, OnlyElement
    <3>3. agenda' \in Seq(S)
      BY <2>1, <3>2, ConcatProperties
    <3> QED
      BY <2>4, <3>3 DEF S
  <2> QED
    BY <2>3, <2>4
<1>15. ASSUME NEW t \in timers, RetryConnect(t) PROVE Tame
  <2>1. t.a \in DOMAIN attempts /\ t.tracer \in 0..Len(tracers) /\ "FAIL_CONNECT_SERVER" \in RpcErrors
    BY Sizes DEF TimerSet, RpcErrors
  <2>2. Emit("FAIL_CONNECT_SERVER", t.a, TRUE, t.tracer) \in Seq(Harmless)
    BY <1>2, <2>1, HarmlessFacts
  <2>3. <<>> \in Seq(Harmless)
    OBVIOUS
  <2> QED
    BY <1>7, <1>15, <2>2, <2>3, Zenon DEF RetryConnect, Throw
<1>16. ASSUME NEW t \in timers, RetryDispatch(t) PROVE Tame
  <2>1. Task("dispatch", Len(attempts) + 1) \in Harmless
    <3>1. Len(attempts) + 1 \in Nat
      BY Sizes
    <3> QED
      BY <3>1 DEF Task, Tasks, Harmless
  <2> QED
    BY <1>7, <1>16, <2>1, OnlyElement, Zenon DEF RetryDispatch
<1>17. CASE UNCHANGED vars
  BY <1>5, <1>17 DEF vars, workVars
<1> QED
  BY <1>4, <1>6, <1>8, <1>9, <1>10, <1>11, <1>12, <1>13, <1>14, <1>15, <1>16, <1>17, Zenon DEF Next

-----------------------------------------------------------------------------
(* Listeners.                                                              *)

\* Whoever can fail is heard, timers are failsafe's, and no exception comes from
\* an error without a listener.
Heard ==
  /\ state # "inited" => listeners # 0
  /\ attempts # <<>> => listeners # 0
  /\ \A i \in DOMAIN agenda : agenda[i].do # "unhandled"
  /\ failMode # "failsafe" => timers = {}
  /\ thrown # "unhandled error"
  /\ failMode \in {"failfast", "failback"} => thrown \in {"nothing", "callback called twice"}

\* What ends the process.
LEMMA ThrownCases ==
  ASSUME ClientAssumption, Types, [Next]_vars
  PROVE  \/ thrown' = thrown
         \/ CallbackStep /\ thrown' = "callback called twice"
         \/ failMode = "failover" /\ thrown' \in {"no message", "no callback"}
         \/ failMode = "failsafe" /\ thrown' = "no callback"
         \/ timers # {} /\ thrown' = "no mailbox"
         \/ agenda # <<>> /\ Head(agenda).do = "unhandled"
<1>1. CASE Continue
  <2>1. CASE CallbackStep
    BY <2>1 DEF CallbackStep, RunCallback, Throw
  <2>2. CASE FailOverStep \/ FailSafeStep
    BY <2>2, FailOverCases, FailSafeCases DEF FailSafeStep, Throw
  <2>3. CASE UNCHANGED thrown \/ (agenda # <<>> /\ Head(agenda).do = "unhandled")
    BY <2>3
  <2> QED
    BY <1>1, <2>1, <2>2, <2>3, ContinueCases
    DEF CallbackStep, FailOverStep, FailSafeStep, FailFast, userVars
<1>2. CASE Start \/ StartTick \/ Stop \/ CloseAll
  BY <1>2 DEF Start, StartTick, Stop, CloseAll, workVars, userVars
<1>3. ASSUME NEW s \in Servers, AddServer(s) \/ RemoveServer(s) PROVE thrown' = thrown
  BY <1>3 DEF AddServer, RemoveServer, workVars, userVars
<1>4. ASSUME NEW c \in Calls,
             \/ ProxyIgnored(c) \/ RpcRejected(c)
             \/ \E s \in DefRoute : RpcInvoke(c, s)
             \/ \E q \in Lists : RpcToAll(c, q)
      PROVE  thrown' = thrown
  BY <1>4 DEF ProxyIgnored, RpcRejected, RpcInvoke, RpcToAll, Settle, Invoke
<1>5. ASSUME NEW b \in DOMAIN boxes, MailboxConnected(b) \/ MailboxFailed(b) \/ MailboxEnded(b)
      PROVE  thrown' = thrown
  BY <1>5 DEF MailboxConnected, MailboxFailed, MailboxEnded, userVars
<1>6. ASSUME NEW a \in DOMAIN attempts,
             \/ FilterDone(a) \/ FilterFailed(a) \/ CbTimeout(a)
             \/ \E ok, filtered \in BOOLEAN : Answer(a, ok, filtered)
      PROVE  thrown' = thrown
  BY <1>6 DEF FilterDone, FilterFailed, CbTimeout, Answer, userVars
<1>7. ASSUME NEW t \in timers, RetryConnect(t) \/ RetryDispatch(t)
      PROVE  thrown' = thrown \/ thrown' = "no mailbox"
  BY <1>7 DEF RetryConnect, RetryDispatch, Throw, userVars
<1>8. CASE UNCHANGED vars
  BY <1>8 DEF vars, workVars, userVars
<1> QED
  BY <1>1, <1>2, <1>3, <1>4, <1>5, <1>6, <1>7, <1>8 DEF Next

\* failsafe is the only mode that sets timers.
LEMMA TimerCases ==
  ASSUME ClientAssumption, Types, [Next]_vars
  PROVE  timers' \subseteq timers \/ failMode = "failsafe"
<1>1. CASE NoRetry \/ \E t \in timers : RetryDispatch(t)
  BY <1>1 DEF NoRetry, RetryDispatch
<1>2. CASE FailOverStep
  BY <1>2, FailOverCases DEF Throw
<1>3. CASE FailSafeStep
  BY <1>3 DEF FailSafeStep, FailSafe
<1>4. CASE \E c \in Calls, kind \in {"one", "all"}, q \in Seq(Servers) : InvokeStep(c, kind, q)
  BY <1>4 DEF InvokeStep, Invoke, retryVars
<1> QED
  BY <1>1, <1>2, <1>3, <1>4, RetryCases

\* A first attempt is made by a client that has been started.
LEMMA FirstAttempt ==
  ASSUME ClientAssumption, Types, [Next]_vars, attempts' # <<>>
  PROVE  attempts # <<>> \/ state = "started"
<1>1. SUFFICES ASSUME DOMAIN attempts = {}, Types PROVE state = "started"
  <2>1. attempts # <<>> \/ DOMAIN attempts = {}
    OBVIOUS
  <2> QED
    BY <2>1
<1>2. attempts' \in Seq(AttemptSet(Len(tracers'), Len(boxes')))
  BY TypeStep DEF Types, AttemptTypes
<1>3. DOMAIN attempts' # {}
  <2>1. DOMAIN attempts' = 1..Len(attempts') /\ Len(attempts') \in Nat
    BY <1>2, LenProperties
  <2>2. Len(attempts') # 0
    BY <1>2, EmptySeq
  <2> QED
    BY <2>1, <2>2
<1>4. agenda = <<>> /\ timers = {}
  <2>1. Len(attempts) = 0
    BY <1>1, Sizes
  <2>2. timers = {}
    BY <2>1, Sizes DEF TimerSet
  <2>3. agenda = <<>>
    BY <1>1, HeadFacts
  <2> QED
    BY <2>2, <2>3
<1>5. ~NoRetry
  BY <1>1, <1>3 DEF NoRetry, SameRequests
<1> QED
  BY <1>4, <1>5, RetryCases DEF FailOverStep, FailSafeStep, InvokeStep

LEMMA HeardStep ==
  ASSUME ClientAssumption, Types, Heard, [Next]_vars
  PROVE  Heard'
<1>1. /\ state # "inited" => listeners # 0
      /\ attempts # <<>> => listeners # 0
      /\ listeners \in Nat
  BY Sizes DEF Heard
<1>2. state' # "inited" => listeners' # 0
  BY <1>1, LifeCases
<1>3. attempts' # <<>> => listeners' # 0
  <2>1. listeners # 0 => listeners' # 0
    BY <1>1, LifeCases
  <2> QED
    BY <1>1, <2>1, FirstAttempt
<1>4. \A i \in DOMAIN agenda' : agenda'[i].do # "unhandled"
  <2>1. \A e \in Harmless \cup Range(agenda) : e.do # "unhandled"
    BY DEF Harmless, Range, Heard
  <2>2. \A a : \A e \in Harmless \cup {CallbackOf(a, TRUE)} : e.do # "unhandled"
    <3>1. \A a : CallbackOf(a, TRUE).do # "unhandled"
      BY DEF CallbackOf, Task
    <3> QED
      BY <3>1 DEF Harmless
  <2>3. PICK S : agenda' \in Seq(S) /\ \A e \in S : e.do # "unhandled"
    BY <1>1, <2>1, <2>2, AgendaCases DEF Tame
  <2> QED
    BY <2>3
<1>5. failMode' = failMode
  BY LifeCases
<1>6. failMode' # "failsafe" => timers' = {}
  BY <1>5, TimerCases DEF Heard
<1>7. ~(agenda # <<>> /\ Head(agenda).do = "unhandled")
  BY HeadFacts DEF Heard
<1>8. /\ thrown' # "unhandled error"
      /\ failMode' \in {"failfast", "failback"} => thrown' \in {"nothing", "callback called twice"}
  BY <1>5, <1>7, ThrownCases DEF Heard
<1> QED
  BY <1>2, <1>3, <1>4, <1>6, <1>8 DEF Heard

LEMMA HeardAlways ==
  ASSUME ClientAssumption
  PROVE  Spec => []Heard
<1>1. Init => Heard
  BY DEF Init, Heard
<1>2. Types /\ Heard /\ [Next]_vars => Heard'
  BY HeardStep
<1> QED
  BY <1>1, <1>2, TypesAlways, PTL DEF Spec

-----------------------------------------------------------------------------
(* Broadcasts.                                                             *)

\* A task that reports a result is about a server that has executed the call.
Backed(t) ==
  t.do = "callback" /\ t.flag => attempts[t.a].server \in served[attempts[t.a].call]

\* Success is told of servers that have executed the call, and of all of them.
Executed ==
  /\ failMode # "failover" =>
       /\ \A a \in DOMAIN attempts : attempts[a].server = attempts[a].slot
       /\ \A c \in Calls : calls[c].good \subseteq served[c]
  /\ \A i \in DOMAIN agenda : Backed(agenda[i])
  /\ \A c \in Calls :
       /\ calls[c].kind = "all" /\ calls[c].success => calls[c].targets \subseteq calls[c].good
       /\ calls[c].kind = "none" => calls[c].targets = {} /\ calls[c].success = FALSE

\* Only failover sends a request to another server than the caller named.
LEMMA SlotStep ==
  ASSUME ClientAssumption, Types, Executed, [Next]_vars, failMode # "failover"
  PROVE  \A a \in DOMAIN attempts' : attempts'[a].server = attempts'[a].slot
<1>1. \A a \in DOMAIN attempts : attempts[a].server = attempts[a].slot
  BY DEF Executed
<1>2. CASE NoRetry
  BY <1>1, <1>2 DEF NoRetry, SameRequests, SameRequest
<1>3. CASE FailSafeStep
  BY <1>1, <1>3 DEF FailSafeStep, FailSafe
<1>4. CASE FailOverStep
  BY <1>4 DEF FailOverStep, FailOver
<1>5. ASSUME NEW c \in Calls, NEW kind \in {"one", "all"}, NEW q \in Seq(Servers),
             InvokeStep(c, kind, q)
      PROVE  \A a \in DOMAIN attempts' : attempts'[a].server = attempts'[a].slot
  <2>1. \A a \in DOMAIN attempts : attempts'[a] = attempts[a]
    BY <1>5, InvokeFacts
  <2>2. \A a \in DOMAIN attempts' \ DOMAIN attempts :
          \E s \in Range(q) : attempts'[a] = NewAttempt(c, s, s, TRUE, 0, 0)
    BY <1>5, InvokeFacts
  <2>3. \A s : NewAttempt(c, s, s, TRUE, 0, 0).server = NewAttempt(c, s, s, TRUE, 0, 0).slot
    BY DEF NewAttempt
  <2>4. \A a \in DOMAIN attempts' \ DOMAIN attempts : attempts'[a].server = attempts'[a].slot
    BY <2>2, <2>3
  <2> QED
    BY <1>1, <2>1, <2>4
<1>6. ASSUME NEW t \in timers, RetryDispatch(t)
      PROVE  \A a \in DOMAIN attempts' : attempts'[a].server = attempts'[a].slot
  <2> DEFINE a == attempts[t.a]
             x == NewAttempt(a.call, a.slot, a.server, FALSE, t.tracer, t.retry)
  <2>1. x.server = x.slot
    <3>1. t.a \in DOMAIN attempts
      BY Sizes DEF TimerSet
    <3> QED
      BY <1>1, <3>1 DEF NewAttempt
  <2>2. attempts' = Append(attempts, x)
    BY <1>6 DEF RetryDispatch
  <2> HIDE DEF x
  <2>3. /\ \A b \in DOMAIN attempts : attempts'[b] = attempts[b]
        /\ \A b \in DOMAIN attempts' \ DOMAIN attempts : attempts'[b] = x
    BY <2>2, AppendFacts
  <2> QED
    BY <1>1, <2>1, <2>3
<1> QED
  BY <1>2, <1>3, <1>4, <1>5, <1>6, RetryCases

\* What a callback does to its call, field by field.
LEMMA CallbackEffect ==
  ASSUME Types, CallbackStep
  PROVE  LET t == Head(agenda)
             c == attempts[t.a].call
             slot == attempts[t.a].slot
             good == IF t.flag THEN calls[c].good \cup {slot} ELSE calls[c].good
         IN  /\ t.a \in DOMAIN attempts /\ c \in Calls /\ slot \in Servers
             /\ \A d \in Calls \ {c} : calls'[d] = calls[d]
             /\ calls'[c].kind = calls[c].kind /\ calls'[c].targets = calls[c].targets
             /\ served' = served /\ attempts' = attempts /\ failMode' = failMode
             /\ \/ /\ Throw("callback called twice") /\ calls' = calls
                   /\ attempts[t.a].hasCb /\ calls[c].kind = "all" /\ slot \in calls[c].called
                \/ /\ agenda' = Tail(agenda) /\ UNCHANGED <<timers, thrown>>
                   /\ \/ ~attempts[t.a].hasCb /\ calls' = calls
                      \/ /\ attempts[t.a].hasCb /\ calls[c].kind = "all" /\ slot \notin calls[c].called
                         /\ calls'[c].called = calls[c].called \cup {slot}
                         /\ calls'[c].good = good
                         /\ calls'[c].reports = IF ~t.flag \/ good = calls[c].targets THEN 1
                                                ELSE calls[c].reports
                         /\ calls'[c].success = (calls[c].success \/ good = calls[c].targets)
                      \/ /\ attempts[t.a].hasCb /\ calls[c].kind # "all"
                         /\ calls'[c].called = calls[c].called /\ calls'[c].good = calls[c].good
                         /\ calls'[c].reports = calls[c].reports + 1
                         /\ calls'[c].success = calls[c].success
<1> DEFINE t == Head(agenda)
           c == attempts[t.a].call
           slot == attempts[t.a].slot
           good == IF t.flag THEN calls[c].good \cup {slot} ELSE calls[c].good
<1>1. /\ t.a \in DOMAIN attempts /\ t.flag \in BOOLEAN
  BY HeadFacts DEF CallbackStep
<1>2. calls \in [Calls -> CallStates]
  BY DEF Types, UserTypes
<1>3. RunCallback(t.a, t.flag, Tail(agenda))
  BY DEF CallbackStep
<1>4. UNCHANGED <<served, attempts, failMode>>
  BY DEF CallbackStep, lifeVars
<1> HIDE DEF t
<1>5. /\ c \in Calls /\ slot \in Servers
      /\ \/ /\ Throw("callback called twice") /\ UNCHANGED calls
            /\ attempts[t.a].hasCb /\ calls[c].kind = "all" /\ slot \in calls[c].called
         \/ /\ agenda' = Tail(agenda) /\ UNCHANGED <<timers, thrown>>
            /\ \/ ~attempts[t.a].hasCb /\ calls' = calls
               \/ /\ attempts[t.a].hasCb /\ calls[c].kind = "all" /\ slot \notin calls[c].called
                  /\ calls' = [calls EXCEPT ![c] = EachNext(calls[c], slot, t.flag)]
               \/ /\ attempts[t.a].hasCb /\ calls[c].kind # "all"
                  /\ calls' = [calls EXCEPT ![c].reports = @ + 1]
  BY <1>1, <1>3, CallbackCases
<1> HIDE DEF c, slot
<1>6. CASE /\ Throw("callback called twice") /\ UNCHANGED calls
           /\ attempts[t.a].hasCb /\ calls[c].kind = "all" /\ slot \in calls[c].called
  BY <1>1, <1>4, <1>5, <1>6 DEF t, c, slot
<1>7. CASE /\ agenda' = Tail(agenda) /\ UNCHANGED <<timers, thrown>>
           /\ ~attempts[t.a].hasCb /\ calls' = calls
  BY <1>1, <1>4, <1>5, <1>7 DEF t, c, slot
<1>8. CASE /\ agenda' = Tail(agenda) /\ UNCHANGED <<timers, thrown>>
           /\ attempts[t.a].hasCb /\ calls[c].kind = "all" /\ slot \notin calls[c].called
           /\ calls' = [calls EXCEPT ![c] = EachNext(calls[c], slot, t.flag)]
  <2>1. calls'[c] = EachNext(calls[c], slot, t.flag) /\ \A d \in Calls \ {c} : calls'[d] = calls[d]
    BY <1>2, <1>5, <1>8
  <2>2. /\ calls'[c].kind = calls[c].kind /\ calls'[c].targets = calls[c].targets
        /\ calls'[c].called = calls[c].called \cup {slot} /\ calls'[c].good = good
        /\ calls'[c].reports = IF ~t.flag \/ good = calls[c].targets THEN 1 ELSE calls[c].reports
        /\ calls'[c].success = (calls[c].success \/ good = calls[c].targets)
    <3>1. calls[c] \in CallStates
      BY <1>2, <1>5
    <3> HIDE DEF good
    <3> DEFINE n == EachNext(calls[c], slot, t.flag)
    <3>2. /\ n.kind = calls[c].kind /\ n.targets = calls[c].targets
          /\ n.called = calls[c].called \cup {slot} /\ n.good = good
          /\ n.reports = IF ~t.flag \/ good = calls[c].targets THEN 1 ELSE calls[c].reports
          /\ n.success = (calls[c].success \/ good = calls[c].targets)
      <4>1. slot \in Servers /\ t.flag \in BOOLEAN
        BY <1>1, <1>5
      <4> QED
        BY <3>1, <4>1 DEF good, EachNext, CallStates
    <3>3. calls'[c] = n
      BY <2>1
    <3> HIDE DEF n
    <3> QED
      BY <3>2, <3>3
  <2> QED
    BY <1>1, <1>4, <1>5, <1>8, <2>1, <2>2 DEF t, c, slot
<1>9. CASE /\ agenda' = Tail(agenda) /\ UNCHANGED <<timers, thrown>>
           /\ attempts[t.a].hasCb /\ calls[c].kind # "all"
           /\ calls' = [calls EXCEPT ![c].reports = @ + 1]
  <2>1. /\ \A d \in Calls \ {c} : calls'[d] = calls[d]
        /\ calls'[c].kind = calls[c].kind /\ calls'[c].targets = calls[c].targets
        /\ calls'[c].called = calls[c].called /\ calls'[c].good = calls[c].good
        /\ calls'[c].reports = calls[c].reports + 1
        /\ calls'[c].success = calls[c].success
    BY <1>2, <1>5, <1>9 DEF CallStates
  <2> QED
    BY <1>1, <1>4, <1>5, <1>9, <2>1 DEF t, c, slot
<1> QED
  BY <1>5, <1>6, <1>7, <1>8, <1>9

\* The same for a call that is settled at once.
LEMMA SettleEffect ==
  ASSUME Types, NEW c \in Calls, SettleStep(c)
  PROVE  /\ UNCHANGED <<lifeVars, infoVars, boxVars, retryVars, attempts, agenda, thrown, served>>
         /\ agenda = <<>> /\ thrown = "nothing" /\ calls[c].kind = "none"
         /\ \A d \in Calls \ {c} : calls'[d] = calls[d]
         /\ calls'[c].targets = calls[c].targets /\ calls'[c].called = calls[c].called
         /\ calls'[c].good = calls[c].good
         /\ calls'[c].kind \in {"one", "all", "ignored"}
         /\ calls'[c].kind # "ignored" => calls'[c].reports = 1
<1>1. calls \in [Calls -> CallStates]
  BY DEF Types, UserTypes
<1>2. ASSUME NEW kind, NEW n, NEW ok, Settle(c, kind, n, ok)
      PROVE  /\ UNCHANGED <<lifeVars, infoVars, boxVars, retryVars, attempts, agenda, thrown, served>>
             /\ \A d \in Calls \ {c} : calls'[d] = calls[d]
             /\ calls'[c].targets = calls[c].targets /\ calls'[c].called = calls[c].called
             /\ calls'[c].good = calls[c].good
             /\ calls'[c].kind = kind /\ calls'[c].reports = n
  <2>1. calls' = [[[calls EXCEPT ![c].kind = kind] EXCEPT ![c].reports = n] EXCEPT ![c].success = ok]
    BY <1>2 DEF Settle
  <2>2. /\ UNCHANGED <<lifeVars, infoVars, boxVars, retryVars, attempts, agenda, thrown, served>>
    BY <1>2 DEF Settle
  <2> QED
    BY <1>1, <2>1, <2>2 DEF CallStates
<1> QED
  BY <1>2 DEF SettleStep, Running

LEMMA AnswerEffect ==
  ASSUME Types, NEW a \in DOMAIN attempts, NEW ok \in BOOLEAN, NEW filtered \in BOOLEAN,
         Answer(a, ok, filtered)
  PROVE  /\ \A c \in Calls : served[c] \subseteq served'[c]
         /\ ok => attempts[a].server \in served'[attempts[a].call]
         /\ calls' = calls
<1>1. served \in [Calls -> SUBSET Servers] /\ attempts[a].call \in Calls
  BY Sizes, AttemptFields DEF Types, UserTypes
<1> QED
  BY <1>1 DEF Answer

LEMMA ServedGrows ==
  ASSUME ClientAssumption, Types, [Next]_vars
  PROVE  \A c \in Calls : served[c] \subseteq served'[c]
<1>1. CASE served' = served
  BY <1>1
<1>2. CASE CallbackStep \/ UNCHANGED <<calls, served>>
  BY <1>1, <1>2 DEF CallbackStep
<1>3. ASSUME NEW c \in Calls, SettleStep(c) PROVE served' = served
  BY <1>3, SettleEffect
<1>4. ASSUME NEW c \in Calls, NEW kind \in {"one", "all"}, NEW q \in Seq(Servers),
             InvokeStep(c, kind, q)
      PROVE  served' = served
  BY <1>4, InvokeRest
<1> QED
  BY <1>1, <1>2, <1>3, <1>4, AnswerEffect, UserCases

LEMMA BackedStep ==
  ASSUME ClientAssumption, Types, Heard, Executed, [Next]_vars
  PROVE  \A i \in DOMAIN agenda' : Backed(agenda[i])'
<1>1. \A a \in DOMAIN attempts :
        /\ attempts'[a].server = attempts[a].server /\ attempts'[a].call = attempts[a].call
        /\ attempts[a].call \in Calls
  <2>1. \A a \in DOMAIN attempts : attempts[a].call \in Calls
    BY Sizes, AttemptFields
  <2> QED
    BY <2>1, RequestsKept DEF SameRequest
<1>2. \A c \in Calls : served[c] \subseteq served'[c]
  BY ServedGrows
<1> DEFINE Good(t) == t.do = "callback" /\ t.flag => attempts'[t.a].server \in served'[attempts'[t.a].call]
<1>3. \A t \in Harmless : Good(t)
  BY DEF Harmless
<1>4. \A t \in Range(agenda) : Good(t)
  <2>1. ASSUME NEW i \in DOMAIN agenda PROVE Good(agenda[i])
    <3>1. agenda[i].a \in DOMAIN attempts /\ Backed(agenda[i])
      <4>1. agenda[i].a \in 1..Len(attempts)
        BY Sizes, TaskFields
      <4> QED
        BY <4>1, Sizes DEF Executed
    <3> QED
      BY <1>1, <1>2, <3>1 DEF Backed
  <2> HIDE DEF Good
  <2> QED
    BY <2>1 DEF Range
<1>5. ASSUME NEW a \in DOMAIN attempts, NEW filtered \in BOOLEAN, Answer(a, TRUE, filtered)
      PROVE  Good(CallbackOf(a, TRUE))
  <2>1. attempts[a].server \in served'[attempts[a].call]
    BY <1>5, AnswerEffect
  <2>2. CallbackOf(a, TRUE).a = a
    BY DEF CallbackOf, Task
  <2> QED
    BY <1>1, <2>1, <2>2
<1> HIDE DEF Good
<1>6. \A i \in DOMAIN agenda' : Good(agenda'[i])
  <2>1. ASSUME NEW S, agenda' \in Seq(S), \A t \in S : Good(t)
        PROVE  \A i \in DOMAIN agenda' : Good(agenda'[i])
    <3>1. \A i \in DOMAIN agenda' : agenda'[i] \in S
      BY <2>1
    <3> QED
      BY <2>1, <3>1, Zenon
  <2>2. CASE Tame
    <3>1. \A t \in Harmless \cup Range(agenda) : Good(t)
      BY <1>3, <1>4, Zenon
    <3> QED
      BY <2>1, <2>2, <3>1, Zenon DEF Tame
  <2>3. ASSUME NEW a \in DOMAIN attempts, NEW filtered \in BOOLEAN, Answer(a, TRUE, filtered),
               agenda' \in Seq(Harmless \cup {CallbackOf(a, TRUE)})
        PROVE  \A i \in DOMAIN agenda' : Good(agenda'[i])
    <3>1. Good(CallbackOf(a, TRUE))
      BY <1>5, <2>3
    <3>2. \A t \in Harmless \cup {CallbackOf(a, TRUE)} : Good(t)
      BY <1>3, <3>1, Zenon
    <3> QED
      BY <2>1, <2>3, <3>2, Zenon
  <2>4. attempts # <<>> => listeners # 0
    BY DEF Heard
  <2> QED
    BY <2>2, <2>3, <2>4, AgendaCases, Zenon
<1> QED
  BY <1>6 DEF Good, Backed

LEMMA ExecutedStep ==
  ASSUME ClientAssumption, Types, Heard, Executed, [Next]_vars
  PROVE  Executed'
<1>1. failMode' = failMode /\ \A c \in Calls : served[c] \subseteq served'[c]
  BY LifeCases, ServedGrows
<1>2. failMode # "failover" => \A a \in DOMAIN attempts' : attempts'[a].server = attempts'[a].slot
  BY SlotStep
<1>3. \A i \in DOMAIN agenda' : Backed(agenda[i])'
  BY BackedStep
<1> DEFINE Sound(c) == /\ calls'[c].kind = "all" /\ calls'[c].success
                          => calls'[c].targets \subseteq calls'[c].good
                       /\ calls'[c].kind = "none" => calls'[c].targets = {} /\ calls'[c].success = FALSE
                       /\ failMode # "failover" => calls'[c].good \subseteq served'[c]
<1>4. ASSUME NEW c \in Calls, calls'[c] = calls[c] PROVE Sound(c)
  BY <1>1, <1>4 DEF Executed
<1>5. ASSUME NEW c \in Calls PROVE Sound(c)
  <2>1. CASE UNCHANGED <<calls, served>>
    BY <1>4, <2>1
  <2>2. ASSUME NEW d \in Calls, SettleStep(d) PROVE Sound(c)
    <3>1. CASE c # d
      BY <1>4, <2>2, <3>1, SettleEffect
    <3>2. CASE c = d
      BY <1>1, <2>2, <3>2, SettleEffect DEF Executed
    <3> QED
      BY <3>1, <3>2
  <2>3. ASSUME NEW d \in Calls, NEW kind \in {"one", "all"}, NEW q \in Seq(Servers),
               InvokeStep(d, kind, q)
        PROVE  Sound(c)
    <3>1. CASE c # d
      BY <1>4, <2>3, <3>1, InvokeRest
    <3>2. CASE c = d
      BY <1>1, <2>3, <3>2, InvokeRest DEF Executed
    <3> QED
      BY <3>1, <3>2
  <2>4. ASSUME NEW a \in DOMAIN attempts, NEW ok \in BOOLEAN, NEW filtered \in BOOLEAN,
               Answer(a, ok, filtered)
        PROVE  Sound(c)
    BY <1>4, <2>4, AnswerEffect
  <2>5. CASE CallbackStep
    <3> DEFINE t == Head(agenda)
               d == attempts[t.a].call
               slot == attempts[t.a].slot
               good == IF t.flag THEN calls[d].good \cup {slot} ELSE calls[d].good
    <3>1. CASE calls'[c] = calls[c]
      BY <1>4, <3>1
    <3>2. t.a \in DOMAIN attempts /\ t = agenda[1] /\ 1 \in DOMAIN agenda /\ t.do = "callback"
      BY <2>5, HeadFacts DEF CallbackStep
    <3>3. failMode # "failover" /\ t.flag => slot \in served[d]
      BY <3>2 DEF Executed, Backed
    <3>4. CASE /\ c = d /\ calls[c].kind = "all"
               /\ calls'[c].kind = calls[c].kind /\ calls'[c].targets = calls[c].targets
               /\ calls'[c].good = good
               /\ calls'[c].success = (calls[c].success \/ good = calls[c].targets)
      <4>1. calls[c].good \subseteq good
        BY <3>4
      <4>2. failMode # "failover" => good \subseteq served[c]
        BY <3>3, <3>4 DEF Executed
      <4> HIDE DEF good
      <4>3. failMode # "failover" => calls'[c].good \subseteq served'[c]
        BY <1>1, <3>4, <4>2
      <4>4. calls'[c].success => calls'[c].targets \subseteq calls'[c].good
        <5>1. CASE calls[c].success
          BY <3>4, <4>1, <5>1 DEF Executed
        <5>2. CASE good = calls[c].targets
          BY <3>4, <5>2
        <5>3. calls'[c].success => calls[c].success \/ good = calls[c].targets
          BY <3>4, Zenon
        <5> QED
          BY <5>1, <5>2, <5>3
      <4>5. calls'[c].kind # "none"
        BY <3>4
      <4> QED
        BY <4>3, <4>4, <4>5
    <3>5. CASE /\ c = d /\ calls[c].kind # "all"
               /\ calls'[c].kind = calls[c].kind /\ calls'[c].targets = calls[c].targets
               /\ calls'[c].good = calls[c].good /\ calls'[c].success = calls[c].success
      BY <1>1, <3>5 DEF Executed
    <3> QED
      BY <2>5, <3>1, <3>4, <3>5, CallbackEffect
  <2> QED
    BY <2>1, <2>2, <2>3, <2>4, <2>5, UserCases
<1> QED
  BY <1>1, <1>2, <1>3, <1>5 DEF Executed

\* A call to all servers reports success only when each of them has executed it,
\* whatever fails, is retried or answers late; under failover the part of one
\* server may be done by another.
THEOREM BroadcastCorrect == Spec => []BroadcastComplete
<1>1. Init => Executed
  BY DEF Init, Executed
<1>2. Types /\ Heard /\ Executed /\ [Next]_vars => Executed'
  BY ClientAssumption, ExecutedStep
<1>3. Executed => BroadcastComplete
  BY DEF Executed, BroadcastComplete
<1> QED
  BY <1>1, <1>2, <1>3, TypesAlways, HeardAlways, ClientAssumption, PTL DEF Spec

=============================================================================
