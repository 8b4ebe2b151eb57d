--------------------------- MODULE ClientCallProofs ---------------------------
(***************************************************************************)
(* No call of a Client is forgotten.  As long as the user has not been     *)
(* told, some attempt with the user's callback is alive, or is the subject *)
(* of a task of the running handler that leads to the callback.            *)
(*                                                                         *)
(* And no part of a call is called back twice as long as no connection was *)
(* lost and start() was called once: one attempt at a time has a callback  *)
(* for it, which one task at a time can call.                              *)
(***************************************************************************)
EXTENDS ClientProofs

\* Tasks at whose end the callback of their attempt is called, or handed on to
\* another attempt.  An error may leave the callback out, and failsafe retries
\* without it; an attempt that dispatch() refuses is not retried.
Tells(t) == \/ t.do \in {"lost", "callback", "dispatch"}
            \/ t.do = "fail" /\ t.flag /\ t.code \in {"SERVER_NOT_STARTED", "NO_TRAGET_SERVER"}
Has(q, a) == \E i \in DOMAIN q : q[i].a = a /\ Tells(q[i])

Alive(a) == attempts[a].place \in {"pending", "filter", "held"}
Owing(a) == attempts[a].hasCb /\ (Alive(a) \/ Has(agenda, a))
Owes(c, s) == \E a \in DOMAIN attempts : attempts[a].call = c /\ attempts[a].slot = s /\ Owing(a)

\* What is left of a call before it is reported.
Unreported(c) == calls[c].kind \in {"one", "all"} /\ calls[c].reports = 0
Outstanding(c) ==
  /\ calls[c].called = calls[c].good
  /\ calls[c].good \subseteq calls[c].targets /\ calls[c].good # calls[c].targets
  /\ calls[c].kind = "one" => calls[c].called = {}

Owed ==
  /\ \A a \in DOMAIN attempts : /\ attempts[a].slot \in calls[attempts[a].call].targets
                                /\ calls[attempts[a].call].kind \in {"one", "all"}
  /\ \A c \in Calls : calls[c].kind = "none" =>
       calls[c].targets = {} /\ calls[c].called = {} /\ calls[c].good = {} /\ calls[c].reports = 0
  /\ \A c \in Calls : Unreported(c) =>
       /\ Outstanding(c)
       /\ thrown = "nothing" => \A s \in calls[c].targets \ calls[c].called : Owes(c, s)

-----------------------------------------------------------------------------
(* What is on an agenda.                                                   *)

LEMMA HasConcat ==
  ASSUME NEW S, NEW p \in Seq(S), NEW r \in Seq(S), NEW a, Has(p, a) \/ Has(r, a)
  PROVE  Has(p \o r, a)
<1> DEFINE q == p \o r
<1>1. /\ \A i \in DOMAIN p : i \in DOMAIN q /\ q[i] = p[i]
      /\ \A i \in DOMAIN r : \E j \in DOMAIN q : q[j] = r[i]
  <2>1. /\ q \in Seq(S)
        /\ \A i \in DOMAIN p : i \in DOMAIN q /\ q[i] = p[i]
        /\ \A i \in DOMAIN r : Len(p) + i \in DOMAIN q /\ q[Len(p) + i] = r[i]
    BY ConcatElements
  <2> QED
    BY <2>1, Zenon
<1> HIDE DEF q
<1>2. ASSUME Has(p, a) PROVE Has(q, a)
  BY <1>1, <1>2 DEF Has
<1>3. ASSUME Has(r, a) PROVE Has(q, a)
  <2>1. PICK i \in DOMAIN r : r[i].a = a /\ Tells(r[i])
    BY <1>3 DEF Has
  <2>2. \E j \in DOMAIN q : q[j] = r[i]
    BY <1>1
  <2> QED
    BY <2>1, <2>2 DEF Has
<1> QED
  BY <1>2, <1>3 DEF q

LEMMA HasRest ==
  ASSUME NEW S, NEW q \in Seq(S), q # <<>>, NEW a, Has(q, a)
  PROVE  (Head(q).a = a /\ Tells(Head(q))) \/ Has(Tail(q), a)
<1>1. PICK i \in DOMAIN q : q[i].a = a /\ Tells(q[i])
  BY DEF Has
<1>2. CASE i = 1
  BY <1>1, <1>2, RestElements
<1>3. CASE i - 1 \in DOMAIN Tail(q) /\ Tail(q)[i - 1] = q[i]
  BY <1>1, <1>3 DEF Has
<1> QED
  BY <1>2, <1>3, RestElements

LEMMA HasFirst ==
  ASSUME NEW x, NEW a, x.a = a, Tells(x)
  PROVE  Has(<<x>>, a)
<1>1. 1 \in DOMAIN <<x>> /\ <<x>>[1] = x
  OBVIOUS
<1> QED
  BY <1>1 DEF Has

Refusals == {"SERVER_NOT_STARTED", "NO_TRAGET_SERVER"}

LEMMA TellFacts ==
  ASSUME Types, listeners # 0, NEW a \in DOMAIN attempts
  PROVE  /\ \A do \in {"lost", "dispatch"} : <<Task(do, a)>> \in Seq(Tasks) /\ Has(<<Task(do, a)>>, a)
         /\ \A ok \in BOOLEAN : <<CallbackOf(a, ok)>> \in Seq(Tasks) /\ Has(<<CallbackOf(a, ok)>>, a)
         /\ \A code \in RpcErrors, flag \in BOOLEAN, tracer \in 0..Len(tracers) :
              Emit(code, a, flag, tracer) \in Seq(Tasks)
         /\ \A code \in Refusals, tracer \in 0..Len(tracers) : Has(Emit(code, a, TRUE, tracer), a)
         /\ SendFailed(a) \in Seq(Tasks) /\ Has(SendFailed(a), a)
         /\ attempts[a].tracer \in 0..Len(tracers)
<1>1. /\ a \in 1..Len(attempts) /\ Len(attempts) \in Nat /\ Len(tracers) \in Nat /\ listeners \in Nat
      /\ attempts[a].tracer \in 0..Len(tracers)
  BY Sizes, TaskOrders
<1>2. \A q \in Seq(TaskSet(Len(attempts), Len(tracers))) : q \in Seq(Tasks)
  <2>1. TaskSet(Len(attempts), Len(tracers)) \subseteq Tasks
    BY DEF TaskSet
  <2> QED
    BY <2>1, WiderSeq
<1>3. \A do \in {"lost", "dispatch"} : <<Task(do, a)>> \in Seq(Tasks) /\ Has(<<Task(do, a)>>, a)
  <2>1. \A do \in {"lost", "dispatch"} : Task(do, a).a = a /\ Tells(Task(do, a))
    BY DEF Task, Tells
  <2> QED
    BY <1>2, <2>1, HasFirst, TaskOrders DEF Dos
<1>4. \A ok \in BOOLEAN : <<CallbackOf(a, ok)>> \in Seq(Tasks) /\ Has(<<CallbackOf(a, ok)>>, a)
  <2>1. \A ok \in BOOLEAN : CallbackOf(a, ok).a = a /\ Tells(CallbackOf(a, ok))
    BY DEF CallbackOf, Task, Tells
  <2> QED
    BY <1>2, <2>1, HasFirst, TaskOrders
<1>5. \A code \in RpcErrors, flag \in BOOLEAN, tracer \in 0..Len(tracers) :
        Emit(code, a, flag, tracer) \in Seq(Tasks)
  BY <1>2, TaskOrders
<1>6. ASSUME NEW code \in Refusals, NEW tracer \in 0..Len(tracers)
      PROVE  Has(Emit(code, a, TRUE, tracer), a)
  <2> DEFINE e == Emit(code, a, TRUE, tracer)
  <2>1. 1 \in DOMAIN e /\ e[1].do = "fail" /\ e[1].a = a /\ e[1].code = code
    BY <1>1 DEF Emit, Task
  <2>2. e[1].flag
    BY <1>1 DEF Emit, Task
  <2> HIDE DEF e
  <2>3. Tells(e[1])
    BY <2>1, <2>2 DEF Tells, Refusals
  <2> QED
    BY <2>1, <2>3 DEF Has, e
<1>7. SendFailed(a) \in Seq(Tasks) /\ Has(SendFailed(a), a)
  <2>1. Emit("FAIL_SEND_MESSAGE", a, FALSE, attempts[a].tracer) \in Seq(Tasks)
    BY <1>1, <1>5 DEF RpcErrors
  <2>2. <<CallbackOf(a, FALSE)>> \in Seq(Tasks) /\ Has(<<CallbackOf(a, FALSE)>>, a)
    BY <1>4
  <2> QED
    BY <2>1, <2>2, HasConcat, ConcatProperties DEF SendFailed
<1> QED
  BY <1>1, <1>3, <1>4, <1>5, <1>6, <1>7

\* The agenda of a handler that does p first.
LEMMA HasOnward ==
  ASSUME Types, agenda # <<>>, NEW p \in Seq(Tasks), agenda' = p \o Tail(agenda), NEW a,
         Has(p, a) \/ (Has(agenda, a) /\ ~(Head(agenda).a = a /\ Tells(Head(agenda))))
  PROVE  Has(agenda', a)
<1>1. agenda \in Seq(Tasks)
  <2>1. TaskSet(Len(attempts), Len(tracers)) \subseteq Tasks
    BY DEF TaskSet
  <2> QED
    BY <2>1, WiderSeq, Sizes
<1>2. Tail(agenda) \in Seq(Tasks)
  BY <1>1
<1>3. Has(p, a) \/ Has(Tail(agenda), a)
  BY <1>1, HasRest
<1> QED
  BY <1>2, <1>3, HasConcat

-----------------------------------------------------------------------------
(* Handing on.                                                             *)

\* An attempt that owes a callback still does after the step, or another one does
\* in its place.
HandedOn(a) == \E b \in DOMAIN attempts' :
  /\ attempts'[b].call = attempts[a].call /\ attempts'[b].slot = attempts[a].slot
  /\ Owing(b)'

LEMMA StillOwing ==
  ASSUME NEW a \in DOMAIN attempts, a \in DOMAIN attempts', attempts[a].hasCb,
         SameRequest(attempts'[a], attempts[a]), Alive(a)' \/ Has(agenda', a)
  PROVE  HandedOn(a)
  BY DEF HandedOn, Owing, SameRequest, Alive

LEMMA MovedFacts ==
  ASSUME Types, NEW as, NEW place \in Places \ {"held"}, attempts' = Place(as, place)
  PROVE  /\ \A a \in DOMAIN attempts : a \in DOMAIN attempts' /\ SameRequest(attempts'[a], attempts[a])
         /\ \A a \in DOMAIN attempts : Alive(a)' \/ ~Alive(a) \/ a \in as
         /\ place \in {"pending", "filter"} => \A a \in DOMAIN attempts \cap as : Alive(a)'
<1>1. /\ DOMAIN attempts' = DOMAIN attempts
      /\ \A a \in DOMAIN attempts : SameRequest(attempts'[a], attempts[a])
  BY PlaceSame DEF SameRequests
<1>2. \A a \in DOMAIN attempts \ as : attempts'[a] = attempts[a]
  BY DEF Place
<1>3. \A a \in DOMAIN attempts \cap as : attempts'[a].place = place
  <2>1. \A a \in DOMAIN attempts : attempts[a] \in Attempts
    BY Sizes DEF AttemptSet
  <2> QED
    BY <2>1 DEF Place, Attempts
<1> QED
  BY <1>1, <1>2, <1>3 DEF Alive

\* A task of the running handler hands the callback on, unless it calls it.
LEMMA ContinueOwing ==
  ASSUME Types, listeners # 0, Continue, thrown' = "nothing",
         NEW a \in DOMAIN attempts, Owing(a), ~(CallbackStep /\ Head(agenda).a = a)
  PROVE  HandedOn(a)
<1> DEFINE t == Head(agenda)
           rest == Tail(agenda)
<1>1. /\ agenda # <<>> /\ UNCHANGED <<lifeVars, served>>
      /\ \/ /\ t.do = "lost" /\ agenda' = SendFailed(t.a) \o rest
            /\ UNCHANGED <<infoVars, boxVars, retryVars, userVars, attempts>>
         \/ /\ t.do = "callback" /\ RunCallback(t.a, t.flag, rest)
            /\ UNCHANGED <<infoVars, boxVars, tracers, attempts>>
         \/ /\ t.do = "dispatch" /\ RunDispatch(t.a, rest)
            /\ UNCHANGED <<infoVars, retryVars, calls, thrown>>
         \/ /\ t.do = "fail" /\ UNCHANGED <<known, boxVars, calls>>
            /\ FailFast(t, rest) \/ FailOver(t, rest) \/ FailSafe(t, rest)
         \/ /\ t.do = "unhandled" /\ Throw("unhandled error")
            /\ UNCHANGED <<infoVars, boxVars, tracers, calls, attempts>>
  BY ContinueCases
<1>2. t.a \in DOMAIN attempts /\ t.flag \in BOOLEAN /\ <<>> \in Seq(Tasks)
  <2>1. <<>> \in Seq(Tasks)
    OBVIOUS
  <2> QED
    BY <1>1, <2>1, HeadFacts
<1>3. attempts[a].hasCb /\ (Alive(a) \/ Has(agenda, a))
  BY DEF Owing
<1>4. rest = <<>> \o rest
  <2>1. rest \in Seq(TaskSet(Len(attempts), Len(tracers)))
    BY <1>1, HeadFacts
  <2> HIDE DEF rest
  <2> QED
    BY <2>1
<1>5. ASSUME NEW p \in Seq(Tasks), agenda' = p \o rest, UNCHANGED attempts,
             t.a = a /\ Tells(t) => Has(p, a)
      PROVE  HandedOn(a)
  <2>1. Alive(a)' \/ Has(agenda', a)
    BY <1>1, <1>3, <1>5, HasOnward DEF Alive
  <2> QED
    BY <1>3, <1>5, <2>1, StillOwing DEF SameRequest
<1>6. CASE t.do = "lost" /\ agenda' = SendFailed(t.a) \o rest /\ UNCHANGED attempts
  BY <1>2, <1>5, <1>6, TellFacts
<1>7. CASE t.do = "callback" /\ RunCallback(t.a, t.flag, rest) /\ UNCHANGED <<infoVars, boxVars, tracers, attempts>>
  <2>1. CallbackStep
    BY <1>1, <1>7 DEF CallbackStep
  <2>2. agenda' = <<>> \o rest
    BY <1>4, <1>7 DEF RunCallback, Throw
  <2> QED
    BY <1>2, <1>5, <1>7, <2>1, <2>2
<1>8. CASE t.do = "dispatch" /\ RunDispatch(t.a, rest)
  <2> DEFINE refusal(code) == Emit(code, t.a, TRUE, attempts[t.a].tracer)
  <2>1. \/ \E code \in Refusals : agenda' = refusal(code) \o rest /\ attempts' = Place({t.a}, "done")
        \/ /\ agenda' = rest
           /\ \E place \in {"pending", "filter"} : attempts' = Place({t.a}, place)
    BY <1>8 DEF RunDispatch, Refusals
  <2>2. \A code \in Refusals : refusal(code) \in Seq(Tasks) /\ Has(refusal(code), t.a)
    BY <1>2, TellFacts DEF Refusals, RpcErrors
  <2> HIDE DEF t, rest, refusal
  <2>3. CASE \E code \in Refusals : agenda' = refusal(code) \o rest /\ attempts' = Place({t.a}, "done")
    <3>1. /\ a \in DOMAIN attempts' /\ SameRequest(attempts'[a], attempts[a])
          /\ Alive(a)' \/ ~Alive(a) \/ a = t.a
      <4>1. "done" \in Places \ {"held"} /\ attempts' = Place({t.a}, "done")
        BY <2>3 DEF Places
      <4> QED
        BY <4>1, MovedFacts
    <3>2. Alive(a)' \/ Has(agenda', a)
      BY <1>1, <1>3, <2>2, <2>3, <3>1, HasOnward DEF t, rest
    <3> QED
      BY <1>3, <3>1, <3>2, StillOwing
  <2>4. CASE /\ agenda' = rest
             /\ \E place \in {"pending", "filter"} : attempts' = Place({t.a}, place)
    <3>1. /\ a \in DOMAIN attempts' /\ SameRequest(attempts'[a], attempts[a])
          /\ Alive(a)' \/ ~Alive(a) \/ a = t.a
          /\ a = t.a => Alive(a)'
      BY <2>4, MovedFacts DEF Places
    <3>2. Alive(a)' \/ Has(agenda', a)
      BY <1>1, <1>2, <1>3, <1>4, <2>4, <3>1, HasOnward DEF t, rest
    <3> QED
      BY <1>3, <3>1, <3>2, StillOwing
  <2> QED
    BY <2>1, <2>3, <2>4
<1>9. CASE t.do = "fail" /\ FailFast(t, rest)
  <2>1. CASE t.flag
    BY <1>2, <1>5, <1>9, <2>1, TellFacts DEF FailFast
  <2>2. CASE ~t.flag
    <3>1. agenda' = <<>> \o rest /\ UNCHANGED attempts /\ ~Tells(t)
      BY <1>9, <2>2 DEF FailFast, Tells
    <3> QED
      BY <1>2, <1>5, <3>1
  <2> QED
    BY <2>1, <2>2
<1>10. CASE t.do = "fail" /\ FailOver(t, rest)
  <2>1. CASE agenda' = <<CallbackOf(t.a, FALSE)>> \o rest /\ UNCHANGED attempts
    BY <1>2, <1>5, <2>1, TellFacts
  <2> DEFINE n == Len(attempts) + 1
             x == NewAttempt(attempts[t.a].call, attempts[t.a].slot,
                             Head(Splice(attempts[t.a].server)), t.flag /\ attempts[t.a].hasCb, 0, 0)
  <2>2. CASE /\ agenda' = <<Task("dispatch", n)>> \o rest
             /\ attempts' = Append(attempts, x)
    <3>1. /\ \A b \in DOMAIN attempts : b \in DOMAIN attempts' /\ attempts'[b] = attempts[b]
          /\ n \in DOMAIN attempts' /\ attempts'[n] = x /\ n \in Nat
      <4>1. attempts' = Append(attempts, x)
        BY <2>2
      <4> HIDE DEF x
      <4> QED
        BY <4>1, AppendFacts
    <3>2. <<Task("dispatch", n)>> \in Seq(Tasks) /\ Has(<<Task("dispatch", n)>>, n)
      <4>1. Task("dispatch", n) \in Tasks /\ Task("dispatch", n).a = n /\ Tells(Task("dispatch", n))
        BY <3>1 DEF Task, Tasks, Tells
      <4> QED
        BY <4>1, HasFirst, OnlyElement
    <3>3. CASE a = t.a /\ Tells(t)
      <4>1. x.call = attempts[a].call /\ x.slot = attempts[a].slot
        BY <3>3 DEF NewAttempt
      <4>2. x.hasCb
        BY <1>3, <1>10, <3>3 DEF NewAttempt, Tells
      <4> HIDE DEF n, x
      <4>3. Has(agenda', n)
        BY <1>1, <2>2, <3>2, HasOnward
      <4> QED
        BY <3>1, <4>1, <4>2, <4>3 DEF HandedOn, Owing
    <3>4. CASE ~(t.a = a /\ Tells(t))
      <4> HIDE DEF n, x
      <4>1. Alive(a)' \/ Has(agenda', a)
        BY <1>1, <1>3, <2>2, <3>1, <3>2, <3>4, HasOnward DEF Alive
      <4> QED
        BY <1>3, <3>1, <4>1, StillOwing DEF SameRequest
    <3> QED
      BY <3>3, <3>4
  <2>3. FailOverStep
    BY <1>1, <1>10 DEF FailOverStep, FailFast, FailSafe
  <2> QED
    BY <2>1, <2>2, <2>3, FailOverCases DEF Throw
<1>11. CASE t.do = "fail" /\ FailSafe(t, rest)
  <2>1. CASE agenda' = <<CallbackOf(t.a, FALSE)>> \o rest /\ UNCHANGED attempts
    BY <1>2, <1>5, <2>1, TellFacts
  <2>2. CASE /\ agenda' = rest /\ UNCHANGED attempts
             /\ t.code \in {"FAIL_CONNECT_SERVER", "FAIL_FIND_MAILBOX", "FAIL_SEND_MESSAGE"}
    <3>1. agenda' = <<>> \o rest /\ UNCHANGED attempts /\ ~Tells(t)
      BY <1>4, <1>11, <2>2 DEF Tells
    <3> QED
      BY <1>2, <1>5, <3>1
  <2> QED
    BY <1>1, <1>11, <2>1, <2>2, FailSafeCases DEF Throw
<1> QED
  BY <1>1, <1>6, <1>7, <1>8, <1>9, <1>10, <1>11 DEF Throw

LEMMA HasOrders ==
  ASSUME Types, NEW as \in SUBSET (1..Len(attempts)), NEW q \in ForEach("lost", as)
  PROVE  q \in Seq(Tasks) /\ \A a \in as : Has(q, a)
<1>1. /\ q \in Seq(TaskSet(Len(attempts), Len(tracers)))
      /\ \A a \in as : \E i \in DOMAIN q : q[i] = Task("lost", a)
  <2>1. "lost" \in Dos
    BY DEF Dos
  <2> QED
    BY <2>1, ForEachFacts, Zenon
<1>2. TaskSet(Len(attempts), Len(tracers)) \subseteq Tasks
  BY DEF TaskSet
<1>3. \A a : Task("lost", a).a = a /\ Tells(Task("lost", a))
  BY DEF Task, Tells
<1> QED
  BY <1>1, <1>2, <1>3, WiderSeq DEF Has

\* Every other step starts with an empty agenda.
LEMMA IdleOwing ==
  ASSUME ClientAssumption, Types, listeners # 0, [Next]_vars, ~Continue,
         NEW a \in DOMAIN attempts, Owing(a)
  PROVE  HandedOn(a)
<1>1. attempts[a].hasCb /\ (Alive(a) \/ Has(agenda, a))
  BY DEF Owing
<1>2. agenda = <<>> => Alive(a)
  BY <1>1 DEF Has
<1>3. CASE UNCHANGED attempts /\ Alive(a)
  BY <1>1, <1>3, StillOwing DEF Alive, SameRequest
<1>4. CASE UNCHANGED <<attempts, agenda>>
  BY <1>1, <1>4, StillOwing DEF Alive, SameRequest
<1>5. ASSUME NEW as, NEW place \in {"late", "done"}, attempts' = Place(as, place), Alive(a),
             a \in as => Has(agenda', a)
      PROVE  HandedOn(a)
  <2>1. place \in Places \ {"held"}
    BY DEF Places
  <2>2. /\ a \in DOMAIN attempts' /\ SameRequest(attempts'[a], attempts[a])
        /\ Alive(a)' \/ ~Alive(a) \/ a \in as
    BY <1>5, <2>1, MovedFacts
  <2> QED
    BY <1>1, <1>5, <2>2, StillOwing
<1>6. ASSUME a \in DOMAIN attempts', attempts'[a] = attempts[a], Alive(a) PROVE HandedOn(a)
  BY <1>1, <1>6, StillOwing DEF Alive, SameRequest
<1>7. CASE Start \/ StartTick \/ Stop \/ \E s \in Servers : AddServer(s)
  BY <1>4, <1>7 DEF Start, StartTick, Stop, AddServer, workVars
<1>8. CASE CloseAll \/ \E s \in Servers : RemoveServer(s)
  <2>1. \E as \in SUBSET (1..Len(attempts)) : attempts' = Place(as, "late") /\ agenda' \in ForEach("lost", as)
    BY <1>8, HeldFacts DEF CloseAll, RemoveServer
  <2>2. agenda = <<>>
    BY <1>8 DEF CloseAll, RemoveServer, Running
  <2> QED
    BY <1>2, <1>5, <2>1, <2>2, HasOrders
<1>9. ASSUME NEW c \in Calls,
             \/ ProxyIgnored(c) \/ RpcRejected(c)
             \/ \E s \in DefRoute : RpcInvoke(c, s)
             \/ \E q \in Lists : RpcToAll(c, q)
      PROVE  HandedOn(a)
  <2>1. CASE SettleStep(c)
    BY <1>4, <2>1, SettleEffect
  <2>2. ASSUME NEW kind \in {"one", "all"}, NEW q \in Seq(Servers), InvokeStep(c, kind, q)
        PROVE  HandedOn(a)
    BY <1>2, <1>6, <2>2, InvokeFacts, InvokeRest
  <2> QED
    BY <1>9, <2>1, <2>2, CallCases
<1>10. ASSUME NEW b \in DOMAIN boxes, MailboxConnected(b) \/ MailboxFailed(b)
       PROVE  HandedOn(a)
  BY <1>2, <1>3, <1>10 DEF MailboxConnected, MailboxFailed, Running
<1>11. ASSUME NEW b \in DOMAIN boxes, MailboxEnded(b) PROVE HandedOn(a)
  <2> DEFINE other == {mailboxes[boxes[b].server]} \ {0}
             ended == Open({b} \cup other)
             A1 == HeldBy({b})
             A2 == HeldBy(ended \ {b})
             A == HeldBy(ended)
  <2>1. /\ agenda = <<>> /\ attempts' = Place(A, "late")
        /\ \E own \in ForEach("lost", A1), others \in ForEach("lost", A2) : agenda' = own \o others
    BY <1>11 DEF MailboxEnded, Running
  <2>2. /\ A \subseteq A1 \cup A2
        /\ A1 \in SUBSET (1..Len(attempts)) /\ A2 \in SUBSET (1..Len(attempts))
    BY HeldFacts DEF HeldBy
  <2> HIDE DEF A, A1, A2
  <2>3. PICK own \in ForEach("lost", A1), others \in ForEach("lost", A2) : agenda' = own \o others
    BY <2>1
  <2>4. a \in A => Has(agenda', a)
    BY <2>2, <2>3, HasOrders, HasConcat
  <2> QED
    BY <1>2, <1>5, <2>1, <2>4
<1>12. ASSUME NEW b \in DOMAIN attempts, FilterDone(b) \/ FilterFailed(b) \/ CbTimeout(b)
       PROVE  HandedOn(a)
  <2>1. /\ <<CallbackOf(b, FALSE)>> \in Seq(Tasks) /\ <<Task("lost", b)>> \in Seq(Tasks)
        /\ Has(<<CallbackOf(b, FALSE)>>, b) /\ Has(<<Task("lost", b)>>, b)
        /\ Emit("FAIL_FIND_MAILBOX", b, FALSE, attempts[b].tracer) \in Seq(Tasks)
        /\ Emit("FILTER_ERROR", b, FALSE, attempts[b].tracer) \in Seq(Tasks)
    BY TellFacts DEF RpcErrors
  <2>2. Alive(a)
    BY <1>2, <1>12 DEF FilterDone, FilterFailed, CbTimeout, Running
  <2>3. \/ attempts' = Place({b}, "done") /\ agenda' = <<CallbackOf(b, FALSE)>>
                     \o Emit("FAIL_FIND_MAILBOX", b, FALSE, attempts[b].tracer)
        \/ attempts' = Place({b}, "done") /\ agenda' = <<CallbackOf(b, FALSE)>>
                     \o Emit("FILTER_ERROR", b, FALSE, attempts[b].tracer)
        \/ attempts' = Place({b}, "done") /\ agenda' = <<Task("lost", b)>>
        \/ /\ mailboxes[attempts[b].server] # 0
           /\ attempts' = Hold(b, mailboxes[attempts[b].server])
    BY <1>12 DEF FilterDone, FilterFailed, CbTimeout
  <2>4. CASE attempts' = Place({b}, "done") /\ Has(agenda', b)
    BY <1>5, <2>2, <2>4
  <2>5. CASE /\ mailboxes[attempts[b].server] # 0
             /\ attempts' = Hold(b, mailboxes[attempts[b].server])
    <3> DEFINE m == mailboxes[attempts[b].server]
    <3>1. m \in 1..Len(boxes) /\ Len(boxes) \in Nat
      BY <2>5, TaskOrders, Sizes DEF Types, BoxTypes
    <3>2. attempts' = Hold(b, m)
      BY <2>5
    <3> HIDE DEF m
    <3>3. a \in DOMAIN attempts' /\ SameRequest(attempts'[a], attempts[a])
      BY <3>1, <3>2, HoldSame DEF SameRequests
    <3>4. Alive(a)'
      <4>1. attempts[a] \in Attempts
        BY Sizes DEF AttemptSet
      <4> QED
        BY <2>2, <3>2, <4>1 DEF Hold, Alive, Attempts
    <3> QED
      BY <1>1, <3>3, <3>4, StillOwing
  <2> QED
    BY <2>1, <2>3, <2>4, <2>5, HasConcat, Zenon
<1>13. ASSUME NEW b \in DOMAIN attempts, NEW ok \in BOOLEAN, NEW filtered \in BOOLEAN,
              Answer(b, ok, filtered)
       PROVE  HandedOn(a)
  <2> DEFINE e == IF filtered THEN <<>> ELSE Emit("FILTER_ERROR", b, FALSE, 0)
  <2>1. agenda' = e \o <<CallbackOf(b, ok)>> /\ attempts' = Place({b}, "done") /\ agenda = <<>>
    BY <1>13 DEF Answer, Running
  <2>2. e \in Seq(Tasks)
    <3>1. 0 \in 0..Len(tracers) /\ "FILTER_ERROR" \in RpcErrors
      BY Sizes DEF RpcErrors
    <3>2. Emit("FILTER_ERROR", b, FALSE, 0) \in Seq(Tasks)
      BY <3>1, TellFacts
    <3>3. <<>> \in Seq(Tasks)
      OBVIOUS
    <3> QED
      BY <3>2, <3>3
  <2> HIDE DEF e
  <2>3. Has(agenda', b)
    BY <2>1, <2>2, TellFacts, HasConcat
  <2> QED
    BY <1>2, <1>5, <2>1, <2>3
<1>14. ASSUME NEW t \in timers, RetryConnect(t) PROVE HandedOn(a)
  BY <1>2, <1>3, <1>14 DEF RetryConnect, Running
<1>15. ASSUME NEW t \in timers, RetryDispatch(t) PROVE HandedOn(a)
  <2>1. a \in DOMAIN attempts' /\ attempts'[a] = attempts[a]
    BY <1>15, AppendFacts DEF RetryDispatch
  <2> QED
    BY <1>2, <1>6, <1>15, <2>1 DEF RetryDispatch, Running
<1>16. CASE UNCHANGED vars
  BY <1>4, <1>16 DEF vars, workVars
<1> QED
  BY <1>7, <1>8, <1>9, <1>10, <1>11, <1>12, <1>13, <1>14, <1>15, <1>16, Zenon DEF Next

-----------------------------------------------------------------------------
(* The invariant.                                                          *)

LEMMA TargetsStep ==
  ASSUME ClientAssumption, Types, Owed, [Next]_vars, NEW c \in Calls
  PROVE  /\ calls[c].kind \in {"one", "all"} =>
              calls'[c].kind = calls[c].kind /\ calls'[c].targets = calls[c].targets
         /\ calls'[c].kind = "none" =>
              /\ calls'[c].targets = {} /\ calls'[c].called = {} /\ calls'[c].good = {}
              /\ calls'[c].reports = 0
<1> DEFINE P == /\ calls[c].kind \in {"one", "all"} =>
                     calls'[c].kind = calls[c].kind /\ calls'[c].targets = calls[c].targets
                /\ calls'[c].kind = "none" =>
                     /\ calls'[c].targets = {} /\ calls'[c].called = {} /\ calls'[c].good = {}
                     /\ calls'[c].reports = 0
<1>1. calls'[c] = calls[c] => P
  BY DEF Owed
<1>2. ASSUME NEW d \in Calls, SettleStep(d) PROVE P
  BY <1>1, <1>2, SettleEffect
<1>3. ASSUME NEW d \in Calls, NEW kind \in {"one", "all"}, NEW q \in Seq(Servers),
             InvokeStep(d, kind, q)
      PROVE  P
  BY <1>1, <1>3, InvokeRest
<1>4. ASSUME NEW a \in DOMAIN attempts, NEW ok \in BOOLEAN, NEW filtered \in BOOLEAN,
             Answer(a, ok, filtered)
      PROVE  P
  BY <1>1, <1>4, AnswerEffect
<1>5. ASSUME CallbackStep PROVE P
  <2> DEFINE d == attempts[Head(agenda).a].call
  <2>1. c = d => /\ calls'[c].kind = calls[c].kind /\ calls'[c].targets = calls[c].targets
                 /\ calls[c].kind \in {"one", "all"}
    <3>1. Head(agenda).a \in DOMAIN attempts
      BY <1>5, HeadFacts DEF CallbackStep
    <3> QED
      BY <1>5, <3>1, CallbackEffect DEF Owed
  <2>2. c # d => calls'[c] = calls[c]
    BY <1>5, CallbackEffect
  <2> QED
    BY <1>1, <2>1, <2>2
<1> HIDE DEF P
<1>6. P
  <2>1. CASE UNCHANGED <<calls, served>>
    BY <1>1, <2>1
  <2>2. CASE \E d \in Calls : SettleStep(d)
    BY <1>2, <2>2, Zenon
  <2>3. CASE \E d \in Calls, kind \in {"one", "all"}, q \in Seq(Servers) : InvokeStep(d, kind, q)
    BY <1>3, <2>3, Zenon
  <2>4. CASE \E a \in DOMAIN attempts, ok, filtered \in BOOLEAN : Answer(a, ok, filtered)
    BY <1>4, <2>4, Zenon
  <2> QED
    BY <1>5, <2>1, <2>2, <2>3, <2>4, UserCases
<1> QED
  BY <1>6 DEF P

\* Only failures' repeats and new calls make attempts, and each is for a target.
LEMMA SlotsStep ==
  ASSUME ClientAssumption, Types, Owed, [Next]_vars
  PROVE  \A a \in DOMAIN attempts' :
           /\ attempts'[a].slot \in calls'[attempts'[a].call].targets
           /\ calls'[attempts'[a].call].kind \in {"one", "all"}
<1> DEFINE Fit(x) == /\ x.slot \in calls'[x.call].targets
                     /\ calls'[x.call].kind \in {"one", "all"}
<1>1. \A a \in DOMAIN attempts : Fit(attempts[a])
  <2>1. \A a \in DOMAIN attempts : attempts[a].call \in Calls
    BY Sizes, AttemptFields
  <2> QED
    BY <2>1, TargetsStep DEF Owed
<1>2. ASSUME NEW x, NEW y, x.call = y.call, x.slot = y.slot, Fit(y) PROVE Fit(x)
  BY <1>2
<1> HIDE DEF Fit
<1>3. ASSUME NEW a \in DOMAIN attempts PROVE Fit(attempts'[a])
  BY <1>1, <1>2, RequestsKept DEF SameRequest
<1>4. CASE DOMAIN attempts' = DOMAIN attempts
  BY <1>3, <1>4 DEF Fit
<1>5. ASSUME NEW x, attempts' = Append(attempts, x), NEW b \in DOMAIN attempts,
             x.call = attempts[b].call, x.slot = attempts[b].slot
      PROVE  \A a \in DOMAIN attempts' : Fit(attempts'[a])
  <2>1. Fit(x)
    BY <1>1, <1>2, <1>5
  <2> QED
    BY <1>1, <1>5, <2>1, AppendFacts
<1>6. CASE FailOverStep
  <2> DEFINE t == Head(agenda)
             x == NewAttempt(attempts[t.a].call, attempts[t.a].slot,
                             Head(Splice(attempts[t.a].server)), t.flag /\ attempts[t.a].hasCb, 0, 0)
  <2>1. attempts' = attempts \/ attempts' = Append(attempts, x)
    BY <1>6, FailOverCases
  <2>2. t.a \in DOMAIN attempts
    BY <1>6, HeadFacts DEF FailOverStep
  <2>3. x.call = attempts[t.a].call /\ x.slot = attempts[t.a].slot
    BY DEF NewAttempt
  <2> HIDE DEF x, t
  <2> QED
    BY <1>4, <1>5, <2>1, <2>2, <2>3 DEF Fit
<1>7. ASSUME NEW t \in timers, RetryDispatch(t)
      PROVE  \A a \in DOMAIN attempts' : Fit(attempts'[a])
  <2> DEFINE a == attempts[t.a]
             x == NewAttempt(a.call, a.slot, a.server, FALSE, t.tracer, t.retry)
  <2>1. attempts' = Append(attempts, x) /\ t.a \in DOMAIN attempts
    BY <1>7, Sizes DEF RetryDispatch, TimerSet
  <2>2. x.call = attempts[t.a].call /\ x.slot = attempts[t.a].slot
    BY DEF NewAttempt
  <2> HIDE DEF x
  <2> QED
    BY <1>5, <2>1, <2>2
<1>8. ASSUME NEW c \in Calls, NEW kind \in {"one", "all"}, NEW q \in Seq(Servers),
             InvokeStep(c, kind, q)
      PROVE  \A a \in DOMAIN attempts' : Fit(attempts'[a])
  <2>1. calls'[c].kind \in {"one", "all"} /\ calls'[c].targets = Range(q)
    BY <1>8, InvokeRest
  <2>2. \A s \in Range(q) : Fit(NewAttempt(c, s, s, TRUE, 0, 0))
    BY <2>1 DEF NewAttempt, Fit
  <2>3. \A a \in DOMAIN attempts' \ DOMAIN attempts :
          \E s \in Range(q) : attempts'[a] = NewAttempt(c, s, s, TRUE, 0, 0)
    BY <1>8, InvokeFacts
  <2> QED
    BY <1>3, <2>2, <2>3
<1>9. CASE NoRetry \/ FailSafeStep
  BY <1>4, <1>9 DEF NoRetry, SameRequests, FailSafeStep, FailSafe, Fit
<1> QED
  BY <1>6, <1>7, <1>8, <1>9, RetryCases DEF Fit

\* A callback that leaves its call unreported is one part of it done.
LEMMA CallbackOwed ==
  ASSUME ClientAssumption, Types, Owed, CallbackStep, NEW c \in Calls, Unreported(c)'
  PROVE  /\ Outstanding(c)' /\ Unreported(c)
         /\ calls'[c].targets = calls[c].targets
         /\ calls[c].called \subseteq calls'[c].called
         /\ \/ thrown' # "nothing"
            \/ attempts[Head(agenda).a].call # c
            \/ ~attempts[Head(agenda).a].hasCb
            \/ attempts[Head(agenda).a].slot \in calls'[c].called
<1> DEFINE t == Head(agenda)
           d == attempts[t.a].call
           slot == attempts[t.a].slot
           good == IF t.flag THEN calls[d].good \cup {slot} ELSE calls[d].good
<1>1. /\ t.a \in DOMAIN attempts /\ d \in Calls
      /\ \A e \in Calls \ {d} : calls'[e] = calls[e]
      /\ calls'[d].kind = calls[d].kind /\ calls'[d].targets = calls[d].targets
  BY CallbackEffect
<1>2. calls'[c].kind = calls[c].kind /\ calls'[c].targets = calls[c].targets
  BY <1>1
<1>3. slot \in calls[d].targets /\ calls[d].kind \in {"one", "all"}
  BY <1>1 DEF Owed
<1>4. Unreported(c) => Outstanding(c)
  BY DEF Owed
<1>8. calls'[c].reports = 0 /\ calls'[c].kind \in {"one", "all"}
  BY DEF Unreported
<1>9. calls[c].reports \in Nat
  BY DEF Types, UserTypes, CallStates
<1>10. /\ slot \in Servers
       /\ \/ thrown' # "nothing" /\ calls' = calls
          \/ ~attempts[t.a].hasCb /\ calls' = calls
          \/ /\ calls[d].kind = "all"
             /\ calls'[d].called = calls[d].called \cup {slot} /\ calls'[d].good = good
             /\ calls'[d].reports = IF ~t.flag \/ good = calls[d].targets THEN 1
                                    ELSE calls[d].reports
          \/ calls'[d].reports = calls[d].reports + 1
  BY CallbackEffect DEF Throw
<1>5. CASE calls'[c] = calls[c]
  <2>1. Unreported(c) /\ Outstanding(c)'
    <3>1. Unreported(c)
      BY <1>5, <1>8 DEF Unreported
    <3> QED
      BY <1>4, <1>5, <3>1 DEF Outstanding
  <2>2. \/ thrown' # "nothing" \/ d # c \/ ~attempts[t.a].hasCb \/ slot \in calls'[c].called
    <3> HIDE DEF t, d, slot, good
    <3> QED
      BY <1>5, <1>9, <1>10
  <2> QED
    BY <1>2, <1>5, <2>1, <2>2
<1>6. CASE /\ c = d /\ calls[c].kind = "all"
           /\ calls'[c].called = calls[c].called \cup {slot}
           /\ calls'[c].good = good
           /\ calls'[c].reports = IF ~t.flag \/ good = calls[c].targets THEN 1 ELSE calls[c].reports
  <2>1. t.flag /\ good # calls[c].targets /\ calls[c].reports = 0
    <3> HIDE DEF good, d
    <3> QED
      BY <1>6, <1>8
  <2>2. Unreported(c)
    BY <1>6, <2>1 DEF Unreported
  <2>3. Outstanding(c)
    BY <1>4, <2>2
  <2>4. Outstanding(c)'
    <3>1. good = calls[c].good \cup {slot}
      BY <1>6, <2>1
    <3> HIDE DEF good, d, slot, t
    <3> QED
      BY <1>2, <1>3, <1>6, <2>1, <2>3, <3>1 DEF Outstanding
  <2> QED
    BY <1>2, <1>6, <2>2, <2>4
<1>7. CASE c = d /\ calls'[c].reports = calls[c].reports + 1
  <2>1. calls[c].reports + 1 = 0
    BY <1>7, <1>8
  <2>2. FALSE
    <3> DEFINE n == calls[c].reports
    <3>1. n \in Nat /\ n + 1 = 0
      BY <1>9, <2>1
    <3> HIDE DEF n
    <3> QED
      BY <3>1
  <2> QED
    BY <2>2
<1> QED
  BY <1>1, <1>5, <1>6, <1>7, <1>10

LEMMA InvokeOwes ==
  ASSUME Types, NEW c \in Calls, NEW kind \in {"one", "all"}, NEW q \in Seq(Servers),
         InvokeStep(c, kind, q)
  PROVE  \A r \in Range(q) : Owes(c, r)'
<1>1. ASSUME NEW r \in Range(q) PROVE Owes(c, r)'
  <2>1. Asked(c, r)
    BY <1>1, InvokeFacts
  <2>2. PICK a \in DOMAIN attempts' :
          /\ attempts'[a] = NewAttempt(c, r, r, TRUE, 0, 0)
          /\ \E i \in DOMAIN agenda' : agenda'[i] = Task("dispatch", a)
    BY <2>1 DEF Asked
  <2>3. attempts'[a].call = c /\ attempts'[a].slot = r /\ attempts'[a].hasCb
    BY <2>2 DEF NewAttempt
  <2>4. Has(agenda', a)
    <3>1. Task("dispatch", a).a = a /\ Tells(Task("dispatch", a))
      BY DEF Task, Tells
    <3> QED
      BY <2>2, <3>1 DEF Has
  <2> QED
    BY <2>3, <2>4 DEF Owes, Owing
<1> QED
  BY <1>1

LEMMA OwedStep ==
  ASSUME ClientAssumption, Types, Heard, Owed, [Next]_vars
  PROVE  Owed'
<1>1. \A c \in Calls : calls'[c].kind = "none" =>
        calls'[c].targets = {} /\ calls'[c].called = {} /\ calls'[c].good = {} /\ calls'[c].reports = 0
  BY TargetsStep
<1>2. \A a \in DOMAIN attempts : listeners # 0
  <2>1. attempts = <<>> => DOMAIN attempts = {}
    OBVIOUS
  <2> QED
    BY <2>1 DEF Heard
<1>3. ASSUME NEW a \in DOMAIN attempts, Owing(a), thrown' = "nothing",
             ~(CallbackStep /\ Head(agenda).a = a)
      PROVE  HandedOn(a)
  BY <1>2, <1>3, ContinueOwing, IdleOwing
<1>4. thrown' = "nothing" => thrown = "nothing"
  BY ThrownCases, HeadFacts DEF Heard
<1>5. ASSUME NEW c \in Calls, Unreported(c), thrown' = "nothing",
             calls'[c].targets = calls[c].targets, calls[c].called \subseteq calls'[c].called,
             NEW s \in calls'[c].targets \ calls'[c].called,
             ~CallbackStep \/ attempts[Head(agenda).a].call # c \/ ~attempts[Head(agenda).a].hasCb
               \/ attempts[Head(agenda).a].slot \in calls'[c].called
      PROVE  Owes(c, s)'
  <2>1. PICK a \in DOMAIN attempts : attempts[a].call = c /\ attempts[a].slot = s /\ Owing(a)
    BY <1>4, <1>5 DEF Owed, Owes
  <2>2. HandedOn(a)
    BY <1>3, <1>5, <2>1 DEF Owing
  <2> QED
    BY <2>1, <2>2 DEF HandedOn, Owes
<1>6. ASSUME NEW c \in Calls, Unreported(c)'
      PROVE  /\ Outstanding(c)'
             /\ thrown' = "nothing" => \A s \in calls'[c].targets \ calls'[c].called : Owes(c, s)'
  <2> DEFINE P == /\ Outstanding(c)'
                  /\ thrown' = "nothing" =>
                       \A s \in calls'[c].targets \ calls'[c].called : Owes(c, s)'
  <2>1. calls'[c].reports = 0 /\ calls'[c].kind \in {"one", "all"}
    BY <1>6 DEF Unreported
  <2>2. ASSUME calls'[c] = calls[c], ~CallbackStep PROVE P
    <3>1. Unreported(c) /\ Outstanding(c)'
      BY <2>1, <2>2 DEF Unreported, Outstanding, Owed
    <3> QED
      BY <1>5, <2>2, <3>1
  <2>3. ASSUME CallbackStep PROVE P
    BY <1>5, <1>6, <2>3, CallbackOwed
  <2>4. ASSUME NEW d \in Calls, SettleStep(d) PROVE P \/ CallbackStep
    BY <2>1, <2>2, <2>4, SettleEffect
  <2>5. ASSUME NEW d \in Calls, NEW kind \in {"one", "all"}, NEW q \in Seq(Servers),
               InvokeStep(d, kind, q)
        PROVE  P \/ CallbackStep
    <3>1. CASE c # d
      BY <2>2, <2>5, <3>1, InvokeRest
    <3>2. CASE c = d
      <4>1. /\ Range(q) # {} /\ calls'[c].kind = kind /\ calls'[c].targets = Range(q)
            /\ calls'[c].called = {} /\ calls'[c].good = {}
        BY <2>5, <3>2, InvokeRest DEF Owed
      <4>2. Outstanding(c)'
        BY <4>1 DEF Outstanding
      <4>3. \A s \in Range(q) : Owes(c, s)'
        BY <2>5, <3>2, InvokeOwes
      <4> QED
        BY <4>1, <4>2, <4>3
    <3> QED
      BY <3>1, <3>2
  <2>6. ASSUME NEW a \in DOMAIN attempts, NEW ok \in BOOLEAN, NEW filtered \in BOOLEAN,
               Answer(a, ok, filtered)
        PROVE  P \/ CallbackStep
    BY <2>2, <2>6, AnswerEffect
  <2> HIDE DEF P
  <2>11. P
    <3>1. CASE UNCHANGED <<calls, served>>
      BY <2>2, <2>3, <3>1
    <3>2. CASE \E d \in Calls : SettleStep(d)
      BY <2>3, <2>4, <3>2, Zenon
    <3>3. CASE \E d \in Calls, kind \in {"one", "all"}, q \in Seq(Servers) : InvokeStep(d, kind, q)
      BY <2>3, <2>5, <3>3, Zenon
    <3>4. CASE \E a \in DOMAIN attempts, ok, filtered \in BOOLEAN : Answer(a, ok, filtered)
      BY <2>3, <2>6, <3>4, Zenon
    <3> QED
      BY <2>3, <3>1, <3>2, <3>3, <3>4, UserCases
  <2> QED
    BY <2>11 DEF P
<1> QED
  BY <1>1, <1>6, SlotsStep DEF Owed

LEMMA OwedAlways ==
  ASSUME ClientAssumption
  PROVE  Spec => []Owed
<1>1. Init => Owed
  BY DEF Init, Owed, Unreported
<1>2. Types /\ Heard /\ Owed /\ [Next]_vars => Owed'
  BY ClientAssumption, OwedStep
<1> QED
  BY <1>1, <1>2, TypesAlways, HeardAlways, PTL DEF Spec

\* No call is forgotten: whatever is lost, refused, retried or failed over, a call
\* that has not been reported has a request with the user's callback underway
\* whenever the client is not in the middle of a handler.
THEOREM CallsCorrect == Spec => []NoCallVanishes
<1>1. Owed => NoCallVanishes
  <2>1. ASSUME Owed, NEW c \in Calls, Running, Unreported(c) PROVE Waiting(c)
    <3>4. Outstanding(c) /\ \A s \in calls[c].targets \ calls[c].called : Owes(c, s)
      BY <2>1 DEF Owed, Running
    <3>1. PICK s \in calls[c].targets \ calls[c].called : Owes(c, s)
      BY <3>4 DEF Outstanding
    <3>2. PICK a \in DOMAIN attempts : attempts[a].call = c /\ attempts[a].slot = s /\ Owing(a)
      BY <3>1 DEF Owes
    <3>3. ~Has(agenda, a)
      BY <2>1 DEF Running, Has
    <3> QED
      BY <3>2, <3>3 DEF Owing, Alive, Waiting
  <2> QED
    BY <2>1 DEF NoCallVanishes, Unreported
<1> QED
  BY <1>1, OwedAlways, ClientAssumption, PTL

-----------------------------------------------------------------------------
(* Exceptions.  What async.each() is told twice comes of a connection that *)
(* was lost, or of start() called twice.  Until then, no two attempts call *)
(* back for the same part of a call.                                       *)

Calm == listeners <= 1 /\ \A b \in DOMAIN boxes : boxes[b].phase # "dead"

\* Tasks at whose end a callback may be called.
Asks(t) == \/ t.do \in {"lost", "callback", "dispatch"}
           \/ t.do = "fail" /\ t.flag
AskedBy(q, a) == \E i \in DOMAIN q : q[i].a = a /\ Asks(q[i])
Busy(a) == Alive(a) \/ AskedBy(agenda, a)
Live(a) == attempts[a].hasCb /\ Busy(a)

\* An attempt is the subject of one such task at a time, and then it is nowhere
\* else, unless it waits for a connection and is about to be dispatched again.
Single(q) == \A i, j \in DOMAIN q : Asks(q[i]) /\ Asks(q[j]) /\ q[i].a = q[j].a => i = j
Steady(t, at) == /\ t.code # "FAIL_CONNECT_SERVER"
                 /\ Asks(t) => \/ at[t.a].place = "done"
                               \/ t.do = "dispatch" /\ at[t.a].place = "pending"
AllSteady(q, at) == \A i \in DOMAIN q : Steady(q[i], at)
Orderly ==
  /\ Single(agenda) /\ AllSteady(agenda, attempts)
  /\ \A a \in DOMAIN attempts : attempts[a].place # "late"
  /\ \A t \in timers : t.kind = "dispatch"

\* Each part of a call is in the hands of one attempt, and has not been called back.
OneEach == \A a, b \in DOMAIN attempts :
  Live(a) /\ Live(b) /\ attempts[a].call = attempts[b].call /\ attempts[a].slot = attempts[b].slot
    => a = b
NotYet == \A a \in DOMAIN attempts : Live(a) => attempts[a].slot \notin calls[attempts[a].call].called
OneCallbackEach ==
  Calm => Orderly /\ OneEach /\ NotYet /\ thrown # "callback called twice"

LEMMA AskedConcat ==
  ASSUME NEW S, NEW p \in Seq(S), NEW r \in Seq(S)
  PROVE  /\ \A a : AskedBy(p \o r, a) => AskedBy(p, a) \/ AskedBy(r, a)
         /\ \A at : AllSteady(p, at) /\ AllSteady(r, at) => AllSteady(p \o r, at)
         /\ Single(p) /\ Single(r) /\ (\A a : ~(AskedBy(p, a) /\ AskedBy(r, a))) => Single(p \o r)
<1> DEFINE q == p \o r
<1>1. /\ q \in Seq(S)
      /\ \A i \in DOMAIN q : \/ i \in DOMAIN p /\ q[i] = p[i]
                             \/ i - Len(p) \in DOMAIN r /\ q[i] = r[i - Len(p)]
  BY ConcatElements
<1>2. Len(p) \in Nat /\ \A i \in DOMAIN q : i \in Nat
  BY <1>1
<1> HIDE DEF q
<1>3. \A a : AskedBy(q, a) => AskedBy(p, a) \/ AskedBy(r, a)
  BY <1>1 DEF AskedBy
<1>4. \A at : AllSteady(p, at) /\ AllSteady(r, at) => AllSteady(q, at)
  BY <1>1 DEF AllSteady
<1>5. ASSUME Single(p), Single(r), \A a : ~(AskedBy(p, a) /\ AskedBy(r, a))
      PROVE  Single(q)
  <2> SUFFICES ASSUME NEW i \in DOMAIN q, NEW j \in DOMAIN q, Asks(q[i]), Asks(q[j]),
                      q[i].a = q[j].a
               PROVE  i = j
    BY DEF Single
  <2>1. CASE i \in DOMAIN p /\ q[i] = p[i] /\ j \in DOMAIN p /\ q[j] = p[j]
    BY <1>5, <2>1 DEF Single
  <2>2. CASE /\ i - Len(p) \in DOMAIN r /\ q[i] = r[i - Len(p)]
             /\ j - Len(p) \in DOMAIN r /\ q[j] = r[j - Len(p)]
    <3>1. i - Len(p) = j - Len(p)
      BY <1>5, <2>2 DEF Single
    <3> QED
      BY <1>2, <3>1
  <2>3. ASSUME NEW k \in DOMAIN q, NEW l \in DOMAIN q, Asks(q[k]), Asks(q[l]), q[k].a = q[l].a,
               k \in DOMAIN p /\ q[k] = p[k], l - Len(p) \in DOMAIN r /\ q[l] = r[l - Len(p)]
        PROVE  FALSE
    BY <1>5, <2>3 DEF AskedBy
  <2> QED
    BY <1>1, <2>1, <2>2, <2>3
<1> QED
  BY <1>3, <1>4, <1>5 DEF q

LEMMA AskedRest ==
  ASSUME NEW S, NEW q \in Seq(S), q # <<>>, Single(q)
  PROVE  /\ Single(Tail(q))
         /\ \A at : AllSteady(q, at) => AllSteady(Tail(q), at)
         /\ \A a : AskedBy(Tail(q), a) => AskedBy(q, a) /\ ~(Asks(Head(q)) /\ Head(q).a = a)
<1>1. /\ 1 \in DOMAIN q /\ Head(q) = q[1]
      /\ \A i \in DOMAIN Tail(q) : i + 1 \in DOMAIN q /\ Tail(q)[i] = q[i + 1] /\ i + 1 # 1
  BY RestElements
<1>2. \A i \in DOMAIN Tail(q) : i \in Nat
  <2>1. Tail(q) \in Seq(S)
    OBVIOUS
  <2> QED
    BY <2>1
<1>3. Single(Tail(q))
  <2> SUFFICES ASSUME NEW i \in DOMAIN Tail(q), NEW j \in DOMAIN Tail(q), Asks(Tail(q)[i]),
                      Asks(Tail(q)[j]), Tail(q)[i].a = Tail(q)[j].a
               PROVE  i = j
    BY DEF Single
  <2>1. i + 1 = j + 1
    BY <1>1 DEF Single
  <2> QED
    BY <1>2, <2>1
<1>4. \A a : AskedBy(Tail(q), a) => AskedBy(q, a) /\ ~(Asks(Head(q)) /\ Head(q).a = a)
  BY <1>1 DEF AskedBy, Single
<1> QED
  BY <1>1, <1>3, <1>4 DEF AllSteady

\* What a handler adds to the agenda about an attempt: one callback at most.
Part(p, a, at) == /\ p \in Seq(Tasks) /\ Single(p) /\ AllSteady(p, at)
                  /\ \A b : AskedBy(p, b) => b = a

LEMMA PartConcat ==
  ASSUME NEW p, NEW r, NEW a, NEW at, Part(p, a, at), Part(r, a, at),
         (\A b : ~AskedBy(p, b)) \/ (\A b : ~AskedBy(r, b))
  PROVE  Part(p \o r, a, at)
  BY AskedConcat DEF Part

LEMMA PartOne ==
  ASSUME NEW t \in Tasks, NEW at, Steady(t, at)
  PROVE  /\ Part(<<t>>, t.a, at)
         /\ ~Asks(t) => \A b : ~AskedBy(<<t>>, b)
  BY DEF Part, Single, AllSteady, AskedBy

LEMMA PartEmit ==
  ASSUME Types, listeners <= 1, NEW a \in Nat, NEW code \in RpcErrors \ {"FAIL_CONNECT_SERVER"},
         NEW flag \in BOOLEAN, NEW tracer \in Nat, NEW at, at[a].place = "done"
  PROVE  /\ Part(Emit(code, a, flag, tracer), a, at)
         /\ ~flag => \A b : ~AskedBy(Emit(code, a, flag, tracer), b)
<1> DEFINE t == [Task("fail", a) EXCEPT !.code = code, !.flag = flag, !.tracer = tracer]
<1>1. listeners \in {0, 1}
  BY Sizes
<1>2. Emit(code, a, flag, tracer) \in {<<t>>, <<Task("unhandled", a)>>}
  <2>1. CASE listeners = 1
    BY <2>1 DEF Emit
  <2>2. CASE listeners = 0
    BY <2>2 DEF Emit
  <2> QED
    BY <1>1, <2>1, <2>2
<1>3. t \in Tasks /\ t.a = a /\ Steady(t, at) /\ (~flag => ~Asks(t))
  <2>1. t \in Tasks
    BY DEF Task, Tasks
  <2>2. t.do = "fail" /\ t.a = a
    BY DEF Task
  <2>3. t.code = code /\ t.flag = flag
    BY DEF Task
  <2> HIDE DEF t
  <2>4. ~flag => ~Asks(t)
    BY <2>2, <2>3, Zenon DEF Asks
  <2> QED
    BY <2>1, <2>2, <2>3, <2>4 DEF Steady
<1>4. /\ Task("unhandled", a) \in Tasks /\ Task("unhandled", a).a = a
      /\ Steady(Task("unhandled", a), at) /\ ~Asks(Task("unhandled", a))
  BY DEF Task, Tasks, Steady, Asks
<1> HIDE DEF t
<1> QED
  BY <1>2, <1>3, <1>4, PartOne

LEMMA Parts ==
  ASSUME Types, listeners <= 1, NEW a \in Nat, NEW tracer \in Nat, NEW at, at[a].place = "done"
  PROVE  /\ Part(<<>>, a, at) /\ \A b : ~AskedBy(<<>>, b)
         /\ \A do \in {"lost", "dispatch"} : Part(<<Task(do, a)>>, a, at)
         /\ \A ok \in BOOLEAN : Part(<<CallbackOf(a, ok)>>, a, at)
         /\ \A code \in RpcErrors \ {"FAIL_CONNECT_SERVER"} :
              /\ \A flag \in BOOLEAN : Part(Emit(code, a, flag, tracer), a, at)
              /\ \A ok \in BOOLEAN :
                   /\ Part(Emit(code, a, FALSE, tracer) \o <<CallbackOf(a, ok)>>, a, at)
                   /\ Part(<<CallbackOf(a, ok)>> \o Emit(code, a, FALSE, tracer), a, at)
<1>1. Part(<<>>, a, at) /\ \A b : ~AskedBy(<<>>, b)
  BY DEF Part, Single, AllSteady, AskedBy
<1>2. \A do \in {"lost", "dispatch"} : Part(<<Task(do, a)>>, a, at)
  <2>1. \A do \in {"lost", "dispatch"} : /\ Task(do, a) \in Tasks /\ Task(do, a).a = a
                                         /\ Steady(Task(do, a), at)
    BY DEF Task, Tasks, Steady
  <2> QED
    BY <2>1, PartOne
<1>3. \A ok \in BOOLEAN : Part(<<CallbackOf(a, ok)>>, a, at)
  <2>1. \A ok \in BOOLEAN : /\ CallbackOf(a, ok) \in Tasks /\ CallbackOf(a, ok).a = a
                            /\ Steady(CallbackOf(a, ok), at)
    <3>1. \A ok \in BOOLEAN : CallbackOf(a, ok) = [do |-> "callback", code |-> "none", a |-> a,
                                                   flag |-> ok, tracer |-> 0]
      BY DEF CallbackOf, Task
    <3> QED
      BY <3>1 DEF Tasks, Steady
  <2> QED
    BY <2>1, PartOne
<1>4. \A code \in RpcErrors \ {"FAIL_CONNECT_SERVER"} :
        /\ \A flag \in BOOLEAN : Part(Emit(code, a, flag, tracer), a, at)
        /\ \A b : ~AskedBy(Emit(code, a, FALSE, tracer), b)
  BY PartEmit
<1> QED
  BY <1>1, <1>2, <1>3, <1>4, PartConcat

\* The agenda of a handler that does p before the rest.
LEMMA Onward ==
  ASSUME Types, Orderly, agenda # <<>>, NEW p, NEW a, Part(p, a, attempts'),
         agenda' = p \o Tail(agenda),
         \A b : AskedBy(p, b) => b \notin DOMAIN attempts \/ (b = Head(agenda).a /\ Asks(Head(agenda))),
         \A b \in DOMAIN attempts :
           attempts'[b].place = attempts[b].place \/ (b = Head(agenda).a /\ Asks(Head(agenda)))
  PROVE  /\ Single(agenda') /\ AllSteady(agenda', attempts')
         /\ \A b : AskedBy(agenda', b) =>
              \/ AskedBy(p, b)
              \/ AskedBy(agenda, b) /\ ~(b = Head(agenda).a /\ Asks(Head(agenda)))
<1> DEFINE t == Head(agenda)
           rest == Tail(agenda)
<1>1. /\ agenda \in Seq(Tasks) /\ rest \in Seq(Tasks)
      /\ \A b : AskedBy(agenda, b) => b \in DOMAIN attempts
  <2>1. TaskSet(Len(attempts), Len(tracers)) \subseteq Tasks
    BY DEF TaskSet
  <2>2. agenda \in Seq(Tasks)
    BY <2>1, WiderSeq, Sizes
  <2>3. \A i \in DOMAIN agenda : agenda[i].a \in DOMAIN attempts
    BY Sizes DEF TaskSet
  <2> QED
    BY <2>2, <2>3 DEF AskedBy
<1>2. /\ Single(rest) /\ AllSteady(rest, attempts)
      /\ \A b : AskedBy(rest, b) => AskedBy(agenda, b) /\ ~(Asks(t) /\ t.a = b)
  BY <1>1, AskedRest DEF Orderly
<1> HIDE DEF t, rest
<1>3. \A b : AskedBy(rest, b) => b \in DOMAIN attempts /\ attempts'[b].place = attempts[b].place
  BY <1>1, <1>2 DEF t
<1>4. AllSteady(rest, attempts')
  <2> SUFFICES ASSUME NEW i \in DOMAIN rest PROVE Steady(rest[i], attempts')
    BY DEF AllSteady
  <2>1. Steady(rest[i], attempts)
    BY <1>2 DEF AllSteady
  <2>2. Asks(rest[i]) => attempts'[rest[i].a].place = attempts[rest[i].a].place
    BY <1>3 DEF AskedBy
  <2> QED
    BY <2>1, <2>2 DEF Steady
<1>5. \A b : ~(AskedBy(p, b) /\ AskedBy(rest, b))
  BY <1>2, <1>3 DEF t
<1>6. p \in Seq(Tasks) /\ Single(p) /\ AllSteady(p, attempts') /\ agenda' = p \o rest
  BY DEF Part, rest
<1>7. Single(agenda') /\ AllSteady(agenda', attempts')
  <2>1. Single(p \o rest) /\ AllSteady(p \o rest, attempts')
    BY <1>1, <1>2, <1>4, <1>5, <1>6, AskedConcat
  <2> QED
    BY <1>6, <2>1, Zenon
<1>8. \A b : AskedBy(agenda', b) => AskedBy(p, b) \/ AskedBy(rest, b)
  BY <1>1, <1>6, AskedConcat
<1>9. \A b : AskedBy(agenda', b) => AskedBy(p, b) \/ (AskedBy(agenda, b) /\ ~(b = t.a /\ Asks(t)))
  BY <1>2, <1>8, Zenon
<1> QED
  BY <1>7, <1>9, Zenon DEF t

SameCalled == \A c \in Calls : calls'[c].called = calls[c].called

\* A new attempt takes the place of an old one, or has no callback.
LEMMA OneAnother ==
  ASSUME Types, OneEach, NotYet, SameCalled, NEW old \in DOMAIN attempts, NEW new,
         \A b \in DOMAIN attempts' : \/ b = new
                                     \/ /\ b \in DOMAIN attempts
                                        /\ SameRequest(attempts'[b], attempts[b])
                                        /\ Live(b)' => Live(b),
         new \in DOMAIN attempts' =>
           /\ attempts'[new].call = attempts[old].call /\ attempts'[new].slot = attempts[old].slot
           /\ Live(new)' => Live(old) /\ (old \in DOMAIN attempts' => ~Live(old)')
  PROVE  OneEach' /\ NotYet'
<1> DEFINE From(b) == IF b = new THEN old ELSE b
<1>1. \A b \in DOMAIN attempts' : Live(b)' =>
        /\ From(b) \in DOMAIN attempts /\ Live(From(b))
        /\ attempts'[b].call = attempts[From(b)].call
        /\ attempts'[b].slot = attempts[From(b)].slot
  BY DEF SameRequest
<1>2. \A a, b \in DOMAIN attempts' : Live(a)' /\ Live(b)' /\ From(a) = From(b) => a = b
  OBVIOUS
<1>3. OneEach'
  <2> SUFFICES ASSUME NEW a \in DOMAIN attempts', NEW b \in DOMAIN attempts', Live(a)', Live(b)',
                      attempts'[a].call = attempts'[b].call, attempts'[a].slot = attempts'[b].slot
               PROVE  a = b
    BY DEF OneEach
  <2> HIDE DEF From
  <2>1. From(a) = From(b)
    BY <1>1 DEF OneEach
  <2> QED
    BY <1>2, <2>1
<1>4. NotYet'
  <2> SUFFICES ASSUME NEW a \in DOMAIN attempts', Live(a)'
               PROVE  attempts'[a].slot \notin calls'[attempts'[a].call].called
    BY DEF NotYet
  <2> HIDE DEF From
  <2>1. attempts[From(a)].call \in Calls
    BY <1>1, Sizes, AttemptFields
  <2> QED
    BY <1>1, <2>1 DEF NotYet, SameCalled
<1> QED
  BY <1>3, <1>4

LEMMA OneAsBefore ==
  ASSUME Types, OneEach, NotYet, SameCalled,
         \A b \in DOMAIN attempts' : /\ b \in DOMAIN attempts
                                     /\ SameRequest(attempts'[b], attempts[b])
                                     /\ Busy(b)' => Busy(b)
  PROVE  OneEach' /\ NotYet'
<1>1. \A b \in DOMAIN attempts' : Live(b)' => Live(b)
  BY DEF Live, SameRequest
<1>2. CASE DOMAIN attempts = {}
  BY <1>2 DEF OneEach, NotYet
<1>3. ASSUME NEW old \in DOMAIN attempts PROVE OneEach' /\ NotYet'
  <2>1. PICK new : new \notin DOMAIN attempts'
    <3>1. DOMAIN attempts' \subseteq Nat
      BY Sizes
    <3>2. -1 \notin Nat
      OBVIOUS
    <3> QED
      BY <3>1, <3>2
  <2> QED
    BY <1>1, <2>1, OneAnother
<1> QED
  BY <1>2, <1>3

\* A connection that was lost stays lost.
LEMMA CalmBefore ==
  ASSUME ClientAssumption, Types, [Next]_vars, Calm'
  PROVE  Calm
<1> DEFINE Kept == \A b \in DOMAIN boxes : boxes[b].phase = "dead" =>
                     b \in DOMAIN boxes' /\ boxes'[b].phase = "dead"
<1>1. UNCHANGED boxes => Kept
  OBVIOUS
<1>2. ASSUME NEW bs, boxes' = Shut(bs) PROVE Kept
  BY <1>2, ShutFacts, Sizes
<1>3. ASSUME NEW b \in DOMAIN boxes, NEW phase \in {"open", "dead"}, boxes[b].phase = "connecting",
             boxes' = [boxes EXCEPT ![b].phase = phase]
      PROVE  Kept
  BY <1>3, PhaseFacts
<1>4. ASSUME NEW x, boxes' = Append(boxes, x) PROVE Kept
  <2>1. \A b \in DOMAIN boxes : b \in DOMAIN boxes' /\ boxes'[b] = boxes[b]
    BY <1>4, Sizes
  <2> QED
    BY <2>1
<1> HIDE DEF Kept
<1>5. Kept
  <2>1. CASE Continue
    <3>1. \/ UNCHANGED boxVars
          \/ \E x : boxes' = Append(boxes, x)
      <4>1. RunDispatch(Head(agenda).a, Tail(agenda)) =>
              UNCHANGED boxVars \/ \E x : boxes' = Append(boxes, x)
        BY Zenon DEF RunDispatch
      <4> QED
        BY <2>1, <4>1, ContinueCases
    <3> QED
      BY <1>1, <1>4, <3>1 DEF boxVars
  <2>2. CASE Start \/ StartTick \/ Stop \/ CloseAll
    BY <1>1, <1>2, <2>2 DEF Start, StartTick, Stop, CloseAll, workVars, boxVars
  <2>3. ASSUME NEW s \in Servers, AddServer(s) \/ RemoveServer(s) PROVE Kept
    BY <1>1, <1>2, <2>3 DEF AddServer, RemoveServer, workVars, boxVars
  <2>4. ASSUME NEW c \in Calls,
               \/ ProxyIgnored(c) \/ RpcRejected(c)
               \/ \E s \in DefRoute : RpcInvoke(c, s)
               \/ \E q \in Lists : RpcToAll(c, q)
        PROVE  Kept
    BY <1>1, <2>4 DEF ProxyIgnored, RpcRejected, RpcInvoke, RpcToAll, Settle, Invoke, boxVars
  <2>5. ASSUME NEW b \in DOMAIN boxes, MailboxConnected(b) \/ MailboxFailed(b) \/ MailboxEnded(b)
        PROVE  Kept
    BY <1>2, <1>3, <2>5 DEF MailboxConnected, MailboxFailed, MailboxEnded
  <2>6. ASSUME NEW a \in DOMAIN attempts,
               \/ FilterDone(a) \/ FilterFailed(a) \/ CbTimeout(a)
               \/ \E ok, filtered \in BOOLEAN : Answer(a, ok, filtered)
        PROVE  Kept
    BY <1>1, <2>6 DEF FilterDone, FilterFailed, CbTimeout, Answer, boxVars
  <2>7. ASSUME NEW t \in timers, RetryConnect(t) \/ RetryDispatch(t) PROVE Kept
    BY <1>1, <2>7 DEF RetryConnect, RetryDispatch, boxVars
  <2>8. CASE UNCHANGED vars
    BY <1>1, <2>8 DEF vars, workVars, boxVars
  <2> QED
    BY <2>1, <2>2, <2>3, <2>4, <2>5, <2>6, <2>7, <2>8, Zenon DEF Next
<1>6. listeners' = listeners \/ listeners' = listeners + 1
  BY LifeCases
<1>7. listeners \in Nat
  BY Sizes
<1>8. listeners <= 1
  BY <1>6, <1>7 DEF Calm
<1> QED
  BY <1>5, <1>8 DEF Calm, Kept

\* A handler goes on with p, about the attempt of the task, and leaves the
\* attempts and the timers as orderly as they were.
LEMMA OrderlyOnward ==
  ASSUME Types, Orderly, agenda # <<>>, NEW p, Part(p, Head(agenda).a, attempts'),
         agenda' = p \o Tail(agenda), (\A b : ~AskedBy(p, b)) \/ Asks(Head(agenda)),
         DOMAIN attempts' = DOMAIN attempts,
         \A b \in DOMAIN attempts :
           \/ attempts'[b].place = attempts[b].place
           \/ b = Head(agenda).a /\ Asks(Head(agenda)) /\ attempts'[b].place # "late",
         \A x \in timers' : x.kind = "dispatch"
  PROVE  /\ Orderly'
         /\ \A b \in DOMAIN attempts' : Busy(b)' => Busy(b)
         /\ \A b \in DOMAIN attempts' :
              Busy(b)' /\ Asks(Head(agenda)) /\ b = Head(agenda).a => Alive(b)' \/ AskedBy(p, b)
<1> DEFINE t == Head(agenda)
<1>1. t.a \in DOMAIN attempts /\ (Asks(t) => AskedBy(agenda, t.a))
  BY HeadFacts DEF AskedBy
<1>2. \A b : AskedBy(p, b) => b = t.a /\ Asks(t)
  BY DEF Part
<1>3. \A b \in DOMAIN attempts :
        attempts'[b].place = attempts[b].place \/ (b = t.a /\ Asks(t))
  OBVIOUS
<1>4. /\ Single(agenda') /\ AllSteady(agenda', attempts')
      /\ \A b : AskedBy(agenda', b) =>
           \/ AskedBy(p, b)
           \/ AskedBy(agenda, b) /\ ~(b = t.a /\ Asks(t))
  BY <1>2, <1>3, Onward
<1> HIDE DEF t
<1>5. Orderly'
  BY <1>4 DEF Orderly, t
<1>6. \A b \in DOMAIN attempts' : Busy(b)' => Busy(b)
  BY <1>1, <1>2, <1>3, <1>4 DEF Busy, Alive
<1>7. \A b \in DOMAIN attempts' : Busy(b)' /\ Asks(t) /\ b = t.a => Alive(b)' \/ AskedBy(p, b)
  BY <1>4 DEF Busy
<1> QED
  BY <1>5, <1>6, <1>7 DEF t

LEMMA ThrowOrderly ==
  ASSUME Types, Orderly, NEW what, Throw(what), attempts' = attempts
  PROVE  /\ Orderly'
         /\ \A b \in DOMAIN attempts' : Busy(b)' => Busy(b)
<1>1. agenda' = <<>> /\ timers' = {}
  BY DEF Throw
<1>2. DOMAIN agenda' = {}
  BY <1>1
<1> QED
  BY <1>1, <1>2 DEF Orderly, Single, AllSteady, Busy, AskedBy, Alive

LEMMA ContinueOne ==
  ASSUME ClientAssumption, Types, listeners <= 1, Orderly, OneEach, NotYet, Continue, ~CallbackStep
  PROVE  Orderly' /\ OneEach' /\ NotYet'
<1> DEFINE t == Head(agenda)
           rest == Tail(agenda)
           Keeps == SameRequests /\ Orderly' /\ \A b \in DOMAIN attempts' : Busy(b)' => Busy(b)
<1>1. /\ agenda # <<>> /\ UNCHANGED <<lifeVars, served>>
      /\ \/ /\ t.do = "lost" /\ agenda' = SendFailed(t.a) \o rest
            /\ UNCHANGED <<infoVars, boxVars, retryVars, userVars, attempts>>
         \/ /\ t.do = "callback" /\ RunCallback(t.a, t.flag, rest)
            /\ UNCHANGED <<infoVars, boxVars, tracers, attempts>>
         \/ /\ t.do = "dispatch" /\ RunDispatch(t.a, rest)
            /\ UNCHANGED <<infoVars, retryVars, calls, thrown>>
         \/ /\ t.do = "fail" /\ UNCHANGED <<known, boxVars, calls>>
            /\ FailFast(t, rest) \/ FailOver(t, rest) \/ FailSafe(t, rest)
         \/ /\ t.do = "unhandled" /\ Throw("unhandled error")
            /\ UNCHANGED <<infoVars, boxVars, tracers, calls, attempts>>
  BY ContinueCases
<1>2. /\ t.a \in DOMAIN attempts /\ t.a \in Nat /\ t.flag \in BOOLEAN /\ attempts[t.a].tracer \in Nat
      /\ rest \in Seq(Tasks)
  <2>1. TaskSet(Len(attempts), Len(tracers)) \subseteq Tasks
    BY DEF TaskSet
  <2>2. rest \in Seq(Tasks)
    BY <1>1, <2>1, HeadFacts, WiderSeq
  <2>3. t.a \in DOMAIN attempts /\ t.flag \in BOOLEAN
    BY <1>1, HeadFacts
  <2> HIDE DEF t
  <2>4. t.a \in Nat /\ attempts[t.a].tracer \in 0..Len(tracers) /\ Len(tracers) \in Nat
    BY <2>3, TaskOrders, Sizes
  <2> QED
    BY <2>2, <2>3, <2>4
<1>3. Steady(t, attempts) /\ \A x \in timers : x.kind = "dispatch"
  BY <1>1, HeadFacts DEF Orderly, AllSteady
<1>4. rest = <<>> \o rest
  BY <1>2
<1>5. ASSUME NEW p, Part(p, t.a, attempts), agenda' = p \o rest, attempts' = attempts,
             (\A b : ~AskedBy(p, b)) \/ Asks(t), \A x \in timers' : x.kind = "dispatch"
      PROVE  Keeps
  BY <1>1, <1>5, OrderlyOnward, UnchangedSame
<1>6. Asks(t) /\ t.do # "dispatch" => attempts[t.a].place = "done"
  BY <1>3 DEF Steady
<1>7. ASSUME Keeps, calls' = calls PROVE Orderly' /\ OneEach' /\ NotYet'
  <2>1. SameCalled /\ \A b \in DOMAIN attempts' :
          /\ b \in DOMAIN attempts /\ SameRequest(attempts'[b], attempts[b]) /\ (Busy(b)' => Busy(b))
    BY <1>7 DEF SameRequests, SameCalled
  <2> QED
    BY <1>7, <2>1, OneAsBefore
<1>8. \A at : Part(<<>>, t.a, at) /\ \A b : ~AskedBy(<<>>, b)
  BY DEF Part, Single, AllSteady, AskedBy
<1>9. attempts[t.a].place = "done" =>
        /\ \A ok \in BOOLEAN : Part(<<CallbackOf(t.a, ok)>>, t.a, attempts)
        /\ Part(SendFailed(t.a), t.a, attempts)
  <2> HIDE DEF t
  <2> QED
    BY <1>2, Parts DEF SendFailed, RpcErrors
<1> HIDE DEF Keeps
<1>10. ASSUME t.do = "lost", agenda' = SendFailed(t.a) \o rest, UNCHANGED <<retryVars, attempts>>
       PROVE  Keeps
  <2>1. Asks(t) /\ t.do # "dispatch" /\ timers' = timers /\ attempts' = attempts
    BY <1>10 DEF Asks, retryVars
  <2>2. Part(SendFailed(t.a), t.a, attempts)
    BY <1>6, <1>9, <2>1
  <2> QED
    BY <1>3, <1>5, <1>10, <2>1, <2>2, Zenon
<1>11. ASSUME Throw("unhandled error"), UNCHANGED attempts PROVE Keeps
  <2>1. SameRequests
    BY <1>11, UnchangedSame
  <2>2. Orderly' /\ \A b \in DOMAIN attempts' : Busy(b)' => Busy(b)
    BY <1>11, ThrowOrderly
  <2> QED
    BY <2>1, <2>2, Zenon DEF Keeps
<1>12. ASSUME t.do = "dispatch", RunDispatch(t.a, rest), UNCHANGED retryVars PROVE Keeps
  <2> DEFINE refusal(code) == Emit(code, t.a, TRUE, attempts[t.a].tracer)
  <2>1. \/ \E code \in Refusals : agenda' = refusal(code) \o rest /\ attempts' = Place({t.a}, "done")
        \/ /\ agenda' = rest
           /\ \E place \in {"pending", "filter"} : attempts' = Place({t.a}, place)
    BY <1>12 DEF RunDispatch, Refusals
  <2>2. Asks(t)
    BY <1>12 DEF Asks
  <2>3. ASSUME NEW place \in {"done", "pending", "filter"}, attempts' = Place({t.a}, place)
        PROVE  /\ SameRequests /\ attempts'[t.a].place = place
               /\ \A b \in DOMAIN attempts :
                    \/ attempts'[b].place = attempts[b].place
                    \/ b = t.a /\ Asks(t) /\ attempts'[b].place # "late"
    <3>1. place \in Places \ {"held"}
      BY DEF Places
    <3>2. \A b \in DOMAIN attempts \ {t.a} : attempts'[b] = attempts[b]
      BY <2>3 DEF Place
    <3>3. attempts'[t.a].place = place
      <4>1. attempts[t.a] \in Attempts
        BY <1>2, Sizes DEF AttemptSet
      <4> QED
        BY <1>2, <2>3, <4>1 DEF Place, Attempts
    <3> HIDE DEF t
    <3> QED
      BY <2>2, <2>3, <3>1, <3>2, <3>3, PlaceSame
  <2>4. ASSUME NEW p, NEW place \in {"done", "pending", "filter"}, attempts' = Place({t.a}, place),
               agenda' = p \o rest, Part(p, t.a, attempts')
        PROVE  Keeps
    <3>1. SameRequests /\ Orderly' /\ \A b \in DOMAIN attempts' : Busy(b)' => Busy(b)
      BY <1>1, <1>3, <1>12, <2>2, <2>3, <2>4, OrderlyOnward DEF retryVars, SameRequests
    <3> QED
      BY <3>1 DEF Keeps
  <2>5. CASE agenda' = rest /\ \E place \in {"pending", "filter"} : attempts' = Place({t.a}, place)
    BY <1>4, <1>8, <2>4, <2>5
  <2>6. ASSUME NEW code \in Refusals, agenda' = refusal(code) \o rest,
               attempts' = Place({t.a}, "done")
        PROVE  Keeps
    <3>1. attempts'[t.a].place = "done"
      BY <2>3, <2>6
    <3>2. Part(refusal(code), t.a, attempts')
      <4> HIDE DEF t
      <4> QED
        BY <1>2, <3>1, PartEmit DEF Refusals, RpcErrors
    <3> QED
      BY <2>4, <2>6, <3>2
  <2> QED
    BY <2>1, <2>5, <2>6
<1>13. ASSUME t.do = "fail", FailFast(t, rest) PROVE Keeps
  <2>1. CASE t.flag
    BY <1>3, <1>5, <1>6, <1>9, <1>13, <2>1 DEF FailFast, Asks, retryVars
  <2>2. CASE ~t.flag
    BY <1>3, <1>4, <1>5, <1>8, <1>13, <2>2 DEF FailFast, retryVars
  <2> QED
    BY <2>1, <2>2
<1>14. ASSUME t.do = "fail", FailSafe(t, rest) PROVE Keeps
  <2> DEFINE n == IF t.tracer = 0 THEN Len(tracers) + 1 ELSE t.tracer
             retry == Counted(t.tracer)[n]
  <2>1. /\ attempts' = attempts
        /\ \/ /\ timers' = timers \cup {[kind |-> "dispatch", a |-> t.a, tracer |-> n, retry |-> retry]}
              /\ agenda' = rest
           \/ /\ agenda' = <<CallbackOf(t.a, FALSE)>> \o rest
              /\ t.flag /\ UNCHANGED timers
           \/ Throw("no callback")
    BY <1>3, <1>14 DEF FailSafe, Steady
  <2> HIDE DEF n, retry
  <2>2. CASE /\ timers' = timers \cup {[kind |-> "dispatch", a |-> t.a, tracer |-> n, retry |-> retry]}
             /\ agenda' = rest
    <3>1. \A x \in timers' : x.kind = "dispatch"
      BY <1>3, <2>2
    <3> QED
      BY <1>4, <1>5, <1>8, <2>1, <2>2, <3>1
  <2>3. CASE agenda' = <<CallbackOf(t.a, FALSE)>> \o rest /\ t.flag /\ UNCHANGED timers
    BY <1>3, <1>5, <1>6, <1>9, <1>14, <2>1, <2>3 DEF Asks
  <2>4. CASE Throw("no callback")
    BY <2>1, <2>4, ThrowOrderly, UnchangedSame DEF Keeps
  <2> QED
    BY <2>1, <2>2, <2>3, <2>4
<1>15. CASE t.do = "fail" /\ FailOver(t, rest) /\ UNCHANGED <<known, boxVars, calls>>
  <2> DEFINE n == Len(attempts) + 1
             x == NewAttempt(attempts[t.a].call, attempts[t.a].slot,
                             Head(Splice(attempts[t.a].server)), t.flag /\ attempts[t.a].hasCb, 0, 0)
  <2>1. /\ calls' = calls
        /\ \/ (Throw("no message") \/ Throw("no callback")) /\ attempts' = attempts
           \/ /\ agenda' = <<CallbackOf(t.a, FALSE)>> \o rest
              /\ t.flag /\ UNCHANGED <<timers, thrown, attempts>>
           \/ /\ attempts' = Append(attempts, x)
              /\ agenda' = <<Task("dispatch", n)>> \o rest
              /\ UNCHANGED <<timers, thrown>>
    <3>1. FailOverStep
      BY <1>1, <1>15 DEF FailOverStep, FailFast, FailSafe
    <3> QED
      BY <3>1, FailOverCases
  <2>2. CASE (Throw("no message") \/ Throw("no callback")) /\ attempts' = attempts
    <3>1. SameRequests
      BY <2>2, UnchangedSame
    <3>2. Orderly' /\ \A b \in DOMAIN attempts' : Busy(b)' => Busy(b)
      BY <2>2, ThrowOrderly
    <3> QED
      BY <1>7, <2>1, <3>1, <3>2 DEF Keeps
  <2>3. CASE /\ agenda' = <<CallbackOf(t.a, FALSE)>> \o rest
             /\ t.flag /\ UNCHANGED <<timers, thrown, attempts>>
    <3>1. Keeps
      BY <1>3, <1>5, <1>6, <1>9, <1>15, <2>3 DEF Asks
    <3> QED
      BY <1>7, <2>1, <3>1
  <2>4. CASE /\ attempts' = Append(attempts, x)
             /\ agenda' = <<Task("dispatch", n)>> \o rest
             /\ UNCHANGED <<timers, thrown>>
    <3> HIDE DEF x
    <3>0. PICK old, new : old \in DOMAIN attempts /\ old = t.a /\ new = n
      BY <1>2
    <3>1. /\ new \in Nat /\ new \in DOMAIN attempts' /\ new \notin DOMAIN attempts /\ attempts'[new] = x
          /\ \A b \in DOMAIN attempts : b \in DOMAIN attempts' /\ attempts'[b] = attempts[b]
          /\ \A b \in DOMAIN attempts' : b \in DOMAIN attempts \/ b = new
      BY <2>4, <3>0, AppendFacts
    <3>2. /\ x.call = attempts[old].call /\ x.slot = attempts[old].slot /\ x.place = "done"
          /\ x.hasCb = (t.flag /\ attempts[old].hasCb)
      BY <3>0 DEF x, NewAttempt
    <3> DEFINE p == <<Task("dispatch", new)>>
    <3> HIDE DEF n, t
    <3>3. Part(p, new, attempts')
      <4>1. 0 \in Nat
        OBVIOUS
      <4> QED
        BY <3>1, <3>2, <4>1, Parts
    <3> HIDE DEF p
    <3>4. /\ Single(agenda') /\ AllSteady(agenda', attempts')
          /\ \A b : AskedBy(agenda', b) =>
               \/ AskedBy(p, b)
               \/ AskedBy(agenda, b) /\ ~(b = old /\ Asks(t))
      <4>1. \A b : AskedBy(p, b) => b \notin DOMAIN attempts
        BY <3>1, <3>3 DEF Part
      <4>2. agenda' = p \o rest /\ agenda # <<>>
        BY <1>1, <2>4, <3>0 DEF p, t
      <4> QED
        BY <3>1, <3>3, <4>1, <4>2, <3>0, Onward DEF t
    <3>5. \A b : AskedBy(p, b) => b = new
      BY <3>3 DEF Part
    <3>6. \A b \in DOMAIN attempts : Live(b)' => Live(b) /\ ~(b = old /\ Asks(t))
      <4>1. Asks(t) => ~Alive(old)
        BY <1>6, <1>15, <3>0 DEF Alive
      <4> QED
        BY <3>1, <3>4, <3>5, <4>1 DEF Live, Busy, Alive
    <3>7. Live(new)' => Live(old) /\ ~Live(old)'
      <4>1. SUFFICES ASSUME Live(new)' PROVE Live(old) /\ ~Live(old)'
        OBVIOUS
      <4>2. t.flag /\ attempts[old].hasCb
        BY <3>1, <3>2, <4>1, Zenon DEF Live
      <4>3. Asks(t)
        BY <1>15, <4>2 DEF Asks
      <4>4. AskedBy(agenda, old)
        BY <1>1, <3>0, <4>3, HeadFacts DEF AskedBy, t
      <4>5. Live(old)
        BY <4>2, <4>4, Zenon DEF Live, Busy
      <4> QED
        BY <3>0, <3>6, <4>3, <4>5
    <3>8. OneEach' /\ NotYet'
      <4>1. \A b \in DOMAIN attempts : SameRequest(attempts'[b], attempts[b])
        BY <3>1 DEF SameRequest
      <4>2. \A b \in DOMAIN attempts' : \/ b = new
                                         \/ /\ b \in DOMAIN attempts
                                            /\ SameRequest(attempts'[b], attempts[b])
                                            /\ Live(b)' => Live(b)
        BY <3>1, <3>6, <4>1
      <4>3. /\ attempts'[new].call = attempts[old].call /\ attempts'[new].slot = attempts[old].slot
            /\ Live(new)' => Live(old) /\ (old \in DOMAIN attempts' => ~Live(old)')
        BY <3>1, <3>2, <3>7
      <4>4. SameCalled
        BY <2>1 DEF SameCalled
      <4> QED
        BY <3>0, <4>2, <4>3, <4>4, OneAnother
    <3>9. Orderly'
      BY <1>3, <2>4, <3>1, <3>2, <3>4 DEF Orderly
    <3> QED
      BY <3>8, <3>9
  <2> QED
    BY <2>1, <2>2, <2>3, <2>4
<1>16. ~(t.do = "callback" /\ RunCallback(t.a, t.flag, rest) /\ UNCHANGED <<infoVars, boxVars, tracers, attempts>>)
  BY <1>1 DEF CallbackStep
<1>17. CASE calls' = calls /\ Keeps
  BY <1>7, <1>17
<1> QED
  BY <1>1, <1>10, <1>11, <1>12, <1>13, <1>14, <1>15, <1>16, <1>17 DEF userVars

\* The callback is the only one of its attempt, and of its part of the call.
LEMMA CallbackOne ==
  ASSUME Types, listeners <= 1, Orderly, OneEach, NotYet, CallbackStep
  PROVE  Orderly' /\ OneEach' /\ NotYet' /\ thrown' = thrown
<1>1. PICK a \in DOMAIN attempts : a = Head(agenda).a
  BY HeadFacts DEF CallbackStep
<1> DEFINE c == attempts[a].call
           slot == attempts[a].slot
<1>2. /\ agenda # <<>> /\ attempts' = attempts
      /\ \A d \in Calls \ {c} : calls'[d] = calls[d]
      /\ \/ attempts[a].hasCb /\ slot \in calls[c].called
         \/ /\ agenda' = Tail(agenda) /\ UNCHANGED <<timers, thrown>>
            /\ \/ ~attempts[a].hasCb /\ calls' = calls
               \/ attempts[a].hasCb /\ calls'[c].called \subseteq calls[c].called \cup {slot}
  BY <1>1, CallbackEffect DEF CallbackStep
<1>3. /\ Asks(Head(agenda)) /\ AskedBy(agenda, a) /\ attempts[a].place = "done"
      /\ Tail(agenda) = <<>> \o Tail(agenda)
  <2>1. Head(agenda).do = "callback" /\ 1 \in DOMAIN agenda /\ Head(agenda) = agenda[1]
    BY HeadFacts DEF CallbackStep
  <2>2. Asks(Head(agenda)) /\ AskedBy(agenda, a)
    BY <1>1, <2>1 DEF Asks, AskedBy
  <2>3. Steady(Head(agenda), attempts)
    BY <2>1 DEF Orderly, AllSteady
  <2>4. Tail(agenda) = <<>> \o Tail(agenda)
    BY <1>2, HeadFacts
  <2> QED
    BY <1>1, <2>1, <2>2, <2>3, <2>4 DEF Steady
<1>4. ~(attempts[a].hasCb /\ slot \in calls[c].called)
  BY <1>3 DEF NotYet, Live, Busy
<1>5. /\ Orderly' /\ \A b \in DOMAIN attempts' : Busy(b)' => Busy(b)
      /\ ~Busy(a)'
  <2>1. Part(<<>>, a, attempts') /\ \A b : ~AskedBy(<<>>, b)
    BY DEF Part, Single, AllSteady, AskedBy
  <2>2. agenda' = <<>> \o Tail(agenda) /\ timers' = timers
    BY <1>2, <1>3, <1>4
  <2>3. /\ Orderly' /\ \A b \in DOMAIN attempts' : Busy(b)' => Busy(b)
        /\ Busy(a)' => Alive(a)'
    BY <1>1, <1>2, <1>3, <2>1, <2>2, OrderlyOnward DEF Orderly
  <2> QED
    BY <1>2, <1>3, <2>3 DEF Alive
<1>6. \A b \in DOMAIN attempts' : Live(b)' => b \in DOMAIN attempts /\ Live(b) /\ b # a
  BY <1>2, <1>5 DEF Live
<1>7. OneEach'
  BY <1>2, <1>6 DEF OneEach
<1>8. NotYet'
  <2> SUFFICES ASSUME NEW b \in DOMAIN attempts', Live(b)'
               PROVE  attempts'[b].slot \notin calls'[attempts'[b].call].called
    BY DEF NotYet
  <2>1. /\ b \in DOMAIN attempts /\ Live(b) /\ b # a /\ attempts[b].call \in Calls
        /\ attempts[b].slot \notin calls[attempts[b].call].called
    BY <1>6, Sizes, AttemptFields DEF NotYet
  <2>2. attempts[a].hasCb => attempts[b].call # c \/ attempts[b].slot # slot
    BY <1>3, <2>1 DEF OneEach, Live, Busy
  <2> QED
    BY <1>2, <1>4, <2>1, <2>2
<1> QED
  BY <1>2, <1>4, <1>5, <1>7, <1>8

\* A new call is made of new attempts only.
LEMMA InvokeOne ==
  ASSUME Types, Owed, Orderly, OneEach, NotYet, NEW c \in Calls, NEW kind \in {"one", "all"},
         NEW q \in Seq(Servers), InvokeStep(c, kind, q)
  PROVE  Orderly' /\ OneEach' /\ NotYet'
<1>1. /\ DOMAIN attempts \subseteq DOMAIN attempts'
      /\ \A a \in DOMAIN attempts : attempts'[a] = attempts[a] /\ attempts[a].call # c
  <2>1. calls[c].kind = "none"
    BY InvokeRest
  <2>2. \A a \in DOMAIN attempts : calls[attempts[a].call].kind # "none"
    BY DEF Owed
  <2>3. DOMAIN attempts \subseteq DOMAIN attempts' /\ \A a \in DOMAIN attempts : attempts'[a] = attempts[a]
    BY InvokeFacts
  <2> QED
    BY <2>1, <2>2, <2>3
<1>2. \A a \in DOMAIN attempts' \ DOMAIN attempts :
        attempts'[a].place = "done" /\ attempts'[a].call = c
  BY InvokeFacts DEF NewAttempt
<1>3. \A i \in DOMAIN agenda' : \E a \in DOMAIN attempts' \ DOMAIN attempts :
        agenda'[i] = Task("dispatch", a)
  BY InvokeFacts
<1>4. Orderly'
  <2>1. Single(agenda')
    BY InvokeFacts DEF Single
  <2>2. AllSteady(agenda', attempts')
    BY <1>2, <1>3 DEF AllSteady, Steady, Task
  <2>3. timers' = timers
    BY InvokeRest DEF retryVars
  <2> QED
    BY <1>1, <1>2, <2>1, <2>2, <2>3 DEF Orderly
<1>5. \A a \in DOMAIN attempts : Live(a)' => Live(a)
  <2>1. \A a \in DOMAIN attempts : ~AskedBy(agenda', a)
    BY <1>3 DEF AskedBy, Task
  <2> QED
    BY <1>1, <2>1 DEF Live, Busy, Alive
<1>6. OneEach'
  <2> SUFFICES ASSUME NEW a \in DOMAIN attempts', NEW b \in DOMAIN attempts', Live(a)', Live(b)',
                      attempts'[a].call = attempts'[b].call, attempts'[a].slot = attempts'[b].slot
               PROVE  a = b
    BY DEF OneEach
  <2>1. CASE a \in DOMAIN attempts /\ b \in DOMAIN attempts
    BY <1>1, <1>5, <2>1 DEF OneEach
  <2>2. CASE a \notin DOMAIN attempts /\ b \notin DOMAIN attempts
    BY <2>2, InvokeFacts
  <2> QED
    BY <1>1, <1>2, <2>1, <2>2
<1>7. \A d \in Calls : calls'[d].called = calls[d].called
  BY InvokeRest
<1>8. calls[c].called = {}
  BY InvokeRest DEF Owed
<1>9. NotYet'
  <2> SUFFICES ASSUME NEW a \in DOMAIN attempts', Live(a)'
               PROVE  attempts'[a].slot \notin calls'[attempts'[a].call].called
    BY DEF NotYet
  <2>1. CASE a \in DOMAIN attempts
    <3>1. attempts[a].call \in Calls
      BY <2>1, Sizes, AttemptFields
    <3> QED
      BY <1>1, <1>5, <1>7, <2>1, <3>1 DEF NotYet
  <2>2. CASE a \notin DOMAIN attempts
    BY <1>2, <1>7, <1>8, <2>2
  <2> QED
    BY <2>1, <2>2
<1> QED
  BY <1>4, <1>6, <1>9

\* An idle step after which there is nothing to do.
LEMMA QuietOne ==
  ASSUME Types, Orderly, OneEach, NotYet, SameCalled, SameRequests, timers' \subseteq timers,
         DOMAIN agenda' = {},
         \A b \in DOMAIN attempts : attempts'[b].place # "late" /\ (Alive(b)' => Alive(b))
  PROVE  Orderly' /\ OneEach' /\ NotYet'
<1>1. Orderly'
  BY DEF Orderly, Single, AllSteady, SameRequests
<1>2. \A b \in DOMAIN attempts : Busy(b)' => Busy(b)
  BY DEF Busy, AskedBy
<1> QED
  BY <1>1, <1>2, OneAsBefore DEF SameRequests

\* An idle step after which an attempt that was underway is done, and called back.
LEMMA DoneOne ==
  ASSUME Types, Orderly, OneEach, NotYet, SameCalled, timers' = timers, agenda = <<>>,
         NEW a \in DOMAIN attempts, Alive(a), attempts' = Place({a}, "done"),
         Part(agenda', a, attempts')
  PROVE  Orderly' /\ OneEach' /\ NotYet'
<1>1. SameRequests
  BY PlaceSame DEF Places
<1>2. /\ \A b \in DOMAIN attempts : attempts'[b].place \in {attempts[b].place, "done"}
  <2>1. attempts \in Seq(AttemptSet(Len(tracers), Len(boxes))) /\ "done" \in Places \ {"held"}
    BY Sizes DEF Places
  <2>2. /\ \A b \in DOMAIN attempts \cap {a} : Place({a}, "done")[b].place = "done"
        /\ \A b \in DOMAIN attempts \ {a} : Place({a}, "done")[b] = attempts[b]
    BY <2>1, PlaceFacts
  <2> QED
    BY <2>2
<1>3. Orderly'
  BY <1>1, <1>2 DEF Orderly, Part, SameRequests
<1>4. \A b \in DOMAIN attempts : Busy(b)' => Busy(b)
  BY <1>2 DEF Busy, Alive, Part
<1> QED
  BY <1>1, <1>3, <1>4, OneAsBefore DEF SameRequests

\* A mailbox connected: what it dispatches has been pending until now.
LEMMA ConnectedOne ==
  ASSUME Types, Orderly, OneEach, NotYet, NEW b \in DOMAIN boxes, MailboxConnected(b)
  PROVE  Orderly' /\ OneEach' /\ NotYet'
<1> DEFINE pending == {a \in DOMAIN attempts : attempts[a].place = "pending"
                                               /\ attempts[a].server = boxes[b].server}
<1>1. /\ agenda' \in ForEach("dispatch", pending) /\ pending \in SUBSET (1..Len(attempts))
      /\ attempts' = attempts /\ timers' = timers /\ calls' = calls
  BY Sizes DEF MailboxConnected, retryVars, userVars
<1>2. \A a \in pending : attempts[a].place = "pending"
  OBVIOUS
<1> HIDE DEF pending
<1>3. /\ \A i \in DOMAIN agenda' : agenda'[i].a \in pending /\ agenda'[i].do = "dispatch"
      /\ \A i, j \in DOMAIN agenda' : agenda'[i].a = agenda'[j].a => i = j
  BY <1>1, ForEachFacts DEF Dos
<1>4. \A i \in DOMAIN agenda' : agenda'[i].code = "none"
  <2>1. \E o : agenda' = [i \in DOMAIN o |-> Task("dispatch", o[i])]
    BY <1>1 DEF ForEach
  <2> QED
    BY <2>1 DEF Task
<1>5. Orderly'
  BY <1>1, <1>2, <1>3, <1>4 DEF Orderly, Single, AllSteady, Steady
<1>6. \A a \in DOMAIN attempts : Busy(a)' => Busy(a)
  BY <1>1, <1>2, <1>3 DEF Busy, Alive, AskedBy
<1> QED
  BY <1>1, <1>5, <1>6, OneAsBefore DEF SameCalled, SameRequest

\* failsafe dispatches again, without a callback.
LEMMA AgainOne ==
  ASSUME Types, Orderly, OneEach, NotYet, NEW t \in timers, RetryDispatch(t)
  PROVE  Orderly' /\ OneEach' /\ NotYet'
<1>0. PICK n : n = Len(attempts) + 1
  OBVIOUS
<1> DEFINE old == attempts[t.a]
           x == NewAttempt(old.call, old.slot, old.server, FALSE, t.tracer, t.retry)
<1>1. /\ attempts' = Append(attempts, x) /\ agenda' = <<Task("dispatch", n)>>
      /\ timers' \subseteq timers /\ calls' = calls /\ agenda = <<>>
      /\ t.a \in DOMAIN attempts
  BY <1>0, Sizes DEF RetryDispatch, userVars, Running, TimerSet
<1>2. x.call = old.call /\ x.slot = old.slot /\ x.place = "done" /\ ~x.hasCb
  BY DEF NewAttempt
<1> HIDE DEF x
<1>3. /\ n \in Nat /\ n \in DOMAIN attempts' /\ n \notin DOMAIN attempts /\ attempts'[n] = x
      /\ \A b \in DOMAIN attempts' : b = n \/ (b \in DOMAIN attempts /\ attempts'[b] = attempts[b])
  BY <1>0, <1>1, AppendFacts
<1> HIDE DEF old
<1>4. Part(agenda', n, attempts')
  <2>1. Task("dispatch", n) \in Tasks /\ Task("dispatch", n).a = n /\ Steady(Task("dispatch", n), attempts')
    BY <1>2, <1>3 DEF Task, Tasks, Steady
  <2> QED
    BY <1>1, <2>1, PartOne
<1>5. Orderly'
  BY <1>1, <1>2, <1>3, <1>4 DEF Orderly, Part
<1>6. \A b \in DOMAIN attempts' : b = n \/ (Live(b)' => Live(b))
  BY <1>3, <1>4 DEF Part, Live, Busy, Alive
<1>7. ~Live(n)'
  BY <1>2, <1>3, Zenon DEF Live
<1>8. OneEach' /\ NotYet'
  <2>1. SameCalled
    BY <1>1 DEF SameCalled
  <2>2. \A b \in DOMAIN attempts' : \/ b = n
                                    \/ /\ b \in DOMAIN attempts
                                       /\ SameRequest(attempts'[b], attempts[b])
                                       /\ Live(b)' => Live(b)
    BY <1>3, <1>6 DEF SameRequest
  <2>3. attempts'[n].call = attempts[t.a].call /\ attempts'[n].slot = attempts[t.a].slot
    BY <1>2, <1>3 DEF old
  <2> QED
    BY <1>1, <1>7, <2>1, <2>2, <2>3, OneAnother
<1> QED
  BY <1>5, <1>8

\* While the connections are calm, nothing that is shut down holds a request.
LEMMA CalmShut ==
  ASSUME Types, Orderly, OneEach, NotYet, SameCalled, timers' = timers, Calm',
         NEW bs \in SUBSET (DOMAIN boxes), boxes' = Shut(bs), NEW sub, sub \subseteq bs,
         attempts' = Place(HeldBy(sub), "late"), agenda' \in ForEach("lost", HeldBy(sub))
  PROVE  Orderly' /\ OneEach' /\ NotYet'
<1>1. bs = {}
  BY ShutFacts, Sizes DEF Calm
<1>2. HeldBy(sub) = {}
  BY <1>1 DEF HeldBy
<1>3. DOMAIN agenda' = {}
  BY <1>2, ForEachFacts DEF Dos
<1>4. SameRequests /\ \A b \in DOMAIN attempts : attempts'[b] = attempts[b]
  <2>1. SameRequests
    BY PlaceSame DEF Places
  <2> QED
    BY <1>2, <2>1 DEF Place
<1> QED
  BY <1>3, <1>4, QuietOne DEF Alive, Orderly

LEMMA FilterOne ==
  ASSUME Types, listeners <= 1, Orderly, OneEach, NotYet, NEW a \in DOMAIN attempts,
         FilterDone(a) \/ FilterFailed(a) \/ CbTimeout(a)
  PROVE  Orderly' /\ OneEach' /\ NotYet'
<1> DEFINE m == mailboxes[attempts[a].server]
<1>1. /\ agenda = <<>> /\ timers' = timers /\ SameCalled /\ Alive(a)
      /\ \/ /\ attempts' = Place({a}, "done")
            /\ \/ agenda' = <<CallbackOf(a, FALSE)>> \o Emit("FAIL_FIND_MAILBOX", a, FALSE, attempts[a].tracer)
               \/ agenda' = <<CallbackOf(a, FALSE)>> \o Emit("FILTER_ERROR", a, FALSE, attempts[a].tracer)
               \/ agenda' = <<Task("lost", a)>>
         \/ m # 0 /\ attempts[a].place = "filter" /\ attempts' = Hold(a, m) /\ agenda' = agenda
  BY DEF FilterDone, FilterFailed, CbTimeout, Running, retryVars, userVars, SameCalled, Alive, Orderly
<1>2. CASE attempts' = Place({a}, "done") /\ agenda' \in {
             <<CallbackOf(a, FALSE)>> \o Emit("FAIL_FIND_MAILBOX", a, FALSE, attempts[a].tracer),
             <<CallbackOf(a, FALSE)>> \o Emit("FILTER_ERROR", a, FALSE, attempts[a].tracer),
             <<Task("lost", a)>>}
  <2>1. attempts'[a].place = "done"
    <3>1. attempts \in Seq(AttemptSet(Len(tracers), Len(boxes))) /\ "done" \in Places \ {"held"}
      BY Sizes DEF Places
    <3> QED
      BY <1>2, <3>1, PlaceFacts
  <2>2. a \in Nat /\ attempts[a].tracer \in Nat
    BY Sizes, TaskOrders
  <2>3. Part(agenda', a, attempts')
    BY <1>2, <2>1, <2>2, Parts DEF RpcErrors
  <2> QED
    BY <1>1, <1>2, <2>3, DoneOne
<1>3. CASE m # 0 /\ attempts[a].place = "filter" /\ attempts' = Hold(a, m) /\ agenda' = agenda
  <2>1. m \in 1..Len(boxes) /\ attempts \in Seq(AttemptSet(Len(tracers), Len(boxes))) /\ Len(boxes) \in Nat
    BY <1>3, TaskOrders, Sizes DEF Types, BoxTypes
  <2> HIDE DEF m
  <2>2. /\ SameRequests /\ attempts'[a].place = "held"
        /\ \A b \in DOMAIN attempts \ {a} : attempts'[b] = attempts[b]
    BY <1>3, <2>1, HoldSame, HoldFacts
  <2>3. DOMAIN agenda' = {}
    BY <1>1, <1>3
  <2> QED
    BY <1>1, <1>3, <2>2, <2>3, QuietOne DEF Alive, Orderly
<1> QED
  BY <1>1, <1>2, <1>3

LEMMA AnswerOne ==
  ASSUME Types, listeners <= 1, Orderly, OneEach, NotYet, NEW a \in DOMAIN attempts,
         NEW ok \in BOOLEAN, NEW filtered \in BOOLEAN, Answer(a, ok, filtered)
  PROVE  Orderly' /\ OneEach' /\ NotYet'
<1>1. /\ agenda = <<>> /\ timers' = timers /\ SameCalled /\ Alive(a) /\ attempts' = Place({a}, "done")
  BY DEF Answer, Running, retryVars, SameCalled, Alive
<1>2. agenda' \in {<<CallbackOf(a, ok)>>, Emit("FILTER_ERROR", a, FALSE, 0) \o <<CallbackOf(a, ok)>>}
  <2> DEFINE x == CallbackOf(a, ok)
  <2>1. <<>> \o <<x>> = <<x>>
    OBVIOUS
  <2>2. agenda' = (IF filtered THEN <<>> ELSE Emit("FILTER_ERROR", a, FALSE, 0)) \o <<x>>
    BY DEF Answer
  <2> HIDE DEF x
  <2>3. CASE filtered
    BY <2>1, <2>2, <2>3 DEF x
  <2>4. CASE ~filtered
    BY <2>2, <2>4 DEF x
  <2> QED
    BY <2>3, <2>4 DEF x
<1>3. attempts'[a].place = "done"
  <2>1. attempts \in Seq(AttemptSet(Len(tracers), Len(boxes))) /\ "done" \in Places \ {"held"}
    BY Sizes DEF Places
  <2> QED
    BY <1>1, <2>1, PlaceFacts
<1>4. Part(agenda', a, attempts')
  <2>1. a \in Nat /\ 0 \in Nat /\ "FILTER_ERROR" \in RpcErrors \ {"FAIL_CONNECT_SERVER"}
    BY Sizes DEF RpcErrors
  <2> QED
    BY <1>2, <1>3, <2>1, Parts
<1> QED
  BY <1>1, <1>4, DoneOne

LEMMA IdleOne ==
  ASSUME ClientAssumption, Types, Owed, Calm, Calm', Orderly, OneEach, NotYet, [Next]_vars, ~Continue
  PROVE  Orderly' /\ OneEach' /\ NotYet'
<1> DEFINE Goal == Orderly' /\ OneEach' /\ NotYet'
<1>1. listeners <= 1
  BY DEF Calm
<1>2. ASSUME UNCHANGED <<attempts, agenda, timers>>, SameCalled PROVE Goal
  <2>1. Orderly' /\ \A b : Busy(b)' <=> Busy(b)
    BY <1>2 DEF Orderly, Busy, Alive
  <2> QED
    BY <1>2, <2>1, OneAsBefore DEF SameRequest
<1>3. CASE Start \/ StartTick \/ Stop \/ \E s \in Servers : AddServer(s)
  BY <1>2, <1>3 DEF Start, StartTick, Stop, AddServer, workVars, retryVars, userVars, SameCalled
<1>4. CASE CloseAll
  <2> DEFINE all == Range(mailboxes) \ {0}
  <2>1. all \in SUBSET (DOMAIN boxes)
    BY Sizes DEF Types, BoxTypes, Range
  <2>2. /\ boxes' = Shut(all) /\ Open(all) \subseteq all /\ timers' = timers /\ SameCalled
        /\ attempts' = Place(HeldBy(Open(all)), "late") /\ agenda' \in ForEach("lost", HeldBy(Open(all)))
    BY <1>4 DEF CloseAll, Open, retryVars, userVars, SameCalled
  <2> HIDE DEF all
  <2> QED
    BY <2>1, <2>2, CalmShut
<1>5. ASSUME NEW s \in Servers, RemoveServer(s) PROVE Goal
  <2> DEFINE bs == {mailboxes[s]} \ {0}
  <2>1. bs \in SUBSET (DOMAIN boxes)
    BY Sizes DEF Types, BoxTypes
  <2>2. /\ boxes' = Shut(bs) /\ Open(bs) \subseteq bs /\ timers' = timers /\ SameCalled
        /\ attempts' = Place(HeldBy(Open(bs)), "late") /\ agenda' \in ForEach("lost", HeldBy(Open(bs)))
    BY <1>5 DEF RemoveServer, Open, retryVars, userVars, SameCalled
  <2> HIDE DEF bs
  <2> QED
    BY <2>1, <2>2, CalmShut
<1>6. ASSUME NEW c \in Calls,
             \/ ProxyIgnored(c) \/ RpcRejected(c)
             \/ \E s \in DefRoute : RpcInvoke(c, s)
             \/ \E q \in Lists : RpcToAll(c, q)
      PROVE  Goal
  <2>1. CASE SettleStep(c)
    <3>1. UNCHANGED <<attempts, agenda, timers>> /\ SameCalled
      BY <2>1, SettleEffect DEF retryVars, SameCalled
    <3> QED
      BY <1>2, <3>1
  <2>2. ASSUME NEW kind \in {"one", "all"}, NEW q \in Seq(Servers), InvokeStep(c, kind, q) PROVE Goal
    BY <2>2, InvokeOne
  <2> QED
    BY <1>6, <2>1, <2>2, CallCases
<1>7. ASSUME NEW b \in DOMAIN boxes, MailboxConnected(b) PROVE Goal
  BY <1>7, ConnectedOne
<1>8. ASSUME NEW b \in DOMAIN boxes, MailboxFailed(b) \/ MailboxEnded(b) PROVE FALSE
  <2>1. b \in DOMAIN boxes' /\ boxes'[b].phase = "dead"
    <3>1. CASE MailboxFailed(b)
      BY <3>1, PhaseFacts DEF MailboxFailed
    <3>2. CASE MailboxEnded(b)
      BY <3>2, ShutFacts, Sizes DEF MailboxEnded
    <3> QED
      BY <1>8, <3>1, <3>2
  <2> QED
    BY <2>1 DEF Calm
<1>9. ASSUME NEW a \in DOMAIN attempts, FilterDone(a) \/ FilterFailed(a) \/ CbTimeout(a) PROVE Goal
  BY <1>1, <1>9, FilterOne
<1>10. ASSUME NEW a \in DOMAIN attempts, NEW ok \in BOOLEAN, NEW filtered \in BOOLEAN,
              Answer(a, ok, filtered)
       PROVE  Goal
  BY <1>1, <1>10, AnswerOne
<1>11. ASSUME NEW t \in timers, RetryConnect(t) \/ RetryDispatch(t) PROVE Goal
  BY <1>11, AgainOne DEF RetryConnect, Orderly
<1>12. CASE UNCHANGED vars
  BY <1>2, <1>12 DEF vars, workVars, retryVars, userVars, SameCalled
<1> HIDE DEF Goal
<1>13. Goal
  BY <1>3, <1>4, <1>5, <1>6, <1>7, <1>8, <1>9, <1>10, <1>11, <1>12, Zenon DEF Next, Goal
<1> QED
  BY <1>13 DEF Goal

LEMMA OneCallbackStep ==
  ASSUME ClientAssumption, Types, Heard, Owed, OneCallbackEach, [Next]_vars
  PROVE  OneCallbackEach'
<1> SUFFICES ASSUME Calm'
             PROVE  Orderly' /\ OneEach' /\ NotYet' /\ thrown' # "callback called twice"
  BY DEF OneCallbackEach
<1>1. Calm
  BY CalmBefore
<1>2. listeners <= 1 /\ Orderly /\ OneEach /\ NotYet /\ thrown # "callback called twice"
  BY <1>1 DEF OneCallbackEach, Calm
<1>3. CASE CallbackStep
  BY <1>2, <1>3, CallbackOne
<1>4. CASE ~CallbackStep
  <2>1. Orderly' /\ OneEach' /\ NotYet'
    BY <1>1, <1>2, <1>4, ContinueOne, IdleOne
  <2>2. thrown' # "callback called twice"
    BY <1>2, <1>4, ThrownCases, HeadFacts DEF Heard
  <2> QED
    BY <2>1, <2>2
<1> QED
  BY <1>3, <1>4

\* What ends the process: under failfast and failback only async.each() called back
\* twice for the same server, and that, whatever the failure mode, only after a
\* connection was lost or start() was called twice.  The error event of the station
\* always finds a listener.
THEOREM ThrowsCorrect == Spec => []OnlyKnownThrows
<1>1. Init => OneCallbackEach
  BY DEF Init, OneCallbackEach, Orderly, Single, AllSteady, OneEach, NotYet
<1>2. Types /\ Heard /\ Owed /\ OneCallbackEach /\ [Next]_vars => OneCallbackEach'
  BY ClientAssumption, OneCallbackStep
<1>3. Types /\ Heard /\ OneCallbackEach => OnlyKnownThrows
  <2>1. Types /\ ~Calm => listeners > 1 \/ \E b \in DOMAIN boxes : boxes[b].phase = "dead"
    BY Sizes DEF Calm
  <2> QED
    BY <2>1 DEF Heard, OneCallbackEach, OnlyKnownThrows
<1> QED
  BY <1>1, <1>2, <1>3, TypesAlways, HeardAlways, OwedAlways, ClientAssumption, PTL DEF Spec

=============================================================================
