------------------------------- MODULE Client -------------------------------
(***************************************************************************)
(* The RPC client of lib/rpc-client/client.js with the failure process of  *)
(* failureProcess.js behind it: start() and stop(), calls to one server    *)
(* and to all servers of a type, and what failfast, failback, failover and *)
(* failsafe do about the errors the station emits.                         *)
(*                                                                         *)
(* The station is MailStation over socket.io, reduced to what the errors   *)
(* depend on.  A dispatch() is an "attempt": a retry is an attempt of its  *)
(* own.  A handler that emits errors or calls back does so in the order of *)
(* its agenda, and nothing else runs before the agenda is empty.           *)
(***************************************************************************)
EXTENDS Integers, Sequences, FiniteSets, Functions

CONSTANTS Servers, Calls,
          Modes,        \* the failure modes to choose opts.failMode from
          RetryTimes,   \* opts.retryTimes
          MaxAttempts,  \* bound: number of dispatch() calls
          MaxBoxes,     \* bound: number of mailboxes created
          MaxStarts,    \* bound: number of calls of start() before the first tick
          MaxChanges    \* bound: number of servers added and removed

FailModes == {"failfast", "failback", "failover", "failsafe"}

ASSUME ClientAssumption ==
  /\ IsFiniteSet(Servers)
  /\ Modes \subseteq FailModes
  /\ {RetryTimes, MaxAttempts, MaxBoxes, MaxStarts, MaxChanges} \subseteq Nat

VARIABLES
  failMode,   \* opts.failMode
  state,      \* of the client, and of its station
  ticks,      \* calls of start() whose nextTick is still to come
  listeners,  \* times the failure process listens to the station's errors
  closing,    \* stop() has still to close the mailboxes
  known,      \* ids in the station's servers
  table,      \* the station's serversMap[serverType]
  boxes,      \* the mailboxes ever created
  mailboxes,  \* the registered mailbox of each server, or 0
  calls,      \* what the user asked for and was told
  attempts,   \* the calls of dispatch()
  tracers,    \* retryTimes of each tracer the failure process made
  timers,     \* the timers of failsafe
  agenda,     \* what the running handler has still to do
  thrown,     \* what ended the process, or "nothing"
  counts,     \* starts and changes so far, for the bounds
  served      \* servers that executed a call

lifeVars == <<failMode, state, ticks, listeners, closing, counts>>
infoVars == <<known, table>>
boxVars == <<boxes, mailboxes>>
retryVars == <<tracers, timers>>
userVars == <<calls, served, thrown>>
workVars == <<boxVars, retryVars, attempts, agenda, userVars>>
vars == <<lifeVars, infoVars, workVars>>

\* constants.RPC_ERROR
RpcErrors == {"SERVER_NOT_STARTED", "NO_TRAGET_SERVER", "FAIL_CONNECT_SERVER",
              "FAIL_FIND_MAILBOX", "FAIL_SEND_MESSAGE", "FILTER_ERROR"}

(* An attempt is "pending" until its mailbox connects, in the hands of the     *)
(* "filter", "held" by a mailbox, "late" when that mailbox has ended but its   *)
(* timer has not, and then "done".  hasCb: it has the callback of the call's   *)
(* request to slot, as against none.  tracer 0 is null; retry counts the       *)
(* retries of the tracer.                                                      *)
Places == {"pending", "filter", "held", "late", "done"}
Attempts == [call : Calls, slot : Servers, server : Servers, hasCb : BOOLEAN,
             tracer : Nat, retry : Nat, place : Places, box : Nat]
Boxes == [server : Servers, phase : {"connecting", "open", "dead"}, opener : Nat]
CallStates == [kind : {"none", "one", "all", "ignored"}, targets : SUBSET Servers,
               called : SUBSET Servers, good : SUBSET Servers, reports : Nat,
               success : BOOLEAN]
Tasks == [do : {"lost", "fail", "callback", "dispatch", "unhandled"},
          code : RpcErrors \cup {"none"}, a : Nat, flag : BOOLEAN, tracer : Nat]
Timers == [kind : {"connect", "dispatch"}, a : Nat, tracer : Nat, retry : Nat]

Init ==
  /\ failMode \in Modes
  /\ state = "inited" /\ ticks = 0 /\ listeners = 0 /\ closing = FALSE
  /\ known = Servers
  /\ table \in {q \in [1..Cardinality(Servers) -> Servers] : IsInjective(q)}
  /\ boxes = <<>> /\ mailboxes = [s \in Servers |-> 0]
  /\ calls = [c \in Calls |-> [kind |-> "none", targets |-> {}, called |-> {}, good |-> {},
                               reports |-> 0, success |-> FALSE]]
  /\ attempts = <<>> /\ tracers = <<>> /\ timers = {} /\ agenda = <<>>
  /\ thrown = "nothing"
  /\ counts = [starts |-> 0, changes |-> 0]
  /\ served = [c \in Calls |-> {}]

Running == agenda = <<>> /\ thrown = "nothing"

-----------------------------------------------------------------------------
(* The agenda. *)

Task(do, a) == [do |-> do, code |-> "none", a |-> a, flag |-> FALSE, tracer |-> 0]

\* The callback of attempt a, with a result or with an error.
CallbackOf(a, ok) == [Task("callback", a) EXCEPT !.flag = ok]

\* emit('error', code, tracer, ...): one task for each listener.  Without one,
\* an EventEmitter throws.
Emit(code, a, hasCb, tracer) ==
  IF listeners = 0
  THEN <<Task("unhandled", a)>>
  ELSE [i \in 1..listeners |-> [Task("fail", a) EXCEPT !.code = code, !.flag = hasCb,
                                                       !.tracer = tracer]]

\* The mailbox has lost the request of an attempt: the error goes to the failure
\* process, without the callback, before the callback is called.  And one that
\* leaves the callback to the failure process.
BugSendFailed(a) == Emit("FAIL_SEND_MESSAGE", a, FALSE, attempts[a].tracer)
SendFailed(a) ==
  Emit("FAIL_SEND_MESSAGE", a, FALSE, attempts[a].tracer) \o <<CallbackOf(a, FALSE)>>

\* The same task for each attempt of as, in any order.
ForEach(do, as) ==
  LET orders == {q \in [1..Cardinality(as) -> as] : Range(q) = as}
  IN {[i \in DOMAIN q |-> Task(do, q[i])] : q \in orders}

\* The requests that the mailboxes bs hold.
HeldBy(bs) == {a \in DOMAIN attempts : attempts[a].place = "held" /\ attempts[a].box \in bs}

\* An exception nobody catches ends the process.
Throw(what) ==
  /\ thrown' = what
  /\ agenda' = <<>>
  /\ timers' = {}

Place(as, place) == [a \in DOMAIN attempts |->
                       IF a \in as THEN [attempts[a] EXCEPT !.place = place] ELSE attempts[a]]

NewAttempt(c, slot, s, hasCb, tracer, retry) ==
  [call |-> c, slot |-> slot, server |-> s, hasCb |-> hasCb, tracer |-> tracer,
   retry |-> retry, place |-> "done", box |-> 0]

-----------------------------------------------------------------------------
(* start() and stop(). *)

Start ==
  /\ Running /\ state = "inited" /\ counts.starts < MaxStarts
  /\ ticks' = ticks + 1
  /\ counts' = [counts EXCEPT !.starts = @ + 1]
  /\ UNCHANGED <<failMode, state, listeners, closing, infoVars, workVars>>

\* One that listens only if the station has been started before.
BugStartTick ==
  /\ Running /\ ticks > 0
  /\ ticks' = ticks - 1
  /\ state' = "started"
  /\ listeners' = IF state = "inited" THEN listeners ELSE listeners + 1
  /\ UNCHANGED <<failMode, closing, counts, infoVars, workVars>>

\* The tick of the station's start() and the callback the client gave it.
StartTick ==
  /\ Running /\ ticks > 0
  /\ ticks' = ticks - 1
  /\ state' = "started"
  /\ listeners' = listeners + 1
  /\ UNCHANGED <<failMode, closing, counts, infoVars, workVars>>

\* stop(): the mailboxes are closed at once or when the grace time is over.
Stop ==
  /\ Running /\ state = "started"
  /\ state' = "closed"
  /\ closing' = TRUE
  /\ UNCHANGED <<failMode, ticks, listeners, counts, infoVars, workVars>>

Open(bs) == {b \in bs : boxes[b].phase = "open"}
Shut(bs) == [b \in DOMAIN boxes |->
               IF b \in bs THEN [boxes[b] EXCEPT !.phase = "dead"] ELSE boxes[b]]
Forget(bs) == [s \in Servers |-> IF mailboxes[s] \in bs THEN 0 ELSE mailboxes[s]]

\* closeAll(): open mailboxes report their end at once.
CloseAll ==
  LET all == Range(mailboxes) \ {0}
  IN /\ Running /\ closing
     /\ closing' = FALSE
     /\ boxes' = Shut(all)
     /\ mailboxes' = Forget(Open(all))
     /\ agenda' \in ForEach("lost", HeldBy(Open(all)))
     /\ attempts' = Place(HeldBy(Open(all)), "late")
     /\ UNCHANGED <<failMode, state, ticks, listeners, counts, infoVars, retryVars, userVars>>

-----------------------------------------------------------------------------
(* The servers, passed on to the station. *)

AddServer(s) ==
  /\ Running /\ counts.changes < MaxChanges
  /\ known' = known \cup {s}
  /\ table' = IF s \in Range(table) THEN table ELSE Append(table, s)
  /\ counts' = [counts EXCEPT !.changes = @ + 1]
  /\ UNCHANGED <<failMode, state, ticks, listeners, closing, workVars>>

\* The table without s, which it names at most once.
Splice(s) ==
  IF s \in Range(table)
  THEN LET index == CHOOSE i \in DOMAIN table : table[i] = s
       IN SubSeq(table, 1, index - 1) \o SubSeq(table, index + 1, Len(table))
  ELSE table

RemoveServer(s) ==
  LET bs == {mailboxes[s]} \ {0}
  IN /\ Running /\ counts.changes < MaxChanges
     /\ known' = known \ {s}
     /\ table' = Splice(s)
     /\ boxes' = Shut(bs)
     /\ mailboxes' = Forget(bs)
     /\ agenda' \in ForEach("lost", HeldBy(Open(bs)))
     /\ attempts' = Place(HeldBy(Open(bs)), "late")
     /\ counts' = [counts EXCEPT !.changes = @ + 1]
     /\ UNCHANGED <<failMode, state, ticks, listeners, closing, retryVars, userVars>>

-----------------------------------------------------------------------------
(* Calls by the user. *)

\* The requests of call c to the servers in queue, to be dispatched in order.
Invoke(c, kind, queue) ==
  LET n == Len(attempts)
  IN /\ n + Len(queue) <= MaxAttempts
     /\ calls' = [calls EXCEPT ![c].kind = kind, ![c].targets = Range(queue)]
     /\ attempts' = attempts \o [i \in DOMAIN queue |->
                                   NewAttempt(c, queue[i], queue[i], TRUE, 0, 0)]
     /\ agenda' = [i \in DOMAIN queue |-> Task("dispatch", n + i)]
     /\ UNCHANGED <<lifeVars, infoVars, boxVars, retryVars, thrown, served>>

\* The call is over before it began: it is reported n times, as a success or not.
Settle(c, kind, n, ok) ==
  /\ calls' = [calls EXCEPT ![c].kind = kind, ![c].reports = n, ![c].success = ok]
  /\ UNCHANGED <<lifeVars, infoVars, boxVars, retryVars, attempts, agenda, thrown, served>>

\* What the default router may answer.  It goes by the hash of a session and by
\* the servers of the route context, which need not be those of the station.
DefRoute == Servers

\* rpcInvoke(), called by the user, by the route of a proxy, or by toServer().
RpcInvoke(c, s) ==
  /\ Running /\ calls[c].kind = "none"
  /\ IF state = "started"
     THEN Invoke(c, "one", <<s>>)
     ELSE Settle(c, "one", 1, FALSE)

\* toServer('*'): async.each() over the servers the route context knows.
RpcToAll(c, queue) ==
  /\ Running /\ calls[c].kind = "none" /\ state = "started"
  /\ IF queue = <<>> THEN Settle(c, "all", 1, TRUE) ELSE Invoke(c, "all", queue)

\* proxyCB() drops the call and never calls back, as the client is not started or
\* there are fewer than two arguments.
ProxyIgnored(c) ==
  /\ Running /\ calls[c].kind = "none"
  /\ Settle(c, "ignored", 0, FALSE)

\* proxyCB() and rpcToSpecifiedServer() find no target for the call.
RpcRejected(c) ==
  /\ Running /\ calls[c].kind = "none" /\ state = "started"
  /\ Settle(c, "one", 1, FALSE)

\* next() of async.each() that counts errors as well.
BugEachNext(call, slot, ok) ==
  LET called == call.called \cup {slot}
  IN [call EXCEPT !.called = called,
                  !.good = IF ok THEN @ \cup {slot} ELSE @,
                  !.reports = IF called = call.targets THEN 1 ELSE @,
                  !.success = @ \/ called = call.targets]

\* next() of async.each(): the first error is reported at once, and success when
\* every server is done.
EachNext(call, slot, ok) ==
  LET good == IF ok THEN call.good \cup {slot} ELSE call.good
  IN [call EXCEPT !.called = @ \cup {slot},
                  !.good = good,
                  !.reports = IF ~ok \/ good = call.targets THEN 1 ELSE @,
                  !.success = @ \/ good = call.targets]

\* The callback of attempt a is called.  async.each() throws if it is the second
\* time for a server.
RunCallback(a, ok, rest) ==
  LET c == attempts[a].call
      slot == attempts[a].slot
      call == calls[c]
  IN IF attempts[a].hasCb /\ call.kind = "all" /\ slot \in call.called
     THEN Throw("callback called twice") /\ UNCHANGED calls
     ELSE /\ calls' = IF ~attempts[a].hasCb THEN calls
                      ELSE IF call.kind = "all"
                      THEN [calls EXCEPT ![c] = EachNext(@, slot, ok)]
                      ELSE [calls EXCEPT ![c].reports = @ + 1]
          /\ agenda' = rest
          /\ UNCHANGED <<timers, thrown>>

-----------------------------------------------------------------------------
(* dispatch(). *)

\* dispatch() of attempt a: refused, pending for a mailbox that connects or for a
\* new one, or given to the before filters.
RunDispatch(a, rest) ==
  LET s == attempts[a].server
      b == mailboxes[s]
      refuse(code) == /\ agenda' = Emit(code, a, TRUE, attempts[a].tracer) \o rest
                      /\ attempts' = Place({a}, "done")
                      /\ UNCHANGED boxVars
      move(place) == /\ attempts' = Place({a}, place)
                     /\ agenda' = rest
  IN \/ state # "started" /\ refuse("SERVER_NOT_STARTED")
     \/ state = "started" /\ b = 0 /\ s \notin known /\ refuse("NO_TRAGET_SERVER")
     \/ /\ state = "started" /\ b = 0 /\ s \in known
        /\ Len(boxes) < MaxBoxes
        /\ boxes' = Append(boxes, [server |-> s, phase |-> "connecting", opener |-> a])
        /\ mailboxes' = [mailboxes EXCEPT ![s] = Len(boxes) + 1]
        /\ move("pending")
     \/ /\ state = "started" /\ b # 0
        /\ move(IF boxes[b].phase = "open" THEN "filter" ELSE "pending")
        /\ UNCHANGED boxVars

\* The mailbox connected: flushPending() dispatches what is pending.
MailboxConnected(b) ==
  LET s == boxes[b].server
      pending == {a \in DOMAIN attempts : attempts[a].place = "pending"
                                          /\ attempts[a].server = s}
  IN /\ Running /\ boxes[b].phase = "connecting"
     /\ boxes' = [boxes EXCEPT ![b].phase = "open"]
     /\ agenda' \in ForEach("dispatch", pending)
     /\ UNCHANGED <<lifeVars, infoVars, mailboxes, retryVars, userVars, attempts>>

\* The mailbox failed to connect: it is forgotten, and the error goes to the
\* failure process with the callback of the request that made it connect.
MailboxFailed(b) ==
  LET a == boxes[b].opener
  IN /\ Running /\ boxes[b].phase = "connecting"
     /\ boxes' = [boxes EXCEPT ![b].phase = "dead"]
     /\ mailboxes' = [mailboxes EXCEPT ![boxes[b].server] = 0]
     /\ agenda' = Emit("FAIL_CONNECT_SERVER", a, TRUE, attempts[a].tracer)
     /\ UNCHANGED <<lifeVars, infoVars, retryVars, userVars, attempts>>

\* The connection ended: the mailbox calls back what it holds, and whichever
\* mailbox is registered for the server is closed and forgotten.
MailboxEnded(b) ==
  LET other == {mailboxes[boxes[b].server]} \ {0}
      ended == Open({b} \cup other)
  IN /\ Running /\ boxes[b].phase = "open"
     /\ boxes' = Shut({b} \cup other)
     /\ mailboxes' = Forget(other)
     /\ \E own \in ForEach("lost", HeldBy({b})), others \in ForEach("lost", HeldBy(ended \ {b})) :
          agenda' = own \o others
     /\ attempts' = Place(HeldBy(ended), "late")
     /\ UNCHANGED <<lifeVars, infoVars, retryVars, userVars>>

Hold(a, b) == [attempts EXCEPT ![a].place = "held", ![a].box = b]

\* send(): the filters are done, and the mailbox is looked up again.
FilterDone(a) ==
  LET b == mailboxes[attempts[a].server]
  IN /\ Running /\ attempts[a].place = "filter"
     /\ \/ /\ b = 0
           /\ agenda' = <<CallbackOf(a, FALSE)>>
                        \o Emit("FAIL_FIND_MAILBOX", a, FALSE, attempts[a].tracer)
           /\ attempts' = Place({a}, "done")
        \/ /\ b # 0 /\ boxes[b].phase # "open"
           /\ agenda' = <<Task("lost", a)>>
           /\ attempts' = Place({a}, "done")
        \/ /\ b # 0 /\ boxes[b].phase = "open"
           /\ attempts' = Hold(a, b)
           /\ UNCHANGED agenda
     /\ UNCHANGED <<lifeVars, infoVars, boxVars, retryVars, userVars>>

\* send(): a filter passed an error.
FilterFailed(a) ==
  /\ Running /\ attempts[a].place = "filter"
  /\ agenda' = <<CallbackOf(a, FALSE)>> \o Emit("FILTER_ERROR", a, FALSE, attempts[a].tracer)
  /\ attempts' = Place({a}, "done")
  /\ UNCHANGED <<lifeVars, infoVars, boxVars, retryVars, userVars>>

\* The service answered, with a result or with an error; an after filter may fail
\* as well, which leaves the tracer behind.
Answer(a, ok, filtered) ==
  /\ Running /\ attempts[a].place = "held" /\ boxes[attempts[a].box].phase = "open"
  /\ agenda' = (IF filtered THEN <<>> ELSE Emit("FILTER_ERROR", a, FALSE, 0))
               \o <<CallbackOf(a, ok)>>
  /\ attempts' = Place({a}, "done")
  /\ served' = IF ok THEN [served EXCEPT ![attempts[a].call] = @ \cup {attempts[a].server}]
               ELSE served
  /\ UNCHANGED <<lifeVars, infoVars, boxVars, retryVars, calls, thrown>>

\* The timer of a request fires, also when its mailbox has called back before.
CbTimeout(a) ==
  /\ Running /\ attempts[a].place \in {"held", "late"}
  /\ agenda' = <<Task("lost", a)>>
  /\ attempts' = Place({a}, "done")
  /\ UNCHANGED <<lifeVars, infoVars, boxVars, retryVars, userVars>>

-----------------------------------------------------------------------------
(* The failure process. *)

\* failfast and failback: an error without a callback is only logged.
FailFast(t, rest) ==
  /\ failMode \in {"failfast", "failback"}
  /\ agenda' = (IF t.flag THEN <<CallbackOf(t.a, FALSE)>> ELSE <<>>) \o rest
  /\ UNCHANGED <<table, attempts, retryVars, thrown>>

\* failover: strike the server off the routing table and dispatch to the first of
\* the others.  A failed connection has no message, later errors no callback.
FailOver(t, rest) ==
  LET a == attempts[t.a]
      others == Splice(a.server)
  IN /\ failMode = "failover"
     /\ \/ /\ t.code = "FAIL_CONNECT_SERVER"
           /\ Throw("no message")
           /\ UNCHANGED <<table, attempts>>
        \/ /\ t.code # "FAIL_CONNECT_SERVER" /\ others = <<>>
           /\ table' = others
           /\ IF t.flag
              THEN agenda' = <<CallbackOf(t.a, FALSE)>> \o rest /\ UNCHANGED <<timers, thrown>>
              ELSE Throw("no callback")
           /\ UNCHANGED attempts
        \/ /\ t.code # "FAIL_CONNECT_SERVER" /\ others # <<>>
           /\ Len(attempts) < MaxAttempts
           /\ table' = others
           /\ attempts' = Append(attempts, NewAttempt(a.call, a.slot, Head(others),
                                                      t.flag /\ a.hasCb, 0, 0))
           /\ agenda' = <<Task("dispatch", Len(attempts) + 1)>> \o rest
           /\ UNCHANGED <<timers, thrown>>
     /\ UNCHANGED tracers

\* retryTimes of tracer n one up, or of a new tracer if n is null.
\* And one that does not count the retries of a tracer it was given.
BugCounted(n) == IF n = 0 THEN Append(tracers, 1) ELSE tracers
Counted(n) == IF n = 0 THEN Append(tracers, 1) ELSE [tracers EXCEPT ![n] = @ + 1]

\* failsafe: connect or send again later, a bounded number of times for a tracer.
FailSafe(t, rest) ==
  LET n == IF t.tracer = 0 THEN Len(tracers) + 1 ELSE t.tracer
      retry == Counted(t.tracer)[n]
      kind == IF t.code = "FAIL_CONNECT_SERVER" THEN "connect" ELSE "dispatch"
      retried == {"FAIL_CONNECT_SERVER", "FAIL_FIND_MAILBOX", "FAIL_SEND_MESSAGE"}
  IN /\ failMode = "failsafe"
     /\ tracers' = Counted(t.tracer)
     /\ \/ /\ t.code \in retried /\ retry <= RetryTimes
           /\ timers' = timers \cup {[kind |-> kind, a |-> t.a, tracer |-> n, retry |-> retry]}
           /\ agenda' = rest
           /\ UNCHANGED thrown
        \/ /\ t.code \notin retried \/ retry > RetryTimes
           /\ IF t.flag
              THEN agenda' = <<CallbackOf(t.a, FALSE)>> \o rest /\ UNCHANGED <<timers, thrown>>
              ELSE Throw("no callback")
     /\ UNCHANGED <<table, attempts>>

\* connect() again: the mailbox is gone, or a successor is connected, which then
\* is forgotten although it is open.  A retry that meets a mailbox still connecting
\* would open a second socket in it: it is left out.
RetryConnect(t) ==
  LET s == attempts[t.a].server
      b == mailboxes[s]
  IN /\ Running /\ t.kind = "connect"
     /\ \/ b = 0 /\ Throw("no mailbox") /\ UNCHANGED mailboxes
        \/ /\ b # 0 /\ boxes[b].phase = "open"
           /\ timers' = timers \ {t}
           /\ mailboxes' = [mailboxes EXCEPT ![s] = 0]
           /\ agenda' = Emit("FAIL_CONNECT_SERVER", t.a, TRUE, t.tracer)
           /\ UNCHANGED thrown
     /\ UNCHANGED <<lifeVars, infoVars, boxes, calls, attempts, tracers, served>>

\* dispatch() again, to the same server and without a callback.
RetryDispatch(t) ==
  LET a == attempts[t.a]
  IN /\ Running /\ t.kind = "dispatch"
     /\ Len(attempts) < MaxAttempts
     /\ timers' = timers \ {t}
     /\ attempts' = Append(attempts, NewAttempt(a.call, a.slot, a.server, FALSE, t.tracer,
                                                t.retry))
     /\ agenda' = <<Task("dispatch", Len(attempts) + 1)>>
     /\ UNCHANGED <<lifeVars, infoVars, boxVars, userVars, tracers>>

\* The next task of the running handler.
Continue ==
  LET t == Head(agenda)
      rest == Tail(agenda)
  IN /\ agenda # <<>>
     /\ \/ /\ t.do = "lost"
           /\ agenda' = SendFailed(t.a) \o rest
           /\ UNCHANGED <<infoVars, boxVars, retryVars, calls, attempts, thrown>>
        \/ /\ t.do = "callback"
           /\ RunCallback(t.a, t.flag, rest)
           /\ UNCHANGED <<infoVars, boxVars, tracers, attempts>>
        \/ /\ t.do = "dispatch"
           /\ RunDispatch(t.a, rest)
           /\ UNCHANGED <<infoVars, retryVars, calls, thrown>>
        \/ /\ t.do = "fail"
           /\ FailFast(t, rest) \/ FailOver(t, rest) \/ FailSafe(t, rest)
           /\ UNCHANGED <<known, boxVars, calls>>
        \/ /\ t.do = "unhandled"
           /\ Throw("unhandled error")
           /\ UNCHANGED <<infoVars, boxVars, tracers, calls, attempts>>
     /\ UNCHANGED <<lifeVars, served>>

-----------------------------------------------------------------------------
Lists == UNION {{q \in [1..n -> Servers] : IsInjective(q)} : n \in 0..Cardinality(Servers)}

Next ==
  \/ Continue
  \/ Start \/ StartTick \/ Stop \/ CloseAll
  \/ \E s \in Servers : AddServer(s) \/ RemoveServer(s)
  \/ \E c \in Calls : ProxyIgnored(c) \/ RpcRejected(c)
  \/ \E c \in Calls, s \in DefRoute : RpcInvoke(c, s)
  \/ \E c \in Calls, q \in Lists : RpcToAll(c, q)
  \/ \E b \in DOMAIN boxes : MailboxConnected(b) \/ MailboxFailed(b) \/ MailboxEnded(b)
  \/ \E a \in DOMAIN attempts : FilterDone(a) \/ FilterFailed(a) \/ CbTimeout(a)
  \/ \E a \in DOMAIN attempts, ok, filtered \in BOOLEAN : Answer(a, ok, filtered)
  \/ \E t \in timers : RetryConnect(t) \/ RetryDispatch(t)

Spec == Init /\ [][Next]_vars

-----------------------------------------------------------------------------
(* Properties. *)

\* The variables have the types their comments give, and every number that names
\* an attempt, a mailbox or a tracer names one that exists.
TypeOK ==
  /\ failMode \in Modes /\ state \in {"inited", "started", "closed"}
  /\ ticks \in Nat /\ listeners \in Nat /\ closing \in BOOLEAN
  /\ known \subseteq Servers /\ table \in Seq(Servers)
  /\ boxes \in Seq(Boxes) /\ mailboxes \in [Servers -> 0..Len(boxes)]
  /\ calls \in [Calls -> CallStates]
  /\ attempts \in Seq(Attempts) /\ tracers \in Seq(Nat)
  /\ timers \subseteq Timers /\ agenda \in Seq(Tasks)
  /\ thrown \in {"nothing", "callback called twice", "no message", "no callback",
                 "no mailbox", "unhandled error"}
  /\ counts \in [starts : Nat, changes : Nat]
  /\ served \in [Calls -> SUBSET Servers]
  /\ \A b \in DOMAIN boxes : boxes[b].opener \in DOMAIN attempts
  /\ \A a \in DOMAIN attempts : /\ attempts[a].tracer \in 0..Len(tracers)
                                /\ attempts[a].box \in 0..Len(boxes)
                                /\ attempts[a].place = "held" => attempts[a].box # 0
  /\ \A t \in timers : t.a \in DOMAIN attempts /\ t.tracer \in DOMAIN tracers
  /\ \A i \in DOMAIN agenda : /\ agenda[i].a \in DOMAIN attempts
                              /\ agenda[i].tracer \in 0..Len(tracers)

\* failsafe retries a bounded number of times: what it does again on behalf of a
\* tracer is numbered from 1 to retryTimes, no number being used twice.  An
\* attempt may fail twice, at the end of its connection and at its timeout, and
\* every failure of a retry counts against the same tracer.
RetriesBounded ==
  /\ \A t \in timers : t.retry \in 1..RetryTimes
  /\ \A a \in DOMAIN attempts : attempts[a].tracer # 0 => attempts[a].retry \in 1..RetryTimes
  /\ \A a1, a2 \in DOMAIN attempts :
       attempts[a1].tracer # 0 /\ attempts[a1].tracer = attempts[a2].tracer
         /\ attempts[a1].retry = attempts[a2].retry => a1 = a2
  /\ \A t1, t2 \in timers : t1.tracer = t2.tracer /\ t1.retry = t2.retry => t1 = t2
  /\ \A a \in DOMAIN attempts, t \in timers :
       attempts[a].tracer = t.tracer => attempts[a].retry # t.retry

\* toServer('*') reports success only when each of the servers has executed the
\* call.  Not so under failover, which hands the part of an unknown server to
\* another one.
BroadcastComplete ==
  \A c \in Calls : calls[c].kind = "all" /\ calls[c].success /\ failMode # "failover"
                   => calls[c].targets \subseteq served[c]

\* No call is forgotten, whatever fails: as long as the user has not been told,
\* a request with the user's callback is pending, with the filters or in a mailbox.
Waiting(c) == \E a \in DOMAIN attempts :
  attempts[a].call = c /\ attempts[a].hasCb /\ attempts[a].place \in {"pending", "filter", "held"}
NoCallVanishes ==
  \A c \in Calls :
    Running /\ calls[c].kind \in {"one", "all"} /\ calls[c].reports = 0 => Waiting(c)

\* What ends the process: under failfast and failback only the callback of
\* async.each() called a second time, and that, under every mode, only after a
\* connection was lost or start() called twice.  No error event finds the station
\* without a listener.
OnlyKnownThrows ==
  /\ thrown # "unhandled error"
  /\ failMode \in {"failfast", "failback"} => thrown \in {"nothing", "callback called twice"}
  /\ thrown = "callback called twice" =>
       listeners > 1 \/ \E b \in DOMAIN boxes : boxes[b].phase = "dead"

\* "This will try other servers with option retries": failover survives a failed
\* connection.  It does not: the station emits that error without a message.
FailoverSurvives == thrown # "no message"

=============================================================================
