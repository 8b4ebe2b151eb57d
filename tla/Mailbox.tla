------------------------------- MODULE Mailbox -------------------------------
(***************************************************************************)
(* One mailbox of lib/rpc-client/mailboxes: the client end of one          *)
(* connection.  It numbers the requests, keeps a callback and a timer for  *)
(* each of them, buffers packages if told to, and matches the responses by *)
(* number.  base-mailbox.js holds the logic; sio-, ws- and tcp-mailbox.js  *)
(* install its handlers on a socket (module Transports).  Every handler    *)
(* runs to completion on the JavaScript thread and is one action here.     *)
(*                                                                         *)
(* A request r of Reqs stands for one call of send(): its message and its  *)
(* callback.  The remote end, which is specified elsewhere, may answer a   *)
(* package it received late, never, or several times, and may put several  *)
(* responses into one message.                                             *)
(***************************************************************************)
EXTENDS Integers, Sequences, Functions, Transports

CONSTANTS Reqs,        \* the requests handed to send(), each once
          BufferMsg,   \* opts.bufferMsg
          MaxReplies   \* bound: number of answers the peer gives in all

ASSUME MailboxAssumption ==
  /\ BufferMsg \in BOOLEAN
  /\ MaxReplies \in Nat

VARIABLES
  curId,      \* number of the next request
  requests,   \* callbacks waiting for a response, by number
  timeout,    \* armed timers, by number; the value is the callback closed over
  queue,      \* packages waiting for the next flush
  interval,   \* the flush timer is armed
  connected,
  closed,
  socket,     \* state of the socket, see Transports
  connects,   \* what the callback of connect() has been called with, in order
  toServer,   \* messages under way to the peer, each a sequence of packages
  received,   \* packages the peer has received
  replies,    \* number of answers the peer gave
  toClient,   \* messages under way from the peer, each a sequence of responses
  verdicts,   \* calls of a request's callback other than those of onClose()
  notices     \* number of calls of a request's callback by onClose()

vars == <<curId, requests, timeout, queue, interval, connected, closed, socket,
          connects, toServer, received, replies, toClient, verdicts, notices>>
sendVars == <<curId, requests, timeout, queue>>
linkVars == <<interval, connected, closed, socket, connects>>
peerVars == <<received, replies>>
callVars == <<verdicts, notices>>

\* A package carries a request to the peer; a response repeats its number and
\* is computed from its message.
Package(id, r) == [id |-> id, msg |-> r]
Packages == [id : Nat, msg : Reqs]

\* The ways a callback is called: with a response (computed from message msg),
\* with a timeout error, or with an error because the mailbox is not usable.
Outcomes == [kind : {"response", "timeout", "refused"}, msg : Reqs]
Outcome(kind, r) == [kind |-> kind, msg |-> r]

Delete(f, S) == Restrict(f, DOMAIN f \ S)
Store(f, k, v) == [x \in DOMAIN f \cup {k} |-> IF x = k THEN v ELSE f[x]]

(***************************************************************************)
(* Operators named Bug... are the definition below them with a plausible   *)
(* mistake.  Nothing uses them: they document, for each property, a        *)
(* mistake that breaks it.                                                 *)
(***************************************************************************)

\* send() goes ahead only on a mailbox that is connected and not closed.
BugUsableWhenConnected == connected
Usable == connected /\ ~closed

\* The number of a request: this.curId++.
BugNumberStuck == curId
NumberAfterSend == curId + 1

\* clearCbTimeout() for each of the numbers.
BugClearNone(ids) == timeout
clearCbTimeout(ids) == Delete(timeout, ids)

\* delete this.requests[id] for each of the numbers.
BugForgetNone(ids) == requests
Forget(ids) == Delete(requests, ids)

Init ==
  /\ curId = 0
  /\ requests = <<>>
  /\ timeout = <<>>
  /\ queue = <<>>
  /\ interval = FALSE
  /\ connected = FALSE
  /\ closed = FALSE
  /\ socket = "none"
  /\ connects = <<>>
  /\ toServer = <<>>
  /\ received = {}
  /\ replies = 0
  /\ toClient = <<>>
  /\ verdicts = [r \in Reqs |-> <<>>]
  /\ notices = [r \in Reqs |-> 0]

-----------------------------------------------------------------------------
(* Opening and closing the connection. *)

Connect ==
  /\ socket = "none"
  /\ socket' = "connecting"
  /\ UNCHANGED <<sendVars, interval, connected, closed, connects, toServer, toClient,
                 peerVars, callVars>>

\* onConnection() with the callback of connect().  It does not look at closed:
\* a net socket closed while connecting still gets here.
OnConnection ==
  /\ socket = "connecting"
  /\ ~connected
  /\ connected' = TRUE
  /\ interval' = BufferMsg
  /\ connects' = Append(connects, "ok")
  /\ socket' = IF closed THEN "closing" ELSE "open"
  /\ UNCHANGED <<sendVars, closed, toServer, toClient, peerVars, callVars>>

\* Every callback still stored is called with an error by onClose().  The
\* callbacks stay stored and their timers stay armed.
NotifyAll == notices' = [r \in Reqs |-> IF r \in Range(requests) THEN notices[r] + 1
                                        ELSE notices[r]]

\* onClose(): the socket reports its end; what the peer had still sent is lost.
OnClose ==
  /\ MayEnd(socket)
  /\ socket' = "dead"
  /\ toClient' = <<>>
  /\ NotifyAll
  /\ UNCHANGED <<sendVars, interval, connected, closed, connects, toServer, peerVars,
                 verdicts>>

\* close() that also drops the timers of the requests under way.
BugCloseClearsTimers ==
  /\ ~closed
  /\ socket # "none"
  /\ closed' = TRUE
  /\ connected' = FALSE
  /\ interval' = FALSE
  /\ timeout' = <<>>
  /\ socket' = AfterSocketClose(socket)
  /\ UNCHANGED <<curId, requests, queue, connects, toServer, toClient, peerVars, callVars>>

\* close().  disconnect() of socket.io runs onClose() before it returns.
Close ==
  /\ ~closed
  /\ socket # "none"
  /\ closed' = TRUE
  /\ connected' = FALSE
  /\ interval' = FALSE
  /\ socket' = AfterSocketClose(socket)
  /\ IF EndsAtOnce /\ socket = "open"
     THEN NotifyAll /\ toClient' = <<>>
     ELSE UNCHANGED <<notices, toClient>>
  /\ UNCHANGED <<sendVars, connects, toServer, peerVars, verdicts>>

\* onError(): the callback of connect() gets the error, whether or not it has
\* been called before; the mailbox of ws closes itself.
OnError ==
  /\ MayFail(socket)
  /\ socket' = AfterSocketError
  /\ connects' = Append(connects, "error")
  /\ toClient' = IF Delivers(AfterSocketError) THEN toClient ELSE <<>>
  /\ IF ErrorCloses
     THEN closed' = TRUE /\ connected' = FALSE /\ interval' = FALSE
     ELSE UNCHANGED <<closed, connected, interval>>
  /\ UNCHANGED <<sendVars, toServer, peerVars, callVars>>

-----------------------------------------------------------------------------
(* Sending requests. *)

Unsent(r) == verdicts[r] = <<>> /\ r \notin Range(requests)

\* send() on a mailbox that is not connected or is closed.
SendRefused(r) ==
  /\ Unsent(r)
  /\ ~Usable
  /\ verdicts' = [verdicts EXCEPT ![r] = Append(@, Outcome("refused", r))]
  /\ UNCHANGED <<sendVars, linkVars, toServer, toClient, peerVars, notices>>

\* A message written to a socket that is no longer open gets lost.
SendMessage(message) ==
  toServer' = IF socket = "open" THEN Append(toServer, message) ELSE toServer

\* send() on a working mailbox: number the request, keep its callback, arm its
\* timer, and queue or write the package.
SendAccepted(r) ==
  /\ Unsent(r)
  /\ Usable
  /\ curId' = NumberAfterSend
  /\ requests' = Store(requests, curId, r)
  /\ timeout' = Store(timeout, curId, r)
  /\ IF BufferMsg
     THEN queue' = Append(queue, Package(curId, r)) /\ UNCHANGED toServer
     ELSE SendMessage(<<Package(curId, r)>>) /\ UNCHANGED queue
  /\ UNCHANGED <<linkVars, toClient, peerVars, callVars>>

\* A tick of the flush timer that does not empty the queue, and the real one.
BugFlushKeepsQueue ==
  /\ interval
  /\ ~closed /\ queue # <<>>
  /\ Len(toServer) < 2
  /\ SendMessage(queue)
  /\ UNCHANGED <<sendVars, linkVars, toClient, peerVars, callVars>>

Flush ==
  /\ interval
  /\ ~closed /\ queue # <<>>
  /\ SendMessage(queue)
  /\ queue' = <<>>
  /\ UNCHANGED <<curId, requests, timeout, linkVars, toClient, peerVars, callVars>>

-----------------------------------------------------------------------------
(* The peer (modelled from what the mailbox can observe of it). *)

PeerReceives ==
  /\ toServer # <<>>
  /\ received' = received \cup Range(Head(toServer))
  /\ toServer' = Tail(toServer)
  /\ UNCHANGED <<sendVars, linkVars, replies, toClient, callVars>>

\* Answers to some of the packages, in one message or in one each.  The peer
\* may not know yet that the mailbox is closing.
Singly(batch) == [i \in DOMAIN batch |-> <<batch[i]>>]
PeerReplies(batch) ==
  /\ Delivers(socket)
  /\ batch # <<>>
  /\ replies' = replies + Len(batch)
  /\ replies' <= MaxReplies
  /\ \/ toClient' = Append(toClient, batch)
     \/ toClient' = toClient \o Singly(batch)
  /\ UNCHANGED <<sendVars, linkVars, toServer, received, callVars>>

Batches(n) == UNION {[1..k -> received] : k \in 1..n}

-----------------------------------------------------------------------------
(* Completing requests. *)

\* The response of a message to request number id.  Responses to one package
\* are computed from the same message: if there are several, each will do.
ResponseTo(message, id) == CHOOSE p \in Range(message) : p.id = id

\* onMessage(): for each response of the message disarm the timer and, unless
\* the callback is gone, call it and forget it.
OnMessage ==
  /\ toClient # <<>>
  /\ Delivers(socket)
  /\ LET message == Head(toClient)
         ids == {p.id : p \in Range(message)}
         hits == ids \cap DOMAIN requests
     IN /\ timeout' = clearCbTimeout(ids)
        /\ requests' = Forget(hits)
        /\ verdicts' = [r \in Reqs |->
             IF \E id \in hits : requests[id] = r
             THEN LET id == CHOOSE i \in hits : requests[i] = r
                  IN Append(verdicts[r], Outcome("response", ResponseTo(message, id).msg))
             ELSE verdicts[r]]
  /\ toClient' = Tail(toClient)
  /\ UNCHANGED <<curId, queue, linkVars, toServer, peerVars, notices>>

\* The timer armed by setCbTimeout() fires.
CbTimeout(id) ==
  /\ id \in DOMAIN timeout
  /\ timeout' = clearCbTimeout({id})
  /\ requests' = Forget({id})
  /\ verdicts' = [verdicts EXCEPT ![timeout[id]] = Append(@, Outcome("timeout", timeout[id]))]
  /\ UNCHANGED <<curId, queue, linkVars, toServer, toClient, peerVars, notices>>

-----------------------------------------------------------------------------
Next ==
  \/ Connect \/ OnConnection \/ OnClose \/ Close \/ OnError
  \/ \E r \in Reqs : SendRefused(r) \/ SendAccepted(r)
  \/ Flush
  \/ PeerReceives
  \/ \E batch \in Batches(MaxReplies - replies) : PeerReplies(batch)
  \/ OnMessage
  \/ \E id \in DOMAIN timeout : CbTimeout(id)

Spec == Init /\ [][Next]_vars

\* Timers of the event loop fire in the end; nothing else is promised.
Fairness(ids) == \A id \in ids : WF_vars(CbTimeout(id))

-----------------------------------------------------------------------------
(* Properties. *)

\* f is a map from numbers of requests to requests.
NumberMap(f) == f \in [DOMAIN f -> Reqs] /\ DOMAIN f \subseteq 0..(curId - 1)

\* The variables have the types their comments give.
TypeOK ==
  /\ curId \in Nat
  /\ NumberMap(requests) /\ NumberMap(timeout)
  /\ queue \in Seq(Packages)
  /\ interval \in BOOLEAN /\ connected \in BOOLEAN /\ closed \in BOOLEAN
  /\ socket \in SocketStates
  /\ connects \in Seq({"ok", "error"})
  /\ toServer \in Seq(Seq(Packages))
  /\ received \subseteq Packages
  /\ replies \in 0..MaxReplies
  /\ toClient \in Seq(Seq(Packages))
  /\ verdicts \in [Reqs -> Seq(Outcomes)]
  /\ notices \in [Reqs -> Nat]

\* Every callback stored by send() has its timer armed, and no timer outlives
\* its callback: clearCbTimeout() and delete this.requests[id] stay together in
\* processMsg() and in the timer itself, whatever order responses, timeouts,
\* close() and the events of the socket come in.
TimerPerRequest == timeout = requests

\* Responses, timeouts and refusals: a callback gets at most one of them, even
\* when the peer answers twice or after the timeout.  (The errors that onClose()
\* hands out are not counted.)
OneVerdict == \A r \in Reqs : Len(verdicts[r]) <= 1

\* A callback that gets a response gets the one computed from its own message:
\* numbers are never reused while a response may still be under way.
RepliesMatch == \A r \in Reqs : \A i \in DOMAIN verdicts[r] : verdicts[r][i].msg = r

\* Packages reach the wire in the order of the calls of send(), and none is
\* written twice: flushing the queue and refilling it never overlap.
Written == Append(toServer, queue)
WireInOrder ==
  /\ \A i \in DOMAIN Written : \A a, b \in DOMAIN Written[i] :
       a < b => Written[i][a].id < Written[i][b].id
  /\ \A i, j \in DOMAIN Written : i < j =>
       \A p \in Range(Written[i]), q \in Range(Written[j]) : p.id < q.id
  /\ \A p \in received, i \in DOMAIN Written :
       \A q \in Range(Written[i]) : p.id < q.id

\* send() takes nothing on after close(), although a socket that was closed
\* while connecting may still call onConnection() and set connected again.
ClosedTakesNothing ==
  [][closed => /\ DOMAIN requests' \subseteq DOMAIN requests
               /\ Len(toServer') <= Len(toServer)]_vars

\* Every send() has exactly one outcome, passed to the callback as the only
\* call it gets.  onClose() breaks this: it calls the callbacks and keeps them.
AtMostOneCallback == \A r \in Reqs : Len(verdicts[r]) + notices[r] <= 1

\* What makes OneVerdict and RepliesMatch inductive.  A callback that is stored
\* has had no verdict, it is stored under one number only, and a package found
\* anywhere carries a number already given out: if that number is still waiting,
\* then for the message of the package.
WaitingHasNoVerdict == \A id \in DOMAIN requests : verdicts[requests[id]] = <<>>
OneNumberEach == \A i, j \in DOMAIN requests : requests[i] = requests[j] => i = j
Known(p) == p.id < curId /\ (p.id \in DOMAIN requests => requests[p.id] = p.msg)
PackagesKnown ==
  /\ \A i \in DOMAIN queue : Known(queue[i])
  /\ \A i \in DOMAIN toServer : \A j \in DOMAIN toServer[i] : Known(toServer[i][j])
  /\ \A p \in received : Known(p)
  /\ \A i \in DOMAIN toClient : \A j \in DOMAIN toClient[i] : Known(toClient[i][j])

\* The bookkeeping of send(), onMessage() and the timers, as an inductive
\* invariant.
Bookkeeping ==
  /\ TimerPerRequest /\ OneVerdict /\ RepliesMatch
  /\ WaitingHasNoVerdict /\ OneNumberEach /\ PackagesKnown

\* The mailbox keeps the promise of RpcCall: one verdict for each request, and
\* in the end.
Phase == [r \in Reqs |->
            IF r \in Range(requests) THEN "waiting"
            ELSE IF verdicts[r] = <<>> THEN "idle"
            ELSE IF verdicts[r][1].kind = "response" THEN "answered" ELSE "failed"]
Call == INSTANCE RpcCall WITH phase <- Phase, notified <- {r \in Reqs : notices[r] > 0}
CallSpec == Call!FairSpec

=============================================================================
