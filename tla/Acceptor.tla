------------------------------- MODULE Acceptor -------------------------------
(***************************************************************************)
(* The server side: lib/rpc-server/acceptors/base-acceptor.js with its     *)
(* bindings to socket.io, ws, net and mqtt, the gateway that starts and    *)
(* stops it and the dispatcher that hands packages to the services.        *)
(*                                                                         *)
(* A package stands for a request and for every response to it: what a     *)
(* service computes is not looked at, only when and how often it answers.  *)
(* It may call the callback it was given at once, later, several times or  *)
(* never, and it may throw, which ends the batch its package came in.      *)
(***************************************************************************)
EXTENDS Integers, Sequences, Functions

CONSTANTS Transport,   \* the binding in use
          Sockets,     \* connections, each made once
          Pkgs,        \* packages, each sent once
          BufferMsg,   \* opts.bufferMsg
          Whitelist,   \* there is an opts.whitelist, which calls back at once or later
          MaxAnswers   \* bound: number of answers given in all

ASSUME AcceptorAssumption ==
  /\ Transport \in {"sio", "ws", "tcp", "mqtt"}
  /\ BufferMsg \in BOOLEAN
  /\ Whitelist \in BOOLEAN
  /\ MaxAnswers \in Nat

VARIABLES
  inited,     \* listen() has been called (the gateway's started)
  stopped,    \* close() has been called (the gateway's stoped)
  interval,   \* the flush timer is armed
  status,     \* state of each socket
  sockets,    \* the sockets registered
  msgQueues,  \* responses waiting for the next flush, by socket
  unchecked,  \* sockets the whitelist has still to decide on
  received,   \* packages handed to processMsgs()
  calls,      \* callbacks held by services: the socket each answers to
  given,      \* number of answers given
  answered,   \* answers given to each socket while it was open
  written,    \* responses written to each socket
  errors      \* errors sent to each socket, each with the packages it names

vars == <<inited, stopped, interval, status, sockets, msgQueues, unchecked,
          received, calls, given, answered, written, errors>>
serverVars == <<inited, stopped, interval>>
linkVars == <<status, sockets, unchecked>>
serviceVars == <<received, calls, errors>>
answerVars == <<given, answered, written>>

(***************************************************************************)
(* The state of a socket:                                                  *)
(* "new"     not connected yet                                             *)
(* "open"    connected, with the acceptor's listeners installed            *)
(* "deaf"    registered, but rejected before the listeners were installed  *)
(* "closed"  onSocketClose() has run                                       *)
(***************************************************************************)
Statuses == {"new", "open", "deaf", "closed"}

(***************************************************************************)
(* What onConnection() of each binding makes of a connection.  asks: the   *)
(* 'connection' event is emitted, by which ipFilter() asks the whitelist.  *)
(* disconnects: sockets have the disconnect() by which it rejects them.    *)
(* reports: the listener for messages catches what a service throws and    *)
(* sends the error to the client.                                          *)
(* (Those of sio and ws only log it, that of tcp lets it go uncaught; the  *)
(* process is taken to survive that.)                                      *)
(***************************************************************************)
SioBinding == [asks |-> TRUE, disconnects |-> TRUE, reports |-> FALSE]
WsBinding == [asks |-> TRUE, disconnects |-> FALSE, reports |-> FALSE]
TcpBinding == [asks |-> TRUE, disconnects |-> FALSE, reports |-> FALSE]
MqttBinding == [asks |-> FALSE, disconnects |-> FALSE, reports |-> TRUE]
Binding == CASE Transport = "sio" -> SioBinding
             [] Transport = "ws" -> WsBinding
             [] Transport = "tcp" -> TcpBinding
             [] OTHER -> MqttBinding

\* There is a whitelist, and the binding lets it be asked.
Asked == Whitelist /\ Binding.asks

Store(f, k, v) == [x \in DOMAIN f \cup {k} |-> IF x = k THEN v ELSE f[x]]
QueueOf(s) == IF s \in DOMAIN msgQueues THEN msgQueues[s] ELSE <<>>

\* What has been written to s after writing rs: a socket that is gone takes
\* nothing.  (Operators named Bug... are the definition below them with a
\* plausible mistake, see Mailbox.)
BugWriteTwice(s, rs) == IF status[s] = "open" THEN written[s] \o rs \o rs ELSE written[s]
Write(s, rs) == IF status[s] = "open" THEN written[s] \o rs ELSE written[s]

Init ==
  /\ inited = FALSE
  /\ stopped = FALSE
  /\ interval = FALSE
  /\ status = [s \in Sockets |-> "new"]
  /\ sockets = {}
  /\ msgQueues = <<>>
  /\ unchecked = {}
  /\ received = {}
  /\ calls = <<>>
  /\ given = 0
  /\ answered = [s \in Sockets |-> <<>>]
  /\ written = [s \in Sockets |-> <<>>]
  /\ errors = [s \in Sockets |-> <<>>]

-----------------------------------------------------------------------------
(* Starting and stopping. *)

\* start() of the gateway, which lets listen() be called once.
BugStartNoInterval ==
  /\ ~inited
  /\ inited' = TRUE
  /\ UNCHANGED <<stopped, interval, linkVars, msgQueues, serviceVars, answerVars>>

Start ==
  /\ ~inited
  /\ inited' = TRUE
  /\ interval' = BufferMsg
  /\ UNCHANGED <<stopped, linkVars, msgQueues, serviceVars, answerVars>>

\* onSocketClose() for each socket of S.
CloseSockets(S) ==
  /\ status' = [s \in Sockets |-> IF s \in S THEN "closed" ELSE status[s]]
  /\ sockets' = sockets \ S
  /\ msgQueues' = Restrict(msgQueues, DOMAIN msgQueues \ S)

\* The server of socket.io ends its connections when it closes, at once; those
\* of ws and net, which mqtt uses too, only stop taking new ones.
EndedByServer == IF Transport = "sio" THEN {s \in Sockets : status[s] = "open"} ELSE {}

\* stop() of the gateway and close() of the acceptor.  What is queued stays so.
BugStopLeavesServer ==
  /\ inited /\ ~stopped
  /\ stopped' = TRUE
  /\ interval' = FALSE
  /\ UNCHANGED <<inited, linkVars, msgQueues, serviceVars, answerVars>>

Stop ==
  /\ inited /\ ~stopped
  /\ stopped' = TRUE
  /\ interval' = FALSE
  /\ CloseSockets(EndedByServer)
  /\ UNCHANGED <<inited, unchecked, serviceVars, answerVars>>

-----------------------------------------------------------------------------
(* Connections. *)

\* onConnection().  The 'connection' event reaches ipFilter() before the
\* listeners for messages and for the end of the socket are installed.  A
\* rejection at that point disconnects the socket or, where it has no
\* disconnect(), throws: in both cases nothing listens to it, and it stays
\* registered for good.
OnConnection(s) ==
  /\ inited /\ ~stopped
  /\ status[s] = "new"
  /\ \/ /\ status' = [status EXCEPT ![s] = "open"]
        /\ unchecked' \in {unchecked} \cup (IF Asked THEN {unchecked \cup {s}} ELSE {})
     \/ /\ Asked
        /\ status' = [status EXCEPT ![s] = "deaf"]
        /\ UNCHANGED unchecked
  /\ sockets' = sockets \cup {s}
  /\ UNCHANGED <<serverVars, msgQueues, serviceVars, answerVars>>

\* The end of a connection.
OnSocketClose(s) ==
  /\ status[s] = "open"
  /\ CloseSockets({s})
  /\ UNCHANGED <<serverVars, unchecked, serviceVars, answerVars>>

\* The whitelist calls ipFilter() back.  Rejecting a socket that is still
\* registered ends it if it has a disconnect(), and throws if not.
WhitelistAnswers(s, allowed) ==
  /\ s \in unchecked
  /\ unchecked' = unchecked \ {s}
  /\ IF ~allowed /\ s \in sockets /\ Binding.disconnects
     THEN CloseSockets({s})
     ELSE UNCHANGED <<status, sockets, msgQueues>>
  /\ UNCHANGED <<serverVars, serviceVars, answerVars>>

-----------------------------------------------------------------------------
(* Packages and answers. *)

\* enqueue().
Enqueue(s, rs) == Store(msgQueues, s, QueueOf(s) \o rs)

\* The callback of processMsg(), called with the answers rs one after another.
\* Nothing looks at whether the socket or the acceptor is still there.
Respond(s, rs) ==
  /\ given' = given + Len(rs)
  /\ given' <= MaxAnswers
  /\ answered' = [answered EXCEPT ![s] = IF status[s] = "open" THEN @ \o rs ELSE @]
  /\ IF BufferMsg
     THEN /\ msgQueues' = IF rs = <<>> THEN msgQueues ELSE Enqueue(s, rs)
          /\ UNCHANGED written
     ELSE /\ written' = [written EXCEPT ![s] = Write(s, rs)]
          /\ UNCHANGED msgQueues

\* Positions of a batch, in the order in which services answer at once.
InOrder(n, k) == {f \in [1..k -> 1..n] : \A i, j \in 1..k : i <= j => f[i] <= f[j]}

\* route() answers itself, and once, if the service or the method is unknown;
\* otherwise the service gets the callback.
AnsweredByRoute(unknown, f) ==
  \A i \in unknown : \E k \in DOMAIN f : f[k] = i /\ \A j \in DOMAIN f : f[j] = i => j = k

\* processMsgs(): the first n packages of the batch are dispatched.  If there
\* are more, the n-th service threw, and the rest of the batch is dropped.
Served(batch, n) == {batch[i] : i \in 1..n}

\* What errors may be after a service threw: the error goes out at once, past
\* what is queued, with the id of a package that came alone.  That of an array
\* has no id, but is sent too: the listener notes that it was one only after
\* processMsgs() has returned.
WithError(s, batch) ==
  IF Binding.reports
  THEN {[errors EXCEPT ![s] = Append(@, named)] :
          named \in {{}} \cup (IF Len(batch) = 1 THEN {{batch[1]}} ELSE {})}
  ELSE {errors}

Message(s, batch) ==
  /\ status[s] = "open"
  /\ received' = received \cup {batch[i] : i \in DOMAIN batch}
  /\ \E n \in 1..Len(batch), k \in 0..(MaxAnswers - given) :
     \E unknown \in SUBSET (1..n), f \in InOrder(n, k), thrown \in BOOLEAN :
       /\ n < Len(batch) => thrown
       /\ thrown => n \notin unknown
       /\ AnsweredByRoute(unknown, f)
       /\ Respond(s, [i \in 1..k |-> batch[f[i]]])
       /\ calls' = [p \in DOMAIN calls \cup (Served(batch, n) \ {batch[i] : i \in unknown}) |->
                      IF p \in DOMAIN calls THEN calls[p] ELSE s]
       /\ errors' \in IF thrown THEN WithError(s, batch) ELSE {errors}
  /\ UNCHANGED <<serverVars, linkVars>>

\* A service calls the callback after it returned, or once more.
Answer(p) ==
  /\ p \in DOMAIN calls
  /\ Respond(calls[p], <<p>>)
  /\ UNCHANGED <<serverVars, linkVars, serviceVars>>

\* flush(): send each queue whose socket is registered, as one message, and
\* drop the others.
BugFlushKeepsQueues ==
  /\ interval
  /\ written' = [s \in Sockets |-> IF s \in sockets THEN Write(s, QueueOf(s)) ELSE written[s]]
  /\ \A s \in Sockets : Len(written'[s]) < 5
  /\ UNCHANGED <<serverVars, linkVars, msgQueues, serviceVars, given, answered>>

BugFlushKeepsOrphans ==
  /\ interval
  /\ written' = [s \in Sockets |-> IF s \in sockets THEN Write(s, QueueOf(s)) ELSE written[s]]
  /\ msgQueues' = [s \in DOMAIN msgQueues |-> IF s \in sockets THEN <<>> ELSE msgQueues[s]]
  /\ UNCHANGED <<serverVars, linkVars, serviceVars, given, answered>>

Flush ==
  /\ interval
  /\ written' = [s \in Sockets |-> IF s \in sockets THEN Write(s, QueueOf(s)) ELSE written[s]]
  /\ msgQueues' = [s \in DOMAIN msgQueues \cap sockets |-> <<>>]
  /\ UNCHANGED <<serverVars, linkVars, serviceVars, given, answered>>

-----------------------------------------------------------------------------
\* A message carries packages that have not been sent before, each once.
Messages(fresh) ==
  UNION {{b \in [1..n -> fresh] : \A i, j \in 1..n : b[i] = b[j] => i = j} : n \in 1..2}

Next ==
  \/ Start \/ Stop
  \/ \E s \in Sockets :
       \/ OnConnection(s) \/ OnSocketClose(s)
       \/ \E allowed \in BOOLEAN : WhitelistAnswers(s, allowed)
       \/ \E batch \in Messages(Pkgs \ received) : Message(s, batch)
  \/ \E p \in DOMAIN calls : Answer(p)
  \/ Flush

Spec == Init /\ [][Next]_vars

\* The timer of flush() keeps firing while it is armed.
Fairness == WF_vars(Flush)
FairSpec == Spec /\ Fairness

-----------------------------------------------------------------------------
(* Properties. *)

\* The variables have the types their comments give.
TypeOK ==
  /\ inited \in BOOLEAN /\ stopped \in BOOLEAN /\ interval \in BOOLEAN
  /\ status \in [Sockets -> Statuses]
  /\ sockets \subseteq Sockets /\ unchecked \subseteq Sockets
  /\ DOMAIN msgQueues \subseteq Sockets
  /\ msgQueues \in [DOMAIN msgQueues -> Seq(Pkgs)]
  /\ received \subseteq Pkgs
  /\ DOMAIN calls \subseteq received
  /\ calls \in [DOMAIN calls -> Sockets]
  /\ given \in 0..MaxAnswers
  /\ answered \in [Sockets -> Seq(Pkgs)]
  /\ written \in [Sockets -> Seq(Pkgs)]
  /\ errors \in [Sockets -> Seq(SUBSET Pkgs)]

\* Answers to an open socket are on the wire or in its queue, in the order in
\* which they were given and none twice, however flush(), answers and batches
\* interleave; a socket that is gone got the first of them and nothing after.
EveryAnswerOnce ==
  /\ \A s \in Sockets : status[s] = "open" => answered[s] = written[s] \o QueueOf(s)
  /\ \A s \in Sockets : status[s] # "open" =>
       /\ Len(written[s]) <= Len(answered[s])
       /\ written[s] = SubSeq(answered[s], 1, Len(written[s]))

\* What makes it inductive.  flush() finds every open socket registered, or it
\* would throw the queue away; the other registered sockets are those rejected
\* before anything listened to them, which onSocketClose() never gets to see.
\* Nothing is kept for a socket that has not connected, or in a queue that no
\* timer flushes.
RegisteredUntilClosed == sockets = {s \in Sockets : status[s] \in {"open", "deaf"}}
NothingBefore ==
  \A s \in Sockets : status[s] = "new" =>
    /\ answered[s] = <<>> /\ written[s] = <<>>
    /\ s \notin DOMAIN msgQueues
    /\ \A p \in DOMAIN calls : calls[p] # s
QueuesIfBuffered == BufferMsg \/ DOMAIN msgQueues = {}
Delivery == RegisteredUntilClosed /\ EveryAnswerOnce /\ NothingBefore /\ QueuesIfBuffered

\* A service that answers after the end of its socket recreates the queue that
\* onSocketClose() deleted; as long as the flush timer runs, it is freed again.
OrphansFreed ==
  \A s \in Sockets :
    (status[s] = "closed" /\ s \in DOMAIN msgQueues) ~> (s \notin DOMAIN msgQueues \/ stopped)

\* A buffered answer reaches the wire, unless its socket ends or the acceptor
\* is closed first.
AnswersWritten ==
  \A s \in Sockets : (QueueOf(s) # <<>>) ~> (QueueOf(s) = <<>> \/ stopped)

\* After server.stop() no package is handed to a service any more.
QuietAfterStop == [][stopped => received' = received]_vars

=============================================================================
