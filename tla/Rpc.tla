--------------------------------- MODULE Rpc ---------------------------------
(***************************************************************************)
(* Both ends of one connection: a mailbox and the acceptor it is connected *)
(* to, in place of the peer that Mailbox takes for granted.  A message of  *)
(* the mailbox arrives in the order sent and waits until the event loop of *)
(* the server gets to it; what the acceptor writes travels to the mailbox  *)
(* as long as the connection delivers.  Each end may see the connection    *)
(* end at any time, whatever the other sees.                               *)
(***************************************************************************)
EXTENDS Integers, Sequences, Functions

CONSTANTS Transport, Reqs,
          ClientBuffers,  \* bufferMsg of the client
          ServerBuffers,  \* bufferMsg of the server
          MaxAnswers      \* bound: number of answers given in all

ASSUME RpcAssumption ==
  /\ Transport \in {"sio", "ws", "tcp"}
  /\ ClientBuffers \in BOOLEAN /\ ServerBuffers \in BOOLEAN
  /\ MaxAnswers \in Nat

VARIABLES
  \* the mailbox, see Mailbox
  curId, requests, timeout, queue, interval, connected, closed, socket, connects,
  toServer, toClient, verdicts, notices,
  \* messages at the server that no handler has seen yet
  inbox,
  \* the acceptor, see Acceptor (over these transports, it sends no errors)
  inited, stopped, serverInterval, status, sockets, msgQueues, unchecked,
  handled, calls, given, answered, written, errors,
  \* number of answers that the connection took
  replies

Link == "link"

mailboxVars == <<curId, requests, timeout, queue, interval, connected, closed, socket,
                 connects, verdicts, notices>>
acceptorVars == <<inited, stopped, serverInterval, status, sockets, msgQueues, unchecked,
                  handled, calls, given, answered, written, errors>>
vars == <<mailboxVars, toServer, toClient, inbox, acceptorVars, replies>>

\* What the mailbox takes to have been received is what reached the server.
Arrived == handled \cup UNION {Range(inbox[i]) : i \in DOMAIN inbox}

M == INSTANCE Mailbox WITH BufferMsg <- ClientBuffers, MaxReplies <- MaxAnswers,
                           received <- Arrived
A == INSTANCE Acceptor WITH Sockets <- {Link}, Pkgs <- M!Packages, Whitelist <- FALSE,
                            BufferMsg <- ServerBuffers, interval <- serverInterval,
                            received <- handled

Init == inbox = <<>> /\ A!Init /\ M!Init

-----------------------------------------------------------------------------
\* A step of the mailbox.
ClientStep ==
  /\ UNCHANGED <<acceptorVars, inbox, replies>>
  /\ \/ M!Connect \/ M!OnConnection \/ M!OnClose \/ M!Close \/ M!OnError
     \/ \E r \in Reqs : M!SendRefused(r) \/ M!SendAccepted(r)
     \/ M!Flush \/ M!OnMessage
     \/ \E id \in DOMAIN timeout : M!CbTimeout(id)

\* A message reaches the server.
Arrive ==
  /\ toServer # <<>>
  /\ inbox' = Append(inbox, Head(toServer))
  /\ toServer' = Tail(toServer)
  /\ UNCHANGED <<mailboxVars, toClient, acceptorVars, replies>>

\* What the acceptor wrote in this step sets out for the mailbox: the queue as
\* one message, or each response in a message of its own.
Sent == SubSeq(written'[Link], Len(written[Link]) + 1, Len(written'[Link]))
Transmit ==
  IF Sent = <<>> \/ ~M!Delivers(socket)
  THEN UNCHANGED <<toClient, replies>>
  ELSE /\ toClient' = IF ServerBuffers THEN Append(toClient, Sent)
                      ELSE toClient \o M!Singly(Sent)
       /\ replies' = replies + Len(Sent)

\* The event loop of the server hands a message to the acceptor.
Handle ==
  /\ inbox # <<>>
  /\ A!Message(Link, Head(inbox))
  /\ inbox' = Tail(inbox)
  /\ Transmit
  /\ UNCHANGED <<mailboxVars, toServer>>

\* Another step of the acceptor.  It sees a connection once the mailbox has
\* asked for one.
ServerStep ==
  /\ \/ A!Start \/ A!Stop
     \/ socket # "none" /\ A!OnConnection(Link)
     \/ A!OnSocketClose(Link)
     \/ \E p \in DOMAIN calls : A!Answer(p)
     \/ A!Flush
  /\ Transmit
  /\ UNCHANGED <<mailboxVars, toServer, inbox>>

Next == ClientStep \/ Arrive \/ Handle \/ ServerStep

Spec == Init /\ [][Next]_vars

-----------------------------------------------------------------------------
(* Properties. *)

\* The acceptor is a peer as Mailbox takes it to be: it answers packages that
\* reached it, in messages a mailbox can meet, whatever it buffers, however
\* late or often its services answer, and whoever ends the connection.  So the
\* properties of Mailbox hold with this acceptor at the other end.
MailboxSpec == M!Spec

\* No request is handed to a service twice: what still waits in a queue, on the
\* wire or in front of the server's handler has not been handled, and a refused
\* request is in none of them.
Underway == Append(inbox \o toServer, queue)
HandledAtMostOnce ==
  /\ \A i \in DOMAIN Underway : Range(Underway[i]) \cap handled = {}
  /\ \A i, j \in DOMAIN Underway : i # j => Range(Underway[i]) \cap Range(Underway[j]) = {}
  /\ \A p, q \in handled : p.msg = q.msg => p = q

=============================================================================
