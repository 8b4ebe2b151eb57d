------------------------------ MODULE RpcProofs ------------------------------
(***************************************************************************)
(* Theorems about Rpc, for every transport, number of requests and choice  *)
(* of buffers: the acceptor is a peer as Mailbox takes it to be, and no    *)
(* request is handed to a service twice.                                   *)
(***************************************************************************)
EXTENDS Rpc, SequenceTheorems, TLAPS

\* The theorems about the two ends, for the constants and variables of Rpc.
MP == INSTANCE MailboxProofs WITH BufferMsg <- ClientBuffers, MaxReplies <- MaxAnswers,
                                  received <- Arrived
AP == INSTANCE AcceptorProofs WITH Sockets <- {Link}, Pkgs <- M!Packages, Whitelist <- FALSE,
                                   BufferMsg <- ServerBuffers, interval <- serverInterval,
                                   received <- handled

LEMMA Assumptions ==
  /\ MP!MailboxAssumption /\ MP!TransportAssumption
  /\ AP!AcceptorAssumption
  BY RpcAssumption DEF MP!MailboxAssumption, MP!TransportAssumption, AP!AcceptorAssumption

\* They are about the same mailbox and the same acceptor as Rpc: the definitions
\* agree once they are expanded.
LEMMA SameMailbox ==
  /\ M!vars = MP!vars /\ (M!Init <=> MP!Init) /\ (M!Next <=> MP!Next)
  /\ M!Packages = MP!Packages
<1> USE DEF M!sendVars, MP!sendVars, M!linkVars, MP!linkVars, M!peerVars, MP!peerVars,
            M!callVars, MP!callVars, M!Range, MP!Range, M!Restrict, MP!Restrict,
            M!Delete, MP!Delete, M!Store, MP!Store, M!Package, MP!Package,
            M!Outcome, MP!Outcome, M!Usable, MP!Usable, M!Unsent, MP!Unsent
<1>1. M!vars = MP!vars /\ M!Packages = MP!Packages
  BY DEF M!vars, MP!vars, M!Packages, MP!Packages
<1>2. M!Init <=> MP!Init
  BY DEF M!Init, MP!Init
<1> USE DEF M!EndsAtOnce, MP!EndsAtOnce, M!ErrorCloses, MP!ErrorCloses,
            M!MayEnd, MP!MayEnd, M!MayFail, MP!MayFail, M!Delivers, MP!Delivers,
            M!AfterSocketClose, MP!AfterSocketClose, M!AfterSocketError, MP!AfterSocketError,
            M!Listeners, MP!Listeners, M!SioListeners, MP!SioListeners,
            M!WsListeners, MP!WsListeners, M!TcpListeners, MP!TcpListeners,
            M!NotifyAll, MP!NotifyAll
<1>3. (M!Connect <=> MP!Connect) /\ (M!OnConnection <=> MP!OnConnection)
  BY DEF M!Connect, MP!Connect, M!OnConnection, MP!OnConnection
<1>4. M!OnClose <=> MP!OnClose
  BY DEF M!OnClose, MP!OnClose
<1>5. M!Close <=> MP!Close
  BY DEF M!Close, MP!Close
<1>6. M!OnError <=> MP!OnError
  BY DEF M!OnError, MP!OnError
<1>7. \A r \in Reqs : M!SendRefused(r) <=> MP!SendRefused(r)
  BY DEF M!SendRefused, MP!SendRefused
<1>8. \A r \in Reqs : M!SendAccepted(r) <=> MP!SendAccepted(r)
  BY DEF M!SendAccepted, MP!SendAccepted, M!NumberAfterSend, MP!NumberAfterSend,
         M!SendMessage, MP!SendMessage
<1>9. (M!Flush <=> MP!Flush) /\ (M!PeerReceives <=> MP!PeerReceives)
  BY DEF M!Flush, MP!Flush, M!SendMessage, MP!SendMessage, M!PeerReceives, MP!PeerReceives
<1>10. \A batch : M!PeerReplies(batch) <=> MP!PeerReplies(batch)
  BY DEF M!PeerReplies, MP!PeerReplies, M!Singly, MP!Singly
<1>11. \A n : M!Batches(n) = MP!Batches(n)
  BY DEF M!Batches, MP!Batches
<1>12. M!OnMessage <=> MP!OnMessage
  BY DEF M!OnMessage, MP!OnMessage, M!clearCbTimeout, MP!clearCbTimeout, M!Forget, MP!Forget,
         M!ResponseTo, MP!ResponseTo
<1>13. \A id : M!CbTimeout(id) <=> MP!CbTimeout(id)
  BY DEF M!CbTimeout, MP!CbTimeout, M!clearCbTimeout, MP!clearCbTimeout, M!Forget, MP!Forget
<1>14. M!Next <=> MP!Next
  BY <1>3, <1>4, <1>5, <1>6, <1>7, <1>8, <1>9, <1>10, <1>11, <1>12, <1>13 DEF M!Next, MP!Next
<1> QED
  BY <1>1, <1>2, <1>14

LEMMA SameAcceptor ==
  /\ (A!Init <=> AP!Init) /\ (A!Start <=> AP!Start) /\ (A!Stop <=> AP!Stop)
  /\ (A!OnConnection(Link) <=> AP!OnConnection(Link))
  /\ (A!OnSocketClose(Link) <=> AP!OnSocketClose(Link))
  /\ \A batch : A!Message(Link, batch) <=> AP!Message(Link, batch)
  /\ \A p : A!Answer(p) <=> AP!Answer(p)
  /\ (A!Flush <=> AP!Flush)
<1> USE DEF A!serverVars, AP!serverVars, A!linkVars, AP!linkVars, A!serviceVars, AP!serviceVars,
            A!answerVars, AP!answerVars, A!Restrict, AP!Restrict, A!Store, AP!Store,
            A!QueueOf, AP!QueueOf, A!Write, AP!Write, A!CloseSockets, AP!CloseSockets,
            A!Binding, AP!Binding, A!SioBinding, AP!SioBinding, A!WsBinding, AP!WsBinding,
            A!TcpBinding, AP!TcpBinding, A!MqttBinding, AP!MqttBinding
<1>1. A!Init <=> AP!Init
  BY DEF A!Init, AP!Init
<1>2. (A!Start <=> AP!Start) /\ (A!Stop <=> AP!Stop)
  BY DEF A!Start, AP!Start, A!Stop, AP!Stop, A!EndedByServer, AP!EndedByServer
<1>3. /\ (A!OnConnection(Link) <=> AP!OnConnection(Link))
      /\ (A!OnSocketClose(Link) <=> AP!OnSocketClose(Link))
  BY DEF A!OnConnection, AP!OnConnection, A!Asked, AP!Asked,
         A!OnSocketClose, AP!OnSocketClose
<1>4. A!Flush <=> AP!Flush
  BY DEF A!Flush, AP!Flush
<1> USE DEF A!Respond, AP!Respond, A!Enqueue, AP!Enqueue
<1>5. \A batch : A!Message(Link, batch) <=> AP!Message(Link, batch)
  BY DEF A!Message, AP!Message, A!AnsweredByRoute, AP!AnsweredByRoute, A!Served, AP!Served,
         A!InOrder, AP!InOrder, A!WithError, AP!WithError
<1>6. \A p : A!Answer(p) <=> AP!Answer(p)
  BY DEF A!Answer, AP!Answer
<1> QED
  BY <1>1, <1>2, <1>3, <1>4, <1>5, <1>6
-----------------------------------------------------------------------------
(* What the acceptor writes, and how much of it.                           *)

Queued == AP!QueueOf(Link)

\* Both ends have their types, and no more answers travel than were given: those
\* waiting for the next flush are answers to packages handled, and together with
\* those sent are no more than the services gave.
Joint ==
  /\ MP!TypeOK /\ AP!TypeOK
  /\ inbox \in Seq(Seq(M!Packages))
  /\ ServerBuffers \/ DOMAIN msgQueues = {}
  /\ Queued \in Seq(handled)
  /\ replies + Len(Queued) <= given

\* What a step of the acceptor may do to Joint.
ServerKeeps ==
  /\ Sent \in Seq(handled') /\ Queued' \in Seq(handled')
  /\ Len(Sent) + Len(Queued') + given <= Len(Queued) + given'
  /\ ServerBuffers \/ DOMAIN msgQueues' = {}

\* The part of a sequence after what it began with.
LEMMA RestOfConcat ==
  ASSUME NEW S, NEW q \in Seq(S), NEW r \in Seq(S)
  PROVE  /\ SubSeq(q \o r, Len(q) + 1, Len(q \o r)) = r
         /\ SubSeq(q, Len(q) + 1, Len(q)) = <<>>
<1>1. /\ Len(q) \in Nat /\ Len(r) \in Nat /\ Len(q \o r) = Len(q) + Len(r)
      /\ \A i \in 1..Len(r) : (q \o r)[Len(q) + i] = r[i]
  BY ConcatProperties, LenProperties
<1>2. SubSeq(q \o r, Len(q) + 1, Len(q \o r)) = [i \in 1..Len(r) |-> (q \o r)[Len(q) + i]]
  BY <1>1
<1>3. r = [i \in 1..Len(r) |-> r[i]]
  OBVIOUS
<1>4. SubSeq(q, Len(q) + 1, Len(q)) = <<>>
  BY <1>1
<1> QED
  BY <1>1, <1>2, <1>3, <1>4

LEMMA ServerTypes ==
  ASSUME AP!TypeOK
  PROVE  /\ written[Link] \in Seq(M!Packages) /\ Queued \in Seq(M!Packages)
         /\ given \in 0..MaxAnswers
         /\ handled \subseteq M!Packages /\ DOMAIN calls \subseteq handled
         /\ \A p \in DOMAIN calls : calls[p] = Link
<1>1. Queued \in Seq(M!Packages)
  BY Assumptions, AP!QueueType DEF Queued
<1> QED
  BY <1>1 DEF AP!TypeOK

\* Something is written.
LEMMA JustSent ==
  ASSUME AP!TypeOK, NEW rs \in Seq(M!Packages), written'[Link] = written[Link] \o rs
  PROVE  Sent = rs
<1>1. SubSeq(written[Link] \o rs, Len(written[Link]) + 1, Len(written[Link] \o rs)) = rs
  BY ServerTypes, RestOfConcat
<1> QED
  BY <1>1 DEF Sent

\* Nothing is written.
LEMMA NothingSent ==
  ASSUME AP!TypeOK, written'[Link] = written[Link]
  PROVE  Sent = <<>>
  BY ServerTypes, RestOfConcat DEF Sent

\* Services answer.
LEMMA Answering ==
  ASSUME Joint, AP!TypeOK', handled \subseteq handled', NEW rs \in Seq(handled'),
         AP!Respond(Link, rs)
  PROVE  ServerKeeps
<1>1. /\ Len(rs) \in Nat /\ given' = given + Len(rs) /\ given \in Nat
      /\ rs \in Seq(M!Packages) /\ Queued \in Seq(handled') /\ Len(Queued) \in Nat
      /\ written[Link] \in Seq(M!Packages)
  <2>1. given' = given + Len(rs)
    BY DEF AP!Respond
  <2>2. handled' \subseteq M!Packages
    BY DEF AP!TypeOK
  <2> QED
    BY <2>1, <2>2, ServerTypes, RpcAssumption DEF Joint
<1>2. /\ ServerBuffers => written'[Link] = written[Link] /\ Queued' = Queued \o rs
      /\ ~ServerBuffers => msgQueues' = msgQueues
      /\ ~ServerBuffers /\ status[Link] = "open" => written'[Link] = written[Link] \o rs
      /\ status[Link] # "open" => written'[Link] = written[Link]
  BY <1>1, Assumptions, AP!RespondFacts DEF Joint, Queued
<1>3. CASE ServerBuffers
  <2>1. Sent = <<>>
    BY <1>2, <1>3, NothingSent DEF Joint
  <2>2. Queued' \in Seq(handled') /\ Len(Queued') = Len(Queued) + Len(rs)
    BY <1>1, <1>2, <1>3, ConcatProperties
  <2> QED
    BY <1>1, <1>3, <2>1, <2>2 DEF ServerKeeps
<1>4. CASE ~ServerBuffers
  <2>1. Queued' = Queued /\ DOMAIN msgQueues' = {}
    BY <1>2, <1>4 DEF Queued, AP!QueueOf, Joint
  <2>2. CASE status[Link] = "open"
    <3>1. Sent = rs
      BY <1>1, <1>2, <1>4, <2>2, JustSent DEF Joint
    <3> QED
      BY <1>1, <2>1, <3>1 DEF ServerKeeps
  <2>3. CASE status[Link] # "open"
    <3>1. Sent = <<>>
      BY <1>2, <2>3, NothingSent DEF Joint
    <3> QED
      BY <1>1, <2>1, <3>1 DEF ServerKeeps
  <2> QED
    BY <2>2, <2>3
<1> QED
  BY <1>3, <1>4

\* The queue is flushed, or dropped.
LEMMA Flushing ==
  ASSUME Joint, AP!Flush
  PROVE  ServerKeeps
<1>1. /\ handled' = handled /\ given' = given /\ given \in Nat
      /\ Queued \in Seq(handled) /\ Len(Queued) \in Nat
      /\ written[Link] \in Seq(M!Packages) /\ Queued \in Seq(M!Packages)
  BY ServerTypes, RpcAssumption DEF Joint, AP!Flush, AP!serviceVars
<1>2. Queued' = <<>> /\ (DOMAIN msgQueues = {} => DOMAIN msgQueues' = {})
  BY DEF AP!Flush, Queued, AP!QueueOf
<1>3. written'[Link] = written[Link] \/ written'[Link] = written[Link] \o Queued
  BY DEF AP!Flush, AP!Write, Queued
<1>4. Sent = <<>> \/ Sent = Queued
  BY <1>1, <1>3, NothingSent, JustSent DEF Joint
<1>5. Sent \in Seq(handled') /\ Len(Sent) \in Nat /\ Len(Sent) <= Len(Queued)
  <2>1. CASE Sent = <<>>
    <3>1. Len(Sent) = 0 /\ Sent \in Seq(handled')
      BY <2>1
    <3> QED
      BY <1>1, <3>1
  <2>2. CASE Sent = Queued
    BY <1>1, <2>2
  <2> QED
    BY <1>4, <2>1, <2>2
<1>6. Queued' \in Seq(handled') /\ Len(Queued') = 0
  BY <1>2
<1> QED
  BY <1>1, <1>2, <1>5, <1>6 DEF ServerKeeps, Joint

\* Nothing is answered, and a queue may be dropped.
LEMMA Quiet ==
  ASSUME Joint, UNCHANGED <<handled, given, written>>,
         msgQueues' = msgQueues \/ \E S : msgQueues' = AP!Restrict(msgQueues, DOMAIN msgQueues \ S)
  PROVE  ServerKeeps
<1>1. Sent = <<>>
  BY NothingSent DEF Joint
<1>2. Queued' = Queued \/ Queued' = <<>>
  BY DEF Queued, AP!QueueOf, AP!Restrict
<1>3. DOMAIN msgQueues = {} => DOMAIN msgQueues' = {}
  BY DEF AP!Restrict
<1>4. given \in Nat /\ Queued \in Seq(handled) /\ Len(Queued) \in Nat /\ handled' = handled
  BY ServerTypes, RpcAssumption DEF Joint
<1>5. Sent \in Seq(handled') /\ Len(Sent) = 0
  BY <1>1
<1>6. Queued' \in Seq(handled') /\ Len(Queued') \in Nat /\ Len(Queued') <= Len(Queued)
  <2>1. CASE Queued' = <<>>
    <3>1. Len(Queued') = 0 /\ Queued' \in Seq(handled')
      BY <2>1
    <3> QED
      BY <1>4, <3>1
  <2>2. CASE Queued' = Queued
    BY <1>4, <2>2
  <2> QED
    BY <1>2, <2>1, <2>2
<1>7. ServerBuffers \/ DOMAIN msgQueues' = {}
  BY <1>3 DEF Joint
<1> QED
  BY <1>4, <1>5, <1>6, <1>7 DEF ServerKeeps

-----------------------------------------------------------------------------
(* The refinement.                                                         *)

\* What a sequence of messages carries, after one more message and after the
\* first one is taken.
Contents(messages) == UNION {Range(messages[i]) : i \in DOMAIN messages}

LEMMA AppendContents ==
  ASSUME NEW S, NEW q \in Seq(S), NEW e \in S
  PROVE  Contents(Append(q, e)) = Contents(q) \cup Range(e)
<1> DEFINE r == Append(q, e)
<1>1. /\ DOMAIN r = 1..Len(q) + 1 /\ DOMAIN q = 1..Len(q) /\ Len(q) \in Nat
      /\ r[Len(q) + 1] = e /\ \A i \in DOMAIN q : r[i] = q[i]
  BY AppendProperties
<1> HIDE DEF r
<1>2. ASSUME NEW p PROVE p \in Contents(r) <=> p \in Contents(q) \/ p \in Range(e)
  <2>1. p \in Contents(r) <=> \E i \in DOMAIN r : p \in Range(r[i])
    BY DEF Contents
  <2>2. p \in Contents(q) <=> \E i \in DOMAIN q : p \in Range(q[i])
    BY DEF Contents
  <2>3. \A i \in DOMAIN r : i \in DOMAIN q \/ i = Len(q) + 1
    BY <1>1
  <2>4. DOMAIN q \subseteq DOMAIN r /\ Len(q) + 1 \in DOMAIN r
    BY <1>1
  <2> QED
    BY <1>1, <2>1, <2>2, <2>3, <2>4, Zenon
<1>3. Contents(r) = Contents(q) \cup Range(e)
  BY <1>2
<1> QED
  BY <1>3 DEF r

LEMMA TailContents ==
  ASSUME NEW S, NEW q \in Seq(S), q # <<>>
  PROVE  Contents(q) = Contents(Tail(q)) \cup Range(Head(q))
<1> DEFINE t == Tail(q)
<1>1. /\ \A i \in DOMAIN t : i + 1 \in DOMAIN q /\ t[i] = q[i + 1]
      /\ \A i \in DOMAIN q : i = 1 \/ (i - 1 \in DOMAIN t /\ q[i] = t[i - 1])
      /\ 1 \in DOMAIN q /\ Head(q) = q[1]
  BY EmptySeq, HeadTailProperties
<1> HIDE DEF t
<1>2. ASSUME NEW p PROVE p \in Contents(q) <=> p \in Contents(t) \/ p \in Range(Head(q))
  <2>1. p \in Contents(t) <=> \E i \in DOMAIN t : p \in Range(t[i])
    BY DEF Contents
  <2>2. p \in Contents(q) <=> \E i \in DOMAIN q : p \in Range(q[i])
    BY DEF Contents
  <2> QED
    BY <1>1, <2>1, <2>2, Zenon
<1>3. Contents(q) = Contents(t) \cup Range(Head(q))
  BY <1>2
<1> QED
  BY <1>3 DEF t

LEMMA ArrivedTypes ==
  ASSUME Joint
  PROVE  /\ Arrived \subseteq M!Packages /\ handled \subseteq Arrived
         /\ toServer \in Seq(Seq(M!Packages)) /\ replies \in 0..MaxAnswers
  BY SameMailbox DEF Joint, MP!TypeOK, Arrived

\* What the acceptor writes is a reply of the peer of Mailbox, if it is written
\* to a connection that delivers; otherwise the mailbox cannot notice the step.
LEMMA Delivered ==
  ASSUME Joint, AP!TypeOK', ServerKeeps, Transmit, UNCHANGED <<mailboxVars, toServer>>,
         Arrived' = Arrived, handled' \subseteq Arrived
  PROVE  [MP!Next]_MP!vars /\ replies' + Len(Queued') <= given'
<1> DEFINE n == MaxAnswers - replies
<1>1. /\ Sent \in Seq(Arrived) /\ Len(Sent) \in Nat /\ Queued' \in Seq(handled') /\ Len(Queued') \in Nat
      /\ Len(Queued) \in Nat /\ Len(Sent) + Len(Queued') + given <= Len(Queued) + given'
      /\ replies + Len(Queued) <= given
  BY DEF ServerKeeps, Joint
<1>2. /\ replies \in Nat /\ MaxAnswers \in Nat /\ given \in Nat
      /\ given' \in Nat /\ given' <= MaxAnswers
  BY RpcAssumption DEF Joint, MP!TypeOK, AP!TypeOK
<1>3. CASE UNCHANGED <<toClient, replies>>
  <2>1. UNCHANGED MP!vars
    BY <1>3 DEF MP!vars, mailboxVars
  <2> QED
    BY <1>1, <1>2, <1>3, <2>1
<1>4. CASE /\ Sent # <<>> /\ M!Delivers(socket)
           /\ toClient' = IF ServerBuffers THEN Append(toClient, Sent)
                          ELSE toClient \o M!Singly(Sent)
           /\ replies' = replies + Len(Sent)
  <2>1. replies' <= MaxAnswers /\ replies' + Len(Queued') <= given' /\ Len(Sent) <= n
    BY <1>1, <1>2, <1>4
  <2>2. Len(Sent) # 0
    BY <1>1, <1>4, EmptySeq
  <2>3. MP!PeerReplies(Sent)
    <3>1. MP!Delivers(socket) /\ \A batch : MP!Singly(batch) = M!Singly(batch)
      BY <1>4 DEF MP!Delivers, M!Delivers, MP!Singly, M!Singly
    <3>2. toClient' = Append(toClient, Sent) \/ toClient' = toClient \o MP!Singly(Sent)
      BY <1>4, <3>1
    <3>3. UNCHANGED <<MP!sendVars, MP!linkVars, toServer, Arrived, MP!callVars>>
      BY DEF MP!sendVars, MP!linkVars, MP!callVars, mailboxVars
    <3> QED
      BY <1>4, <2>1, <3>1, <3>2, <3>3 DEF MP!PeerReplies
  <2>4. Sent \in MP!Batches(n)
    <3>1. Len(Sent) \in 1..n /\ Sent \in [1..Len(Sent) -> Arrived]
      BY <1>1, <1>2, <2>1, <2>2
    <3> QED
      BY <3>1 DEF MP!Batches
  <2>5. MP!Next
    BY <2>3, <2>4 DEF MP!Next
  <2> QED
    BY <2>1, <2>5
<1> QED
  BY <1>3, <1>4 DEF Transmit

LEMMA MailboxKeepsTypes ==
  ASSUME MP!TypeOK, [MP!Next]_MP!vars
  PROVE  MP!TypeOK'
  BY Assumptions, MP!TypeStep

LEMMA AcceptorKeepsTypes ==
  ASSUME AP!TypeOK, [AP!Next]_AP!vars
  PROVE  AP!TypeOK'
  BY Assumptions, AP!TypeStep

\* Joint is inductive, and every step is one of the mailbox and its peer, or none.
LEMMA JointStep ==
  ASSUME Joint, [Next]_vars
  PROVE  Joint' /\ [MP!Next]_MP!vars
<1>1. ASSUME ClientStep PROVE Joint' /\ [MP!Next]_MP!vars
  <2>1. UNCHANGED <<acceptorVars, inbox, replies>>
    BY <1>1 DEF ClientStep
  <2>2. M!Next
    BY <1>1 DEF ClientStep, M!Next
  <2>3. MP!Next /\ MP!TypeOK'
    BY <2>2, SameMailbox, MailboxKeepsTypes DEF Joint
  <2>4. UNCHANGED AP!vars
    BY <2>1 DEF acceptorVars, AP!vars
  <2>5. AP!TypeOK'
    BY <2>4, AcceptorKeepsTypes DEF Joint
  <2>6. UNCHANGED <<inbox, msgQueues, handled, replies, given>>
    BY <2>1 DEF acceptorVars
  <2>7. Queued' = Queued
    BY <2>6 DEF Queued, AP!QueueOf
  <2> QED
    BY <2>3, <2>5, <2>6, <2>7 DEF Joint
<1>2. ASSUME Arrive PROVE Joint' /\ [MP!Next]_MP!vars
  <2>1. /\ toServer # <<>> /\ inbox' = Append(inbox, Head(toServer)) /\ toServer' = Tail(toServer)
        /\ UNCHANGED <<mailboxVars, toClient, acceptorVars, replies>>
    BY <1>2 DEF Arrive
  <2>2. Head(toServer) \in Seq(M!Packages) /\ inbox \in Seq(Seq(M!Packages))
    BY <2>1, ArrivedTypes DEF Joint
  <2>3. inbox' \in Seq(Seq(M!Packages))
    BY <2>1, <2>2
  <2>4. handled' = handled
    BY <2>1 DEF acceptorVars
  <2>5. Arrived' = Arrived \cup MP!Range(Head(toServer))
    <3>1. Contents(inbox') = Contents(inbox) \cup Range(Head(toServer))
      BY <2>1, <2>2, AppendContents
    <3>2. Range(Head(toServer)) = MP!Range(Head(toServer))
      BY DEF Range, MP!Range
    <3> QED
      BY <2>4, <3>1, <3>2 DEF Arrived, Contents
  <2>6. MP!PeerReceives
    <3>1. UNCHANGED <<MP!sendVars, MP!linkVars, replies, toClient, MP!callVars>>
      BY <2>1 DEF MP!sendVars, MP!linkVars, MP!callVars, mailboxVars
    <3> QED
      BY <2>1, <2>5, <3>1 DEF MP!PeerReceives
  <2>7. MP!Next
    BY <2>6 DEF MP!Next
  <2>8. MP!TypeOK'
    BY <2>7, MailboxKeepsTypes DEF Joint
  <2>9. UNCHANGED AP!vars
    BY <2>1 DEF acceptorVars, AP!vars
  <2>10. AP!TypeOK'
    BY <2>9, AcceptorKeepsTypes DEF Joint
  <2>11. UNCHANGED <<msgQueues, handled, replies, given>>
    BY <2>1 DEF acceptorVars
  <2>12. Queued' = Queued
    BY <2>11 DEF Queued, AP!QueueOf
  <2> QED
    BY <2>3, <2>7, <2>8, <2>10, <2>11, <2>12 DEF Joint
\* A step of the acceptor that keeps its part of Joint and brings nothing to the server.
<1>3. ASSUME AP!TypeOK', ServerKeeps, Transmit, UNCHANGED <<mailboxVars, toServer>>,
             Arrived' = Arrived, inbox' \in Seq(Seq(M!Packages))
      PROVE  Joint' /\ [MP!Next]_MP!vars
  <2>1. handled' \subseteq Arrived'
    BY DEF Arrived
  <2>2. [MP!Next]_MP!vars /\ replies' + Len(Queued') <= given'
    BY <1>3, <2>1, Delivered
  <2>3. MP!TypeOK'
    BY <2>2, MailboxKeepsTypes DEF Joint
  <2> QED
    BY <1>3, <2>2, <2>3 DEF Joint, ServerKeeps
<1>4. ASSUME Handle PROVE Joint' /\ [MP!Next]_MP!vars
  <2> DEFINE batch == Head(inbox)
  <2>1. /\ inbox # <<>> /\ AP!Message(Link, batch) /\ inbox' = Tail(inbox) /\ Transmit
        /\ UNCHANGED <<mailboxVars, toServer>>
    BY <1>4, SameAcceptor DEF Handle
  <2>2. /\ inbox \in Seq(Seq(M!Packages)) /\ batch \in Seq(M!Packages)
        /\ inbox' \in Seq(Seq(M!Packages))
    BY <2>1, HeadTailProperties, EmptySeq DEF Joint
  <2>3. handled' = handled \cup Range(batch)
    BY <2>1 DEF AP!Message, Range
  <2> HIDE DEF batch
  <2>4. Arrived' = Arrived
    <3>1. Contents(inbox) = Contents(inbox') \cup Range(batch)
      BY <2>1, <2>2, TailContents DEF batch
    <3> QED
      BY <2>3, <3>1 DEF Arrived, Contents
  <2>5. AP!TypeOK'
    BY <2>1, <2>2, Assumptions, AP!MessageKeepsTypes DEF Joint
  <2>6. ServerKeeps
    <3>1. PICK rs \in Seq(M!Packages) : AP!Respond(Link, rs) /\ rs \in Seq(handled')
      BY <2>1, <2>2, Assumptions, AP!MessageFacts DEF Joint
    <3> QED
      BY <2>3, <2>5, <3>1, Answering
  <2> QED
    BY <1>3, <2>1, <2>2, <2>4, <2>5, <2>6
<1>5. ASSUME ServerStep PROVE Joint' /\ [MP!Next]_MP!vars
  <2>1. Transmit /\ UNCHANGED <<mailboxVars, toServer, inbox>>
    BY <1>5 DEF ServerStep
  <2>2. \/ AP!Start \/ AP!Stop \/ AP!OnConnection(Link) \/ AP!OnSocketClose(Link)
        \/ \E p \in DOMAIN calls : AP!Answer(p)
        \/ AP!Flush
    BY <1>5, SameAcceptor DEF ServerStep
  <2>3. AP!Next
    BY <2>2 DEF AP!Next
  <2>4. AP!TypeOK'
    BY <2>3, AcceptorKeepsTypes DEF Joint
  <2>5. handled' = handled
    BY <2>2 DEF AP!Start, AP!Stop, AP!OnConnection, AP!OnSocketClose, AP!Answer, AP!Flush,
                AP!serviceVars
  <2>6. ServerKeeps
    <3>1. CASE AP!Start \/ AP!OnConnection(Link)
      BY <3>1, <2>5, Quiet DEF AP!Start, AP!OnConnection, AP!answerVars
    <3>2. CASE AP!Stop \/ AP!OnSocketClose(Link)
      BY <3>2, <2>5, Quiet DEF AP!Stop, AP!OnSocketClose, AP!CloseSockets, AP!answerVars
    <3>3. ASSUME NEW p \in DOMAIN calls, AP!Answer(p) PROVE ServerKeeps
      <4>1. AP!Respond(Link, <<p>>) /\ <<p>> \in Seq(handled')
        BY <2>5, <3>3, ServerTypes DEF AP!Answer, Joint
      <4> QED
        BY <2>4, <2>5, <4>1, Answering
    <3> QED
      BY <2>2, <3>1, <3>2, <3>3, Flushing
  <2>7. Arrived' = Arrived /\ inbox' \in Seq(Seq(M!Packages))
    BY <2>1, <2>5 DEF Arrived, Joint
  <2> QED
    BY <1>3, <2>1, <2>4, <2>6, <2>7
<1>6. CASE UNCHANGED vars
  <2>1. UNCHANGED <<MP!vars, AP!vars, inbox, msgQueues, handled, replies, given>>
    BY <1>6 DEF vars, mailboxVars, acceptorVars, MP!vars, AP!vars, Arrived
  <2>2. MP!TypeOK' /\ AP!TypeOK'
    BY <2>1, MailboxKeepsTypes, AcceptorKeepsTypes DEF Joint
  <2>3. Queued' = Queued
    BY <2>1 DEF Queued, AP!QueueOf
  <2> QED
    BY <2>1, <2>2, <2>3 DEF Joint
<1> QED
  BY <1>1, <1>2, <1>4, <1>5, <1>6 DEF Next

LEMMA JointInit ==
  ASSUME Init
  PROVE  Joint
<1>1. MP!Init /\ AP!Init /\ inbox = <<>>
  BY SameMailbox, SameAcceptor DEF Init
<1>2. MP!TypeOK /\ AP!TypeOK
  BY <1>1, Assumptions, MP!TypeInit, AP!TypeInit
<1>3. DOMAIN msgQueues = {} /\ replies = 0 /\ given = 0 /\ handled = {}
  BY <1>1 DEF MP!Init, AP!Init
<1>4. Queued = <<>>
  BY <1>3 DEF Queued, AP!QueueOf
<1>5. Queued \in Seq(handled) /\ Len(Queued) = 0
  BY <1>4
<1> QED
  BY <1>1, <1>2, <1>3, <1>5 DEF Joint

THEOREM JointCorrect == Spec => []Joint
<1>1. Joint /\ [Next]_vars => Joint'
  BY JointStep
<1> QED
  BY <1>1, JointInit, PTL DEF Spec

\* The acceptor is a peer as Mailbox takes it to be: whatever it buffers, however
\* its services answer and whoever ends the connection, every step of the two
\* ends is a step of the mailbox and such a peer, or one it cannot notice.
THEOREM AcceptorIsPeer == Spec => MailboxSpec
<1>1. Init => M!Init
  BY DEF Init
<1>2. Joint /\ [Next]_vars => [M!Next]_M!vars
  BY JointStep, SameMailbox DEF M!vars, MP!vars
<1> QED
  BY <1>1, <1>2, JointCorrect, PTL DEF Spec, MailboxSpec, M!Spec

\* So the theorems about Mailbox hold with this acceptor at the other end.
THEOREM MailboxTheorems ==
  Spec => [](MP!TypeOK /\ MP!Bookkeeping /\ MP!WireInOrder /\ MP!OnePackageEach)
<1>1. Spec => MP!Spec
  <2>1. Init => MP!Init
    BY SameMailbox DEF Init
  <2>2. Joint /\ [Next]_vars => [MP!Next]_MP!vars
    BY JointStep
  <2> QED
    BY <2>1, <2>2, JointCorrect, PTL DEF Spec, MP!Spec
<1>2. MP!Spec => [](MP!TypeOK /\ MP!Bookkeeping /\ MP!WireInOrder /\ MP!OnePackageEach)
  BY Assumptions, MP!TypeCorrect, MP!BookkeepingCorrect, MP!WireOrderCorrect,
     MP!PackagesCorrect, PTL
<1> QED
  BY <1>1, <1>2

-----------------------------------------------------------------------------
(* No request is handled twice.                                            *)

\* HandledAtMostOnce for the messages in front of the handler.  With the order on
\* the wire (WireInOrder) it is inductive: what arrives is later than all before.
InboxFresh ==
  /\ \A i \in DOMAIN inbox : Range(inbox[i]) \cap handled = {}
  /\ \A i, j \in DOMAIN inbox : i # j => Range(inbox[i]) \cap Range(inbox[j]) = {}

\* What waits at the mailbox or is on the wire has not arrived, and is in one
\* message only.
LEMMA WireFresh ==
  ASSUME Joint, MP!WireInOrder
  PROVE  /\ \A i \in DOMAIN toServer : Range(toServer[i]) \cap Arrived = {}
         /\ Range(queue) \cap Arrived = {}
         /\ \A i \in DOMAIN toServer : Range(toServer[i]) \cap Range(queue) = {}
         /\ \A i, j \in DOMAIN toServer : i # j => Range(toServer[i]) \cap Range(toServer[j]) = {}
<1> DEFINE n == Len(toServer)
           W == Append(toServer, queue)
<1>1. /\ toServer \in Seq(Seq(M!Packages)) /\ queue \in Seq(M!Packages)
      /\ Arrived \subseteq M!Packages
  BY ArrivedTypes, SameMailbox DEF Joint, MP!TypeOK
<1>2. /\ DOMAIN W = 1..n + 1 /\ DOMAIN toServer = 1..n /\ n \in Nat
      /\ \A i \in 1..n : W[i] = toServer[i]
      /\ W[n + 1] = queue
  BY <1>1, AppendProperties
<1>3. /\ \A i, j \in DOMAIN W : i < j => \A p \in Range(W[i]), q \in Range(W[j]) : p.id < q.id
      /\ \A p \in Arrived, i \in DOMAIN W : \A q \in Range(W[i]) : p.id < q.id
  BY DEF MP!WireInOrder, MP!Written, MP!Range, Range
<1>4. \A i \in DOMAIN W : Range(W[i]) \subseteq M!Packages
  BY <1>1, <1>2 DEF Range
<1>5. \A p \in M!Packages : ~(p.id < p.id)
  BY DEF M!Packages
<1> HIDE DEF n, W
<1>6. \A i \in DOMAIN W : Range(W[i]) \cap Arrived = {}
  BY <1>1, <1>3, <1>5
<1>7. \A i, j \in DOMAIN W : i < j => Range(W[i]) \cap Range(W[j]) = {}
  BY <1>3, <1>4, <1>5
<1>8. \A i, j \in DOMAIN toServer : i # j => Range(toServer[i]) \cap Range(toServer[j]) = {}
  <2> SUFFICES ASSUME NEW i \in 1..n, NEW j \in 1..n, i # j
               PROVE  Range(toServer[i]) \cap Range(toServer[j]) = {}
    BY <1>2
  <2>1. i < j \/ j < i
    BY <1>2
  <2>2. i \in DOMAIN W /\ j \in DOMAIN W
    BY <1>2
  <2> QED
    BY <1>2, <1>7, <2>1, <2>2
<1>9. \A i \in DOMAIN toServer : i \in DOMAIN W /\ i < n + 1 /\ n + 1 \in DOMAIN W
  BY <1>2
<1> QED
  BY <1>2, <1>6, <1>7, <1>8, <1>9

\* No request is handed to a service twice, whatever is buffered, sent, lost or
\* answered in between: neither end ever has a copy of a package that the other
\* still gets or got.
THEOREM NoneHandledTwice == Spec => []HandledAtMostOnce
<1>1. Init => InboxFresh
  BY DEF Init, InboxFresh
<1>2. Joint /\ MP!WireInOrder /\ InboxFresh /\ [Next]_vars => InboxFresh'
  <2> SUFFICES ASSUME Joint, MP!WireInOrder, InboxFresh, [Next]_vars PROVE InboxFresh'
    OBVIOUS
  <2>1. ASSUME UNCHANGED <<inbox, handled>> PROVE InboxFresh'
    BY <2>1 DEF InboxFresh
  <2>2. CASE ClientStep \/ ServerStep \/ UNCHANGED vars
    <3>1. UNCHANGED <<inbox, handled>>
      BY <2>2 DEF ClientStep, ServerStep, vars, acceptorVars, A!Start, A!Stop, A!OnConnection,
                  A!OnSocketClose, A!Answer, A!Flush, A!serviceVars
    <3> QED
      BY <2>1, <3>1
  <2>3. CASE Arrive
    <3> DEFINE message == Head(toServer)
               n == Len(inbox)
    <3>1. /\ toServer # <<>> /\ inbox' = Append(inbox, message) /\ handled' = handled
          /\ toServer \in Seq(Seq(M!Packages)) /\ inbox \in Seq(Seq(M!Packages))
      BY <2>3, ArrivedTypes DEF Arrive, acceptorVars, Joint
    <3>2. 1 \in DOMAIN toServer /\ message = toServer[1] /\ message \in Seq(M!Packages)
      BY <3>1, EmptySeq, HeadTailProperties
    <3>3. Range(message) \cap Arrived = {}
      BY <3>2, WireFresh
    <3> HIDE DEF message
    <3>4. /\ DOMAIN inbox' = 1..n + 1 /\ DOMAIN inbox = 1..n /\ n \in Nat
          /\ \A i \in DOMAIN inbox : inbox'[i] = inbox[i]
          /\ inbox'[n + 1] = message
      BY <3>1, <3>2, AppendProperties
    <3>5. /\ Range(message) \cap handled = {}
          /\ \A i \in DOMAIN inbox : Range(message) \cap Range(inbox[i]) = {}
      BY <3>3 DEF Arrived
    <3>6. \A i \in DOMAIN inbox' : i \in DOMAIN inbox \/ i = n + 1
      BY <3>4
    <3> HIDE DEF n
    <3> QED
      BY <3>1, <3>4, <3>5, <3>6 DEF InboxFresh
  <2>4. CASE Handle
    <3>1. /\ inbox # <<>> /\ A!Message(Link, Head(inbox)) /\ inbox' = Tail(inbox)
          /\ inbox \in Seq(Seq(M!Packages))
      BY <2>4 DEF Handle, Joint
    <3>2. handled' = handled \cup Range(Head(inbox))
      BY <3>1 DEF A!Message, Range
    <3>3. /\ 1 \in DOMAIN inbox /\ Head(inbox) = inbox[1]
          /\ \A i \in DOMAIN inbox' : /\ i + 1 \in DOMAIN inbox /\ inbox'[i] = inbox[i + 1]
                                      /\ i + 1 # 1 /\ i \in Nat
      BY <3>1, EmptySeq, HeadTailProperties
    <3>4. \A i, j \in DOMAIN inbox' : i # j => i + 1 # j + 1
      BY <3>3
    <3> QED
      BY <3>2, <3>3, <3>4 DEF InboxFresh
  <2> QED
    BY <2>2, <2>3, <2>4 DEF Next
<1>3. Joint /\ MP!WireInOrder /\ MP!OnePackageEach /\ InboxFresh => HandledAtMostOnce
  <2> SUFFICES ASSUME Joint, MP!WireInOrder, MP!OnePackageEach, InboxFresh
               PROVE  HandledAtMostOnce
    OBVIOUS
  <2> DEFINE k == Len(inbox)
             m == Len(toServer)
  <2>1. /\ inbox \in Seq(Seq(M!Packages)) /\ toServer \in Seq(Seq(M!Packages))
        /\ queue \in Seq(M!Packages) /\ inbox \o toServer \in Seq(Seq(M!Packages))
    BY ArrivedTypes, SameMailbox, ConcatProperties DEF Joint, MP!TypeOK
  <2>2. /\ k \in Nat /\ m \in Nat /\ DOMAIN inbox = 1..k /\ DOMAIN toServer = 1..m
        /\ Len(inbox \o toServer) = k + m
        /\ \A i \in 1..k : (inbox \o toServer)[i] = inbox[i]
        /\ \A i \in 1..m : (inbox \o toServer)[k + i] = toServer[i]
    BY <2>1, ConcatProperties, LenProperties
  <2>3. /\ DOMAIN Underway = 1..k + m + 1
        /\ \A i \in 1..k + m : Underway[i] = (inbox \o toServer)[i]
        /\ Underway[k + m + 1] = queue
    BY <2>1, <2>2, AppendProperties DEF Underway
  <2> HIDE DEF k, m
  <2>4. /\ \A i \in 1..k : Underway[i] = inbox[i]
        /\ \A i \in 1..m : Underway[k + i] = toServer[i]
    <3>1. (\A i \in 1..k : i \in 1..k + m) /\ (\A i \in 1..m : k + i \in 1..k + m)
      <4>1. k \in Nat /\ m \in Nat
        BY <2>2
      <4> QED
        BY <4>1
    <3> QED
      BY <2>2, <2>3, <3>1
  <2>5. \A i \in DOMAIN Underway : i \in 1..k \/ (i - k \in 1..m /\ i = k + (i - k)) \/ i = k + m + 1
    <3>1. k \in Nat /\ m \in Nat /\ DOMAIN Underway = 1..k + m + 1
      BY <2>2, <2>3
    <3>2. \A i \in 1..k + m + 1 : i \in 1..k \/ (i - k \in 1..m /\ i = k + (i - k)) \/ i = k + m + 1
      <4>1. k \in Nat /\ m \in Nat
        BY <3>1
      <4> QED
        BY <4>1
    <3> QED
      BY <3>1, <3>2
  <2>6. handled \subseteq Arrived /\ \A i \in DOMAIN inbox : Range(inbox[i]) \subseteq Arrived
    BY DEF Arrived
  <2>7. \A i \in DOMAIN Underway : Range(Underway[i]) \cap handled = {}
    <3> SUFFICES ASSUME NEW i \in DOMAIN Underway PROVE Range(Underway[i]) \cap handled = {}
      OBVIOUS
    <3>1. CASE i \in 1..k
      BY <2>2, <2>4, <3>1 DEF InboxFresh
    <3>2. CASE i - k \in 1..m /\ i = k + (i - k)
      <4>1. Underway[i] = toServer[i - k] /\ i - k \in DOMAIN toServer
        BY <2>2, <2>4, <3>2
      <4> QED
        BY <2>6, <4>1, WireFresh
    <3>3. CASE i = k + m + 1
      BY <2>3, <2>6, <3>3, WireFresh
    <3> QED
      BY <2>5, <3>1, <3>2, <3>3
  <2>8. ASSUME NEW i \in DOMAIN Underway, NEW j \in DOMAIN Underway, i < j
        PROVE  Range(Underway[i]) \cap Range(Underway[j]) = {}
    <3>1. CASE i \in 1..k
      <4>1. Underway[i] = inbox[i] /\ i \in DOMAIN inbox /\ Range(inbox[i]) \subseteq Arrived
        BY <2>2, <2>4, <2>6, <3>1
      <4>2. CASE j \in 1..k
        BY <2>2, <2>4, <2>8, <4>1, <4>2 DEF InboxFresh
      <4>3. CASE j - k \in 1..m /\ j = k + (j - k)
        <5>1. Underway[j] = toServer[j - k] /\ j - k \in DOMAIN toServer
          BY <2>2, <2>4, <4>3
        <5> QED
          BY <4>1, <5>1, WireFresh
      <4>4. CASE j = k + m + 1
        BY <2>3, <4>1, <4>4, WireFresh
      <4> QED
        BY <2>5, <4>2, <4>3, <4>4
    <3>2. CASE i - k \in 1..m /\ i = k + (i - k)
      <4>1. Underway[i] = toServer[i - k] /\ i - k \in DOMAIN toServer
        BY <2>2, <2>4, <3>2
      <4>2. CASE j - k \in 1..m /\ j = k + (j - k)
        <5>1. Underway[j] = toServer[j - k] /\ j - k \in DOMAIN toServer
          BY <2>2, <2>4, <4>2
        <5>2. i - k # j - k
          BY <2>2, <2>3, <2>8
        <5> QED
          BY <4>1, <5>1, <5>2, WireFresh
      <4>3. CASE j = k + m + 1
        BY <2>3, <4>1, <4>3, WireFresh
      <4>4. j \notin 1..k
        BY <2>2, <2>3, <2>8, <3>2
      <4> QED
        BY <2>5, <4>2, <4>3, <4>4
    <3>3. i # k + m + 1
      BY <2>2, <2>3, <2>8
    <3> QED
      BY <2>5, <3>1, <3>2, <3>3
  <2>9. \A i, j \in DOMAIN Underway : i # j => i < j \/ j < i
    BY <2>2, <2>3
  <2>10. \A p, q \in handled : p.msg = q.msg => p = q
    BY <2>6 DEF MP!OnePackageEach, MP!Packaged
  <2> QED
    BY <2>7, <2>8, <2>9, <2>10 DEF HandledAtMostOnce
<1> QED
  BY <1>1, <1>2, <1>3, JointCorrect, MailboxTheorems, PTL DEF Spec


=============================================================================
