---------------------------- MODULE MailboxProofs ----------------------------
(***************************************************************************)
(* Theorems about Mailbox, for every number of requests, every transport,  *)
(* with and without buffering.                                             *)
(***************************************************************************)
EXTENDS Mailbox, SequenceTheorems, TLAPS

\* The elements of a sequence over S are in S.
LEMMA RangeOfSequence ==
  ASSUME NEW S, NEW q \in Seq(S)
  PROVE  Range(q) \subseteq S
  BY DEF Range

\* The elements of a sequence with one more element.
LEMMA AppendElements ==
  ASSUME NEW S, NEW q \in Seq(S), NEW e \in S
  PROVE  \A i \in DOMAIN Append(q, e) :
           \/ i \in DOMAIN q /\ Append(q, e)[i] = q[i]
           \/ Append(q, e)[i] = e
  BY AppendProperties

\* The response taken from a message is one of the message's.
LEMMA ResponseFacts ==
  ASSUME NEW message \in Seq(Packages), NEW id \in {p.id : p \in Range(message)}
  PROVE  /\ ResponseTo(message, id) \in Range(message)
         /\ ResponseTo(message, id).id = id
         /\ ResponseTo(message, id) \in Packages
<1>1. PICK p \in Range(message) : p.id = id
  OBVIOUS
<1>2. /\ ResponseTo(message, id) \in Range(message)
      /\ ResponseTo(message, id).id = id
  BY <1>1 DEF ResponseTo
<1> QED
  BY <1>2, RangeOfSequence

\* The transports leave a socket in a state it can be in.
LEMMA TransportTypes ==
  /\ EndsAtOnce \in BOOLEAN /\ ErrorCloses \in BOOLEAN
  /\ AfterSocketError \in SocketStates
  /\ \A sock \in SocketStates : AfterSocketClose(sock) \in SocketStates
  BY DEF EndsAtOnce, ErrorCloses, AfterSocketError, SocketStates, AfterSocketClose

\* The messages of a batch that is sent one by one.
LEMMA SinglyFacts ==
  ASSUME NEW batch \in Seq(Packages)
  PROVE  /\ Singly(batch) \in Seq(Seq(Packages))
         /\ \A i \in DOMAIN Singly(batch) :
              i \in DOMAIN batch /\ Singly(batch)[i] = <<batch[i]>>
         /\ \A i \in DOMAIN Singly(batch) : \A j \in DOMAIN Singly(batch)[i] :
              Singly(batch)[i][j] = batch[i]
<1>1. \A i \in DOMAIN batch : <<batch[i]>> \in Seq(Packages)
  OBVIOUS
<1>2. DOMAIN batch = 1..Len(batch) /\ Len(batch) \in Nat
  BY LenProperties
<1>3. Singly(batch) \in [1..Len(batch) -> Seq(Packages)]
  BY <1>1, <1>2 DEF Singly
<1>4. Singly(batch) \in Seq(Seq(Packages))
  BY <1>2, <1>3, SeqDef
<1> QED
  BY <1>4 DEF Singly

\* Each element of a concatenation is one of its parts'.
LEMMA ConcatElements ==
  ASSUME NEW S, NEW q \in Seq(S), NEW r \in Seq(S)
  PROVE  \A i \in DOMAIN (q \o r) :
           \/ i \in DOMAIN q /\ (q \o r)[i] = q[i]
           \/ \E k \in DOMAIN r : (q \o r)[i] = r[k]
<1> SUFFICES ASSUME NEW i \in DOMAIN (q \o r)
             PROVE  \/ i \in DOMAIN q /\ (q \o r)[i] = q[i]
                    \/ \E k \in DOMAIN r : (q \o r)[i] = r[k]
  OBVIOUS
<1>1. i \in 1..(Len(q) + Len(r))
  BY ConcatProperties
<1>2. CASE i <= Len(q)
  BY <1>1, <1>2, ConcatProperties
<1>3. CASE i > Len(q)
  <2>1. i - Len(q) \in DOMAIN r /\ (q \o r)[i] = r[i - Len(q)]
    BY <1>1, <1>3, ConcatProperties
  <2> QED
    BY <2>1
<1> QED
  BY <1>1, <1>2, <1>3

\* A message of the peer is a sequence of packages it received.
LEMMA BatchFacts ==
  ASSUME received \subseteq Packages, NEW n, NEW batch \in Batches(n)
  PROVE  /\ batch \in Seq(Packages)
         /\ \A j \in DOMAIN batch : batch[j] \in received
<1>1. PICK k \in 1..n : batch \in [1..k -> received]
  BY DEF Batches
<1>2. k \in Nat
  BY <1>1
<1> QED
  BY <1>1, <1>2, SeqDef

-----------------------------------------------------------------------------
\* The types hold at the start.
LEMMA TypeInit ==
  ASSUME Init
  PROVE  TypeOK
<1>1. NumberMap(requests) /\ NumberMap(timeout)
  BY DEF Init, NumberMap
<1>2. replies \in 0..MaxReplies
  BY MailboxAssumption DEF Init
<1>3. /\ curId \in Nat /\ socket \in SocketStates /\ received \subseteq Packages
      /\ interval \in BOOLEAN /\ connected \in BOOLEAN /\ closed \in BOOLEAN
  BY DEF Init, SocketStates
<1>4. /\ queue \in Seq(Packages)
      /\ connects \in Seq({"ok", "error"})
      /\ toServer \in Seq(Seq(Packages)) /\ toClient \in Seq(Seq(Packages))
  BY DEF Init
<1>5. verdicts \in [Reqs -> Seq(Outcomes)] /\ notices \in [Reqs -> Nat]
  BY DEF Init
<1> QED
  BY <1>1, <1>2, <1>3, <1>4, <1>5 DEF TypeOK

\* Every step keeps the types.
LEMMA TypeStep ==
  ASSUME TypeOK, [Next]_vars
  PROVE  TypeOK'
<1> USE MailboxAssumption DEF NumberMap
<1>1. CASE Connect
  BY <1>1 DEF TypeOK, Connect, SocketStates, sendVars, linkVars, peerVars, callVars
<1>2. CASE OnConnection
  BY <1>2 DEF TypeOK, OnConnection, SocketStates, sendVars, peerVars, callVars
<1>3. CASE OnClose
  BY <1>3 DEF TypeOK, OnClose, NotifyAll, SocketStates, sendVars, peerVars
<1>4. CASE Close
  <2>1. notices' \in [Reqs -> Nat] /\ toClient' \in Seq(Seq(Packages))
    <3>1. CASE NotifyAll /\ toClient' = <<>>
      BY <3>1 DEF TypeOK, NotifyAll
    <3>2. CASE UNCHANGED <<notices, toClient>>
      BY <3>2 DEF TypeOK
    <3> QED
      BY <1>4, <3>1, <3>2 DEF Close
  <2>2. socket' \in SocketStates
    BY <1>4, TransportTypes DEF TypeOK, Close
  <2> QED
    BY <1>4, <2>1, <2>2 DEF TypeOK, Close, sendVars, peerVars
<1>5. CASE OnError
  <2>1. socket' \in SocketStates
    BY <1>5, TransportTypes DEF OnError
  <2>2. toClient' \in Seq(Seq(Packages))
    BY <1>5 DEF TypeOK, OnError
  <2>3. /\ interval' \in BOOLEAN /\ connected' \in BOOLEAN /\ closed' \in BOOLEAN
    BY <1>5 DEF TypeOK, OnError
  <2> QED
    BY <1>5, <2>1, <2>2, <2>3 DEF TypeOK, OnError, sendVars, peerVars, callVars
<1>6. ASSUME NEW r \in Reqs, SendRefused(r) PROVE TypeOK'
  BY <1>6 DEF TypeOK, SendRefused, Outcome, Outcomes, sendVars, linkVars, peerVars
<1>7. ASSUME NEW r \in Reqs, SendAccepted(r) PROVE TypeOK'
  <2>1. curId' = curId + 1 /\ curId' \in Nat
    BY <1>7 DEF TypeOK, SendAccepted, NumberAfterSend
  <2>2. NumberMap(requests)' /\ NumberMap(timeout)'
    BY <1>7, <2>1 DEF TypeOK, SendAccepted, Store
  <2>3. Package(curId, r) \in Packages
    BY DEF TypeOK, Package, Packages
  <2>4. queue' \in Seq(Packages) /\ toServer' \in Seq(Seq(Packages))
    <3>1. <<Package(curId, r)>> \in Seq(Packages)
      BY <2>3
    <3>2. CASE BufferMsg
      <4>1. queue' = Append(queue, Package(curId, r)) /\ toServer' = toServer
        BY <1>7, <3>2 DEF SendAccepted
      <4> QED
        BY <4>1, <2>3 DEF TypeOK
    <3>3. CASE ~BufferMsg
      <4>1. queue' = queue
        BY <1>7, <3>3 DEF SendAccepted
      <4>2. toServer' = toServer \/ toServer' = Append(toServer, <<Package(curId, r)>>)
        BY <1>7, <3>3 DEF SendAccepted, SendMessage
      <4>3. toServer \in Seq(Seq(Packages)) /\ queue \in Seq(Packages)
        BY DEF TypeOK
      <4>4. Append(toServer, <<Package(curId, r)>>) \in Seq(Seq(Packages))
        BY <4>3, <3>1, AppendProperties
      <4> QED
        BY <4>1, <4>2, <4>3, <4>4
    <3> QED
      BY <3>2, <3>3
  <2> QED
    BY <1>7, <2>1, <2>2, <2>4 DEF TypeOK, SendAccepted, linkVars, peerVars, callVars
<1>8. CASE Flush
  <2>1. toServer' \in Seq(Seq(Packages)) /\ queue' \in Seq(Packages)
    BY <1>8 DEF TypeOK, Flush, SendMessage
  <2> QED
    BY <1>8, <2>1 DEF TypeOK, Flush, linkVars, peerVars, callVars
<1>9. CASE PeerReceives
  <2>1. /\ toServer' \in Seq(Seq(Packages))
        /\ Head(toServer) \in Seq(Packages)
    BY <1>9 DEF TypeOK, PeerReceives
  <2>2. received' \subseteq Packages
    BY <1>9, <2>1, RangeOfSequence DEF TypeOK, PeerReceives
  <2> QED
    BY <1>9, <2>1, <2>2 DEF TypeOK, PeerReceives, sendVars, linkVars, callVars
<1>10. ASSUME NEW batch \in Batches(MaxReplies - replies), PeerReplies(batch) PROVE TypeOK'
  <2>1. batch \in Seq(Packages)
    BY BatchFacts DEF TypeOK
  <2>2. replies' \in 0..MaxReplies
    BY <1>10, <2>1, LenProperties DEF TypeOK, PeerReplies
  <2>3. toClient' \in Seq(Seq(Packages))
    <3>1. toClient \in Seq(Seq(Packages))
      BY DEF TypeOK
    <3>2. Singly(batch) \in Seq(Seq(Packages))
      BY <2>1, SinglyFacts
    <3>3. Append(toClient, batch) \in Seq(Seq(Packages))
      BY <2>1, <3>1, AppendProperties
    <3>4. toClient \o Singly(batch) \in Seq(Seq(Packages))
      BY <3>1, <3>2, ConcatProperties
    <3> QED
      BY <1>10, <3>3, <3>4 DEF PeerReplies
  <2> QED
    BY <1>10, <2>2, <2>3 DEF TypeOK, PeerReplies, sendVars, linkVars, callVars
<1>11. CASE OnMessage
  <2> DEFINE message == Head(toClient)
             ids == {p.id : p \in Range(message)}
             hits == ids \cap DOMAIN requests
  <2>1. message \in Seq(Packages) /\ toClient' \in Seq(Seq(Packages))
    BY <1>11 DEF TypeOK, OnMessage
  <2>2. NumberMap(requests)' /\ NumberMap(timeout)'
    BY <1>11 DEF TypeOK, OnMessage, clearCbTimeout, Forget, Delete, Restrict
  <2>3. \A id \in hits : Outcome("response", ResponseTo(message, id).msg) \in Outcomes
    BY <2>1, ResponseFacts DEF Packages, Outcome, Outcomes
  <2>4. verdicts' \in [Reqs -> Seq(Outcomes)]
    <3>1. verdicts' = [r \in Reqs |->
             IF \E id \in hits : requests[id] = r
             THEN LET id == CHOOSE i \in hits : requests[i] = r
                  IN Append(verdicts[r], Outcome("response", ResponseTo(message, id).msg))
             ELSE verdicts[r]]
      BY <1>11 DEF OnMessage
    <3>2. ASSUME NEW r \in Reqs PROVE verdicts'[r] \in Seq(Outcomes)
      <4>1. CASE \E id \in hits : requests[id] = r
        <5> DEFINE id == CHOOSE i \in hits : requests[i] = r
        <5>1. id \in hits
          BY <4>1
        <5>2. Outcome("response", ResponseTo(message, id).msg) \in Outcomes
          BY <5>1, <2>3
        <5>3. verdicts'[r] =
                Append(verdicts[r], Outcome("response", ResponseTo(message, id).msg))
          BY <3>1, <4>1
        <5> QED
          BY <5>2, <5>3 DEF TypeOK
      <4>2. CASE ~\E id \in hits : requests[id] = r
        BY <3>1, <4>2 DEF TypeOK
      <4> QED
        BY <4>1, <4>2
    <3> QED
      BY <3>1, <3>2
  <2> QED
    BY <1>11, <2>1, <2>2, <2>4 DEF TypeOK, OnMessage, linkVars, peerVars
<1>12. ASSUME NEW id \in DOMAIN timeout, CbTimeout(id) PROVE TypeOK'
  <2>1. NumberMap(requests)' /\ NumberMap(timeout)'
    BY <1>12 DEF TypeOK, CbTimeout, clearCbTimeout, Forget, Delete, Restrict
  <2>2. timeout[id] \in Reqs
    BY DEF TypeOK
  <2>3. verdicts' \in [Reqs -> Seq(Outcomes)]
    BY <1>12, <2>2 DEF TypeOK, CbTimeout, Outcome, Outcomes
  <2> QED
    BY <1>12, <2>1, <2>3 DEF TypeOK, CbTimeout, linkVars, peerVars
<1>13. CASE UNCHANGED vars
  BY <1>13 DEF TypeOK, vars
<1> QED
  BY <1>1, <1>2, <1>3, <1>4, <1>5, <1>6, <1>7, <1>8, <1>9, <1>10, <1>11, <1>12, <1>13
  DEF Next

\* Type correctness of the mailbox: whatever the socket, the peer and the timers
\* do, the variables stay within their types.
THEOREM TypeCorrect == Spec => []TypeOK
<1>1. Init => TypeOK
  BY TypeInit
<1>2. TypeOK /\ [Next]_vars => TypeOK'
  BY TypeStep
<1> QED
  BY <1>1, <1>2, PTL DEF Spec

-----------------------------------------------------------------------------
\* A step after which each callback has had the verdicts it had before, or a
\* first one of its own.
LEMMA FirstVerdicts ==
  ASSUME OneVerdict, RepliesMatch,
         \A r \in Reqs : \/ verdicts'[r] = verdicts[r]
                         \/ \E kind : verdicts'[r] = <<Outcome(kind, r)>>
  PROVE  (OneVerdict /\ RepliesMatch)'
<1> SUFFICES ASSUME NEW r \in Reqs
             PROVE  /\ Len(verdicts'[r]) <= 1
                    /\ \A i \in DOMAIN verdicts'[r] : verdicts'[r][i].msg = r
  BY DEF OneVerdict, RepliesMatch
<1>1. CASE verdicts'[r] = verdicts[r]
  BY <1>1 DEF OneVerdict, RepliesMatch
<1>2. ASSUME NEW kind, verdicts'[r] = <<Outcome(kind, r)>>
      PROVE  /\ Len(verdicts'[r]) <= 1
             /\ \A i \in DOMAIN verdicts'[r] : verdicts'[r][i].msg = r
  <2>1. Len(<<Outcome(kind, r)>>) = 1 /\ DOMAIN <<Outcome(kind, r)>> = {1}
    OBVIOUS
  <2>2. Outcome(kind, r).msg = r
    BY DEF Outcome
  <2> QED
    BY <1>2, <2>1, <2>2
<1> QED
  BY <1>1, <1>2

\* The bookkeeping of numbers, callbacks and timers is never upset, whatever
\* order calls of send(), responses, timers and socket events come in.
THEOREM BookkeepingCorrect == Spec => []Bookkeeping
<1>1. Init => Bookkeeping
  BY DEF Init, Bookkeeping, TimerPerRequest, OneVerdict, RepliesMatch, WaitingHasNoVerdict,
         OneNumberEach, PackagesKnown
<1>2. TypeOK /\ TypeOK' /\ Bookkeeping /\ [Next]_vars => Bookkeeping'
  <2> SUFFICES ASSUME TypeOK, TypeOK', Bookkeeping, [Next]_vars PROVE Bookkeeping'
    OBVIOUS
  \* Most actions leave the callbacks, the timers and the verdicts alone.
  <2>1. ASSUME UNCHANGED <<curId, requests, timeout, verdicts>>
        PROVE  /\ (TimerPerRequest /\ OneVerdict /\ RepliesMatch)'
               /\ (WaitingHasNoVerdict /\ OneNumberEach)'
               /\ \A p : Known(p)' <=> Known(p)
    BY <2>1 DEF Bookkeeping, TimerPerRequest, OneVerdict, RepliesMatch, WaitingHasNoVerdict,
                OneNumberEach, Known
  <2>2. ASSUME UNCHANGED <<curId, requests, timeout, verdicts, queue, toServer, received>>,
               toClient' \in {toClient, <<>>}
        PROVE  Bookkeeping'
    BY <2>1, <2>2 DEF Bookkeeping, PackagesKnown
  <2>3. CASE Connect \/ OnConnection \/ OnClose \/ Close \/ OnError
    BY <2>2, <2>3 DEF Connect, OnConnection, OnClose, Close, OnError, sendVars, peerVars,
                      callVars
  <2>4. ASSUME NEW r \in Reqs, SendRefused(r) PROVE Bookkeeping'
    <3>1. /\ verdicts[r] = <<>>
          /\ \A id \in DOMAIN requests : requests[id] # r
          /\ verdicts' = [verdicts EXCEPT ![r] = Append(@, Outcome("refused", r))]
          /\ UNCHANGED <<curId, requests, timeout, queue, toServer, received, toClient>>
      BY <2>4 DEF SendRefused, Unsent, Range, sendVars, peerVars
    <3>2. /\ verdicts'[r] = <<Outcome("refused", r)>>
          /\ \A q \in Reqs : q # r => verdicts'[q] = verdicts[q]
      BY <3>1 DEF TypeOK
    <3>3. (OneVerdict /\ RepliesMatch)'
      BY <3>2, FirstVerdicts DEF Bookkeeping
    <3>4. WaitingHasNoVerdict'
      BY <3>1, <3>2 DEF Bookkeeping, WaitingHasNoVerdict, TypeOK, NumberMap
    <3> QED
      BY <3>1, <3>3, <3>4 DEF Bookkeeping, TimerPerRequest, OneNumberEach, PackagesKnown, Known
  <2>5. ASSUME NEW r \in Reqs, SendAccepted(r) PROVE Bookkeeping'
    <3>1. /\ verdicts[r] = <<>>
          /\ \A id \in DOMAIN requests : requests[id] # r
          /\ curId' = curId + 1
          /\ requests' = Store(requests, curId, r)
          /\ timeout' = Store(timeout, curId, r)
          /\ UNCHANGED <<received, toClient, verdicts>>
      BY <2>5 DEF SendAccepted, Unsent, Range, NumberAfterSend, peerVars, callVars
    <3>2. curId \notin DOMAIN requests /\ curId \in Nat
      BY DEF TypeOK, NumberMap
    <3>3. /\ DOMAIN requests' = DOMAIN requests \cup {curId}
          /\ requests'[curId] = r
          /\ \A id \in DOMAIN requests : requests'[id] = requests[id]
      BY <3>1, <3>2 DEF Store
    <3>4. (TimerPerRequest /\ OneVerdict /\ RepliesMatch)'
      BY <3>1 DEF Bookkeeping, TimerPerRequest, OneVerdict, RepliesMatch
    <3>5. (WaitingHasNoVerdict /\ OneNumberEach)'
      BY <3>1, <3>3 DEF Bookkeeping, WaitingHasNoVerdict, OneNumberEach
    <3> DEFINE pkg == [id |-> curId, msg |-> r]
    <3>6. /\ pkg \in Packages /\ Package(curId, r) = pkg
          /\ \A p \in Packages : Known(p) \/ p = pkg => Known(p)'
      BY <3>1, <3>2, <3>3 DEF Known, Package, Packages
    <3> HIDE DEF pkg
    <3>7. PackagesKnown'
      <4>1. /\ (\A p \in received : Known(p))'
            /\ (\A i \in DOMAIN toClient : \A j \in DOMAIN toClient[i] : Known(toClient[i][j]))'
        <5>1. /\ \A p \in received : p \in Packages /\ Known(p)
              /\ \A i \in DOMAIN toClient : \A j \in DOMAIN toClient[i] :
                   toClient[i][j] \in Packages /\ Known(toClient[i][j])
          <6>1. received \subseteq Packages /\ toClient \in Seq(Seq(Packages))
            BY DEF TypeOK
          <6> QED
            BY <6>1 DEF Bookkeeping, PackagesKnown
        <5> QED
          BY <3>1, <3>6, <5>1
      <4>2. (\A i \in DOMAIN queue : Known(queue[i]))'
        <5>1. queue' = queue \/ queue' = Append(queue, Package(curId, r))
          BY <2>5 DEF SendAccepted
        <5>2. queue \in Seq(Packages) /\ \A i \in DOMAIN queue : Known(queue[i])
          BY DEF Bookkeeping, PackagesKnown, TypeOK
        <5>3. \A i \in DOMAIN queue' : \/ queue'[i] = pkg
                                       \/ i \in DOMAIN queue /\ queue'[i] = queue[i]
          BY <5>1, <5>2, <3>6, AppendElements
        <5> QED
          BY <5>2, <5>3, <3>6
      <4>3. (\A i \in DOMAIN toServer : \A j \in DOMAIN toServer[i] : Known(toServer[i][j]))'
        <5>1. toServer' = toServer \/ toServer' = Append(toServer, <<Package(curId, r)>>)
          BY <2>5 DEF SendAccepted, SendMessage
        <5>2. /\ toServer \in Seq(Seq(Packages)) /\ <<pkg>> \in Seq(Packages)
              /\ \A i \in DOMAIN toServer : \A j \in DOMAIN toServer[i] : Known(toServer[i][j])
          BY <3>6 DEF Bookkeeping, PackagesKnown, TypeOK
        <5>3. \A i \in DOMAIN toServer' : \/ toServer'[i] = <<pkg>>
                                          \/ i \in DOMAIN toServer /\ toServer'[i] = toServer[i]
          <6>1. CASE toServer' = toServer
            BY <6>1
          <6>2. CASE toServer' = Append(toServer, <<pkg>>)
            BY <6>2, <5>2, AppendElements
          <6> QED
            BY <5>1, <3>6, <6>1, <6>2
        <5>4. ASSUME NEW i \in DOMAIN toServer', NEW j \in DOMAIN toServer'[i]
              PROVE  \A p : p = toServer'[i][j] => Known(p)'
          <6>1. CASE toServer'[i] = <<pkg>>
            BY <6>1, <3>6
          <6>2. CASE i \in DOMAIN toServer /\ toServer'[i] = toServer[i]
            BY <6>2, <5>2, <3>6
          <6> QED
            BY <5>3, <6>1, <6>2
        <5> QED
          BY <5>4
      <4> QED
        BY <4>1, <4>2, <4>3 DEF PackagesKnown
    <3> QED
      BY <3>4, <3>5, <3>7 DEF Bookkeeping
  <2>6. CASE Flush
    <3>1. UNCHANGED <<curId, requests, timeout, verdicts, received, toClient>> /\ queue' = <<>>
      BY <2>6 DEF Flush, peerVars, callVars
    <3>2. toServer' = toServer \/ toServer' = Append(toServer, queue)
      BY <2>6 DEF Flush, SendMessage
    <3>3. \A i \in DOMAIN toServer' : \/ toServer'[i] = queue
                                      \/ i \in DOMAIN toServer /\ toServer'[i] = toServer[i]
      <4>1. CASE toServer' = toServer
        BY <4>1
      <4>2. CASE toServer' = Append(toServer, queue)
        <5>1. toServer \in Seq(Seq(Packages)) /\ queue \in Seq(Packages)
          BY DEF TypeOK
        <5> QED
          BY <4>2, <5>1, AppendElements
      <4> QED
        BY <3>2, <4>1, <4>2
    <3>4. PackagesKnown'
      BY <2>1, <3>1, <3>3 DEF Bookkeeping, PackagesKnown
    <3> QED
      BY <2>1, <3>1, <3>4 DEF Bookkeeping
  <2>7. CASE PeerReceives
    <3>1. /\ UNCHANGED <<curId, requests, timeout, verdicts, queue, toClient>>
          /\ toServer # <<>> /\ toServer' = Tail(toServer)
          /\ received' = received \cup Range(Head(toServer))
      BY <2>7 DEF PeerReceives, sendVars, callVars
    <3>2. /\ 1 \in DOMAIN toServer /\ Head(toServer) = toServer[1]
          /\ \A i \in DOMAIN toServer' : i + 1 \in DOMAIN toServer /\ toServer'[i] = toServer[i + 1]
      BY <3>1, HeadTailProperties DEF TypeOK
    <3>3. \A p \in Range(Head(toServer)) : Known(p)
      BY <3>2 DEF Bookkeeping, PackagesKnown, Range
    <3>4. PackagesKnown'
      BY <2>1, <3>1, <3>2, <3>3 DEF Bookkeeping, PackagesKnown
    <3> QED
      BY <2>1, <3>1, <3>4 DEF Bookkeeping
  <2>8. ASSUME NEW batch \in Batches(MaxReplies - replies), PeerReplies(batch)
        PROVE  Bookkeeping'
    <3>1. /\ UNCHANGED <<curId, requests, timeout, verdicts, queue, toServer, received>>
          /\ \/ toClient' = Append(toClient, batch)
             \/ toClient' = toClient \o Singly(batch)
      BY <2>8 DEF PeerReplies, sendVars, callVars
    <3>2. /\ batch \in Seq(Packages)
          /\ \A j \in DOMAIN batch : Known(batch[j])
      BY BatchFacts DEF TypeOK, Bookkeeping, PackagesKnown
    <3>3. \A i \in DOMAIN toClient' : \A j \in DOMAIN toClient'[i] : Known(toClient'[i][j])
      <4>1. /\ toClient \in Seq(Seq(Packages))
            /\ \A i \in DOMAIN toClient : \A j \in DOMAIN toClient[i] : Known(toClient[i][j])
        BY DEF Bookkeeping, PackagesKnown, TypeOK
      <4>2. CASE toClient' = Append(toClient, batch)
        BY <3>2, <4>1, <4>2, AppendElements
      <4>3. CASE toClient' = toClient \o Singly(batch)
        <5>1. \A i \in DOMAIN Singly(batch) : \A j \in DOMAIN Singly(batch)[i] :
                Known(Singly(batch)[i][j])
          BY <3>2, SinglyFacts
        <5>2. \A i \in DOMAIN toClient' :
                \/ i \in DOMAIN toClient /\ toClient'[i] = toClient[i]
                \/ \E k \in DOMAIN Singly(batch) : toClient'[i] = Singly(batch)[k]
          BY <3>2, <4>1, <4>3, SinglyFacts, ConcatElements
        <5> QED
          BY <4>1, <5>1, <5>2
      <4> QED
        BY <3>1, <4>2, <4>3
    <3> QED
      BY <2>1, <3>1, <3>3 DEF Bookkeeping, PackagesKnown
  <2>9. CASE OnMessage
    <3> DEFINE message == Head(toClient)
               ids == {p.id : p \in Range(message)}
               hits == ids \cap DOMAIN requests
    <3>1. /\ toClient # <<>>
          /\ timeout' = Delete(timeout, ids) /\ requests' = Delete(requests, hits)
          /\ verdicts' = [r \in Reqs |->
               IF \E id \in hits : requests[id] = r
               THEN LET id == CHOOSE i \in hits : requests[i] = r
                    IN Append(verdicts[r], Outcome("response", ResponseTo(message, id).msg))
               ELSE verdicts[r]]
          /\ toClient' = Tail(toClient)
          /\ UNCHANGED <<curId, queue, toServer, received>>
      BY <2>9 DEF OnMessage, clearCbTimeout, Forget, peerVars
    <3>2. /\ message \in Seq(Packages)
          /\ 1 \in DOMAIN toClient /\ message = toClient[1]
          /\ \A i \in DOMAIN toClient' : i + 1 \in DOMAIN toClient /\ toClient'[i] = toClient[i + 1]
      BY <3>1, HeadTailProperties DEF TypeOK
    <3>3. TimerPerRequest'
      BY <3>1 DEF Bookkeeping, TimerPerRequest, Delete, Restrict
    <3>4. /\ DOMAIN requests' = DOMAIN requests \ hits
          /\ \A id \in DOMAIN requests' : requests'[id] = requests[id]
      BY <3>1 DEF Delete, Restrict
    <3>5. ASSUME NEW r \in Reqs
          PROVE  \/ verdicts'[r] = verdicts[r] /\ \A id \in hits : requests[id] # r
                 \/ /\ verdicts'[r] = <<Outcome("response", r)>>
                    /\ \A id \in DOMAIN requests : requests[id] = r => id \in hits
      <4>1. CASE \E id \in hits : requests[id] = r
        <5> DEFINE id == CHOOSE i \in hits : requests[i] = r
        <5>1. id \in hits /\ requests[id] = r
          BY <4>1
        <5>2. verdicts'[r] = Append(verdicts[r], Outcome("response", ResponseTo(message, id).msg))
          BY <3>1, <4>1
        <5>3. ResponseTo(message, id) \in Range(message) /\ ResponseTo(message, id).id = id
          BY <3>2, <5>1, ResponseFacts
        <5>4. \A p \in Range(message) : Known(p)
          BY <3>2 DEF Bookkeeping, PackagesKnown, Range
        <5>5. ResponseTo(message, id).msg = r
          BY <5>1, <5>3, <5>4 DEF Known
        <5>6. verdicts[r] = <<>>
          BY <5>1 DEF Bookkeeping, WaitingHasNoVerdict
        <5>7. \A i \in DOMAIN requests : requests[i] = r => i \in hits
          BY <5>1 DEF Bookkeeping, OneNumberEach
        <5> QED
          BY <5>2, <5>5, <5>6, <5>7
      <4>2. CASE ~\E id \in hits : requests[id] = r
        BY <3>1, <4>2
      <4> QED
        BY <4>1, <4>2
    <3>6. (OneVerdict /\ RepliesMatch)'
      BY <3>5, FirstVerdicts DEF Bookkeeping
    <3>7. WaitingHasNoVerdict'
      BY <3>4, <3>5 DEF Bookkeeping, WaitingHasNoVerdict, TypeOK, NumberMap
    <3>8. OneNumberEach'
      BY <3>4 DEF Bookkeeping, OneNumberEach
    <3>9. \A p : Known(p) => Known(p)'
      BY <3>1, <3>4 DEF Known
    <3>10. PackagesKnown'
      BY <3>1, <3>2, <3>9 DEF Bookkeeping, PackagesKnown
    <3> QED
      BY <3>3, <3>6, <3>7, <3>8, <3>10 DEF Bookkeeping
  <2>10. ASSUME NEW id \in DOMAIN timeout, CbTimeout(id) PROVE Bookkeeping'
    <3> DEFINE r == timeout[id]
    <3>1. /\ timeout' = Delete(timeout, {id}) /\ requests' = Delete(requests, {id})
          /\ verdicts' = [verdicts EXCEPT ![r] = Append(@, Outcome("timeout", r))]
          /\ UNCHANGED <<curId, queue, toServer, received, toClient>>
      BY <2>10 DEF CbTimeout, clearCbTimeout, Forget, peerVars
    <3>2. id \in DOMAIN requests /\ requests[id] = r /\ r \in Reqs /\ verdicts[r] = <<>>
      BY DEF Bookkeeping, TimerPerRequest, WaitingHasNoVerdict, TypeOK, NumberMap
    <3>3. /\ DOMAIN requests' = DOMAIN requests \ {id}
          /\ \A i \in DOMAIN requests' : requests'[i] = requests[i]
      BY <3>1 DEF Delete, Restrict
    <3>4. /\ verdicts'[r] = <<Outcome("timeout", r)>>
          /\ \A q \in Reqs : q # r => verdicts'[q] = verdicts[q]
      BY <3>1, <3>2 DEF TypeOK
    <3>5. TimerPerRequest'
      BY <3>1 DEF Bookkeeping, TimerPerRequest
    <3>6. (OneVerdict /\ RepliesMatch)'
      BY <3>4, FirstVerdicts DEF Bookkeeping
    <3>7. (WaitingHasNoVerdict /\ OneNumberEach)'
      BY <3>2, <3>3, <3>4 DEF Bookkeeping, WaitingHasNoVerdict, OneNumberEach, TypeOK, NumberMap
    <3>8. \A p : Known(p) => Known(p)'
      BY <3>1, <3>3 DEF Known
    <3>9. PackagesKnown'
      BY <3>1, <3>8 DEF Bookkeeping, PackagesKnown
    <3> QED
      BY <3>5, <3>6, <3>7, <3>9 DEF Bookkeeping
  <2>11. CASE UNCHANGED vars
    BY <2>2, <2>11 DEF vars
  <2> QED
    BY <2>3, <2>4, <2>5, <2>6, <2>7, <2>8, <2>9, <2>10, <2>11 DEF Next
<1> QED
  BY <1>1, <1>2, TypeCorrect, PTL DEF Spec

\* Every stored callback has its timer: no request can wait for ever.
THEOREM TimersCorrect == Spec => []TimerPerRequest
  BY BookkeepingCorrect, PTL DEF Bookkeeping

\* A callback gets at most one of response, timeout and refusal.
THEOREM OneVerdictOnly == Spec => []OneVerdict
  BY BookkeepingCorrect, PTL DEF Bookkeeping

\* A callback never gets the response to another request.
THEOREM RepliesCorrect == Spec => []RepliesMatch
  BY BookkeepingCorrect, PTL DEF Bookkeeping

-----------------------------------------------------------------------------
\* A closed mailbox takes on no request and writes no package, even when its
\* socket connects after close().
THEOREM ClosedTakesNothingAtAll == Spec => ClosedTakesNothing
<1>1. TypeOK /\ [Next]_vars => [closed => /\ DOMAIN requests' \subseteq DOMAIN requests
                                         /\ Len(toServer') <= Len(toServer)]_vars
  <2> SUFFICES ASSUME TypeOK, Next, closed
               PROVE  /\ DOMAIN requests' \subseteq DOMAIN requests
                      /\ Len(toServer') <= Len(toServer)
    OBVIOUS
  <2>1. Len(toServer) \in Nat
    BY DEF TypeOK
  <2>2. ASSUME Connect \/ OnConnection \/ OnClose \/ Close \/ OnError
        PROVE  UNCHANGED <<requests, toServer>>
    BY <2>2 DEF Connect, OnConnection, OnClose, Close, OnError, sendVars
  <2>3. ASSUME NEW r \in Reqs, SendRefused(r) \/ SendAccepted(r)
        PROVE  UNCHANGED <<requests, toServer>>
    BY <2>3 DEF SendRefused, SendAccepted, Usable, sendVars
  <2>4. CASE Flush
    BY <2>4 DEF Flush
  <2>5. CASE PeerReceives
    <3>1. toServer \in Seq(Seq(Packages)) /\ toServer # <<>>
      BY <2>5 DEF TypeOK, PeerReceives
    <3> QED
      BY <2>5, <3>1, HeadTailProperties DEF PeerReceives, sendVars
  <2>6. ASSUME NEW batch, PeerReplies(batch)
        PROVE  UNCHANGED <<requests, toServer>>
    BY <2>6 DEF PeerReplies, sendVars
  <2>7. CASE OnMessage
    BY <2>1, <2>7 DEF OnMessage, Forget, Delete, Restrict
  <2>8. ASSUME NEW id \in DOMAIN timeout, CbTimeout(id)
        PROVE  DOMAIN requests' \subseteq DOMAIN requests /\ toServer' = toServer
    BY <2>8 DEF CbTimeout, Forget, Delete, Restrict
  <2> QED
    BY <2>1, <2>2, <2>3, <2>4, <2>5, <2>6, <2>7, <2>8 DEF Next
<1> QED
  BY <1>1, TypeCorrect, PTL DEF Spec, ClosedTakesNothing

-----------------------------------------------------------------------------
\* The phase of a request changes only when it is stored, forgotten or given a
\* verdict.
LEMMA SamePhase ==
  ASSUME UNCHANGED <<requests, verdicts>>
  PROVE  Phase' = Phase
  BY DEF Phase, Range

\* The mailbox keeps the promise of RpcCall (its safety part): every step is one
\* of RpcCall or none.
THEOREM MailboxImplementsCall == Spec => Call!Spec
<1> DEFINE told == {r \in Reqs : notices[r] > 0}
<1>1. Init => Call!Init
  <2> SUFFICES ASSUME Init PROVE Call!Init
    OBVIOUS
  <2>1. Range(requests) = {}
    BY DEF Init, Range
  <2> QED
    BY <2>1 DEF Init, Call!Init, Phase
<1>2. TypeOK /\ TypeOK' /\ Bookkeeping /\ [Next]_vars => [Call!Next]_Call!callVars
  <2> SUFFICES ASSUME TypeOK, TypeOK', Bookkeeping, [Next]_vars
               PROVE  Call!Next \/ (Phase' = Phase /\ told' = told)
    BY DEF Call!callVars
  <2>1. ASSUME UNCHANGED <<requests, verdicts, notices>>
        PROVE  Phase' = Phase /\ told' = told
    BY <2>1, SamePhase
  <2>2. CASE \/ Connect \/ OnConnection \/ OnError \/ Flush \/ PeerReceives
             \/ (\E batch : PeerReplies(batch)) \/ UNCHANGED vars
    BY <2>1, <2>2 DEF Connect, OnConnection, OnError, Flush, PeerReceives, PeerReplies, vars,
                      sendVars, callVars
  <2>3. ASSUME NotifyAll, UNCHANGED <<requests, verdicts>>
        PROVE  Call!Disconnect
    <3>1. Phase' = Phase
      BY <2>3, SamePhase
    <3>2. \A r \in Reqs : Phase[r] = "waiting" <=> r \in Range(requests)
      BY DEF Phase
    <3>3. \A r \in Reqs : r \in told' <=> r \in told \/ r \in Range(requests)
      BY <2>3 DEF NotifyAll, TypeOK
    <3> QED
      BY <3>1, <3>2, <3>3 DEF Call!Disconnect, Call!Waiting
  <2>4. CASE OnClose
    BY <2>3, <2>4 DEF OnClose, sendVars, Call!Next
  <2>5. CASE Close
    <3>1. UNCHANGED <<requests, verdicts>> /\ (NotifyAll \/ UNCHANGED notices)
      BY <2>5 DEF Close, sendVars
    <3> QED
      BY <2>1, <2>3, <3>1 DEF Call!Next
  <2>6. ASSUME NEW r \in Reqs, SendRefused(r) PROVE Call!Refuse(r)
    <3>1. /\ verdicts[r] = <<>> /\ r \notin Range(requests)
          /\ verdicts' = [verdicts EXCEPT ![r] = Append(@, Outcome("refused", r))]
          /\ UNCHANGED <<requests, notices>>
      BY <2>6 DEF SendRefused, Unsent, sendVars
    <3>2. /\ verdicts'[r] = <<Outcome("refused", r)>>
          /\ \A q \in Reqs : q # r => verdicts'[q] = verdicts[q]
      BY <3>1 DEF TypeOK
    <3>3. verdicts'[r] # <<>> /\ verdicts'[r][1].kind = "refused"
      BY <3>2 DEF Outcome
    <3>4. Range(requests)' = Range(requests)
      BY <3>1
    <3>5. Phase[r] = "idle" /\ Phase' = [Phase EXCEPT ![r] = "failed"]
      BY <3>1, <3>2, <3>3, <3>4 DEF Phase
    <3> QED
      BY <3>1, <3>5 DEF Call!Refuse
  <2>7. ASSUME NEW r \in Reqs, SendAccepted(r) PROVE Call!Issue(r)
    <3>1. /\ verdicts[r] = <<>> /\ r \notin Range(requests)
          /\ requests' = Store(requests, curId, r)
          /\ UNCHANGED <<verdicts, notices>>
      BY <2>7 DEF SendAccepted, Unsent, callVars
    <3>2. curId \notin DOMAIN requests
      BY DEF TypeOK, NumberMap
    <3>3. \A q : q \in Range(requests)' <=> q \in Range(requests) \/ q = r
      BY <3>1, <3>2 DEF Store, Range
    <3>4. Phase[r] = "idle" /\ Phase' = [Phase EXCEPT ![r] = "waiting"]
      BY <3>1, <3>3 DEF Phase
    <3> QED
      BY <3>1, <3>4 DEF Call!Issue
  <2>8. CASE OnMessage
    <3> DEFINE ids == {p.id : p \in Range(Head(toClient))}
               hits == ids \cap DOMAIN requests
               S == {requests[id] : id \in hits}
               answer(r) == Outcome("response",
                              ResponseTo(Head(toClient), CHOOSE i \in hits : requests[i] = r).msg)
    <3>1. /\ requests' = Delete(requests, hits)
          /\ \A r \in Reqs : verdicts'[r] = IF r \in S THEN Append(verdicts[r], answer(r))
                                             ELSE verdicts[r]
          /\ UNCHANGED notices
      BY <2>8 DEF OnMessage, Forget
    <3>2. S \subseteq Range(requests) /\ S \subseteq Reqs
      BY DEF Range, TypeOK, NumberMap
    <3>3. \A r \in Reqs : r \in Range(requests)' <=> r \in Range(requests) /\ r \notin S
      BY <3>1 DEF Delete, Restrict, Range, Bookkeeping, OneNumberEach
    <3>4. \A r \in S : verdicts'[r] # <<>> /\ verdicts'[r][1].kind = "response"
      <4>1. \A r \in S : verdicts[r] = <<>>
        BY DEF Bookkeeping, WaitingHasNoVerdict
      <4>2. SUFFICES ASSUME NEW r \in S
                     PROVE  verdicts'[r] # <<>> /\ verdicts'[r][1].kind = "response"
        OBVIOUS
      <4>3. verdicts'[r] = Append(verdicts[r], answer(r)) /\ verdicts[r] = <<>>
        BY <3>1, <3>2, <4>1
      <4>4. answer(r).kind = "response"
        BY DEF Outcome
      <4> HIDE DEF S, answer
      <4> QED
        BY <4>3, <4>4
    <3>5. \A r \in Reqs : Phase'[r] = IF r \in S THEN "answered" ELSE Phase[r]
      <4> HIDE DEF S, answer
      <4> QED
        BY <3>1, <3>2, <3>3, <3>4 DEF Phase
    <3>6. S \subseteq Call!Waiting
      BY <3>2 DEF Call!Waiting, Phase
    <3>7. Phase' = [r \in Reqs |-> IF r \in S THEN "answered" ELSE Phase[r]]
      BY <3>5 DEF Phase
    <3>8. Call!Answer(S)
      BY <3>1, <3>6, <3>7 DEF Call!Answer
    <3> QED
      BY <3>6, <3>8 DEF Call!Next
  <2>9. ASSUME NEW id \in DOMAIN timeout, CbTimeout(id) PROVE Call!Next
    <3> DEFINE r == timeout[id]
    <3>1. /\ requests' = Delete(requests, {id})
          /\ verdicts' = [verdicts EXCEPT ![r] = Append(@, Outcome("timeout", r))]
          /\ UNCHANGED notices
      BY <2>9 DEF CbTimeout, Forget
    <3>2. id \in DOMAIN requests /\ requests[id] = r /\ r \in Reqs /\ verdicts[r] = <<>>
      BY DEF Bookkeeping, TimerPerRequest, WaitingHasNoVerdict, TypeOK, NumberMap
    <3>3. /\ verdicts'[r] = <<Outcome("timeout", r)>>
          /\ \A q \in Reqs : q # r => verdicts'[q] = verdicts[q]
      BY <3>1, <3>2 DEF TypeOK
    <3>4. verdicts'[r] # <<>> /\ verdicts'[r][1].kind = "timeout"
      BY <3>3 DEF Outcome
    <3>5. \A q : q \in Range(requests)' <=> q \in Range(requests) /\ q # r
      BY <3>1, <3>2 DEF Delete, Restrict, Range, Bookkeeping, OneNumberEach
    <3>6. r \in Range(requests)
      BY <3>2 DEF Range
    <3>7. Phase[r] = "waiting" /\ Phase' = [Phase EXCEPT ![r] = "failed"]
      <4> HIDE DEF r
      <4> QED
        BY <3>2, <3>3, <3>4, <3>5, <3>6 DEF Phase
    <3>8. Call!Expire(r)
      BY <3>1, <3>7 DEF Call!Expire
    <3> QED
      BY <3>2, <3>8 DEF Call!Next
  <2> QED
    BY <2>2, <2>4, <2>5, <2>6, <2>7, <2>8, <2>9 DEF Next, Call!Next
<1> QED
  BY <1>1, <1>2, TypeCorrect, BookkeepingCorrect, PTL DEF Spec, Call!Spec

-----------------------------------------------------------------------------
(* The order of packages on the wire.                                      *)

Ascending(message) == \A a, b \in DOMAIN message : a < b => message[a].id < message[b].id
Before(S, T) == \A p \in S, q \in T : p.id < q.id

\* WireInOrder, with the messages on the wire and the queue told apart, and what
\* makes it inductive: without buffering nothing is queued, so that a package
\* written at once overtakes none.
OrderKept ==
  /\ BufferMsg \/ queue = <<>>
  /\ Ascending(queue)
  /\ \A i \in DOMAIN toServer : Ascending(toServer[i]) /\ Before(Range(toServer[i]), Range(queue))
  /\ \A i, j \in DOMAIN toServer : i < j => Before(Range(toServer[i]), Range(toServer[j]))
  /\ \A i \in DOMAIN toServer : Before(received, Range(toServer[i]))
  /\ Before(received, Range(queue))

LEMMA OrderOnTheWire ==
  ASSUME TypeOK, OrderKept
  PROVE  WireInOrder
<1> DEFINE n == Len(toServer)
<1>1. /\ DOMAIN Written = 1..n + 1 /\ DOMAIN toServer = 1..n /\ n \in Nat
      /\ \A i \in 1..n : Written[i] = toServer[i]
      /\ Written[n + 1] = queue
  <2>1. toServer \in Seq(Seq(Packages)) /\ queue \in Seq(Packages)
    BY DEF TypeOK
  <2> QED
    BY <2>1, AppendProperties DEF Written
<1> HIDE DEF n
<1>2. \A i \in DOMAIN Written : i \in DOMAIN toServer \/ i = n + 1
  BY <1>1
<1>3. \A i \in DOMAIN Written : Ascending(Written[i]) /\ Before(received, Range(Written[i]))
  BY <1>1, <1>2 DEF OrderKept
<1>4. \A i, j \in DOMAIN Written : i < j => Before(Range(Written[i]), Range(Written[j]))
  <2> SUFFICES ASSUME NEW i \in DOMAIN Written, NEW j \in DOMAIN Written, i < j
               PROVE  Before(Range(Written[i]), Range(Written[j]))
    OBVIOUS
  <2>1. i \in DOMAIN toServer
    BY <1>1
  <2> QED
    BY <1>1, <1>2, <2>1 DEF OrderKept
<1> QED
  BY <1>3, <1>4 DEF WireInOrder, Ascending, Before

\* A message written to the socket, or lost with it, follows those before it.
LEMMA OrderWritten ==
  ASSUME TypeOK, OrderKept, NEW message \in Seq(Packages), SendMessage(message),
         Ascending(message), Before(received, Range(message)), received' = received,
         \A i \in DOMAIN toServer : Before(Range(toServer[i]), Range(message)),
         queue' = <<>>
  PROVE  OrderKept'
<1>1. toServer \in Seq(Seq(Packages)) /\ Range(queue') = {} /\ DOMAIN queue' = {}
  BY DEF TypeOK, Range
<1>2. Ascending(queue') /\ \A S : Before(S, Range(queue'))
  BY <1>1 DEF Ascending, Before
<1>3. CASE toServer' = toServer
  BY <1>2, <1>3 DEF OrderKept
<1>4. CASE toServer' = Append(toServer, message)
  <2> DEFINE n == Len(toServer)
  <2>1. /\ DOMAIN toServer' = 1..n + 1 /\ DOMAIN toServer = 1..n /\ n \in Nat
        /\ \A i \in 1..n : toServer'[i] = toServer[i]
        /\ toServer'[n + 1] = message
    BY <1>1, <1>4, AppendProperties
  <2> HIDE DEF n
  <2>2. \A i \in DOMAIN toServer' : i \in DOMAIN toServer \/ i = n + 1
    BY <2>1
  <2>3. \A i \in DOMAIN toServer' : Ascending(toServer'[i]) /\ Before(received, Range(toServer'[i]))
    BY <2>1, <2>2 DEF OrderKept
  <2>4. \A i, j \in DOMAIN toServer' : i < j => Before(Range(toServer'[i]), Range(toServer'[j]))
    <3> SUFFICES ASSUME NEW i \in DOMAIN toServer', NEW j \in DOMAIN toServer', i < j
                 PROVE  Before(Range(toServer'[i]), Range(toServer'[j]))
      OBVIOUS
    <3>1. i \in DOMAIN toServer
      BY <2>1
    <3> QED
      BY <2>1, <2>2, <3>1 DEF OrderKept
  <2> QED
    BY <1>2, <2>3, <2>4 DEF OrderKept
<1> QED
  BY <1>3, <1>4 DEF SendMessage

\* Packages leave for the server in the order of the calls of send(), and none
\* twice.
THEOREM WireOrderCorrect == Spec => []WireInOrder
<1>1. Init => OrderKept
  BY DEF Init, OrderKept, Ascending, Before, Range
<1>2. TypeOK /\ Bookkeeping /\ OrderKept /\ [Next]_vars => OrderKept'
  <2> SUFFICES ASSUME TypeOK, Bookkeeping, OrderKept, [Next]_vars PROVE OrderKept'
    OBVIOUS
  <2>1. ASSUME UNCHANGED <<queue, toServer, received>> PROVE OrderKept'
    BY <2>1 DEF OrderKept
  <2>2. CASE Connect \/ OnConnection \/ OnClose \/ Close \/ OnError \/ OnMessage
    BY <2>1, <2>2 DEF Connect, OnConnection, OnClose, Close, OnError, OnMessage, sendVars,
                      peerVars
  <2>3. ASSUME NEW r, NEW batch, NEW id, SendRefused(r) \/ PeerReplies(batch) \/ CbTimeout(id)
        PROVE  OrderKept'
    BY <2>1, <2>3 DEF SendRefused, PeerReplies, CbTimeout, sendVars, peerVars
  <2>4. /\ queue \in Seq(Packages) /\ toServer \in Seq(Seq(Packages)) /\ curId \in Nat
        /\ \A p \in Range(queue) : p.id \in Nat /\ p.id < curId
        /\ \A p \in received : p.id \in Nat /\ p.id < curId
        /\ \A i \in DOMAIN toServer : \A p \in Range(toServer[i]) : p.id \in Nat /\ p.id < curId
    <3>1. /\ queue \in Seq(Packages) /\ toServer \in Seq(Seq(Packages)) /\ curId \in Nat
          /\ received \subseteq Packages
      BY DEF TypeOK
    <3>2. \A p \in Packages : p.id \in Nat
      BY DEF Packages
    <3>3. \A i \in DOMAIN toServer : toServer[i] \in Seq(Packages)
      BY <3>1
    <3>4. /\ Range(queue) \subseteq Packages
          /\ \A i \in DOMAIN toServer : Range(toServer[i]) \subseteq Packages
      BY <3>1, <3>3, RangeOfSequence
    <3>5. /\ \A p \in Range(queue) : p.id < curId
          /\ \A p \in received : p.id < curId
          /\ \A i \in DOMAIN toServer : \A p \in Range(toServer[i]) : p.id < curId
      BY DEF Bookkeeping, PackagesKnown, Known, Range
    <3> QED
      BY <3>1, <3>2, <3>4, <3>5
  <2>5. ASSUME NEW r \in Reqs, SendAccepted(r) PROVE OrderKept'
    <3> DEFINE p == Package(curId, r)
    <3>1. p \in Packages /\ p.id = curId /\ received' = received
      BY <2>4, <2>5 DEF Package, Packages, SendAccepted, peerVars
    <3>2. CASE BufferMsg
      <4>1. queue' = Append(queue, p) /\ toServer' = toServer
        BY <2>5, <3>2 DEF SendAccepted
      <4> HIDE DEF p
      <4>2. /\ DOMAIN queue' = 1..Len(queue) + 1 /\ DOMAIN queue = 1..Len(queue)
            /\ Len(queue) \in Nat /\ queue'[Len(queue) + 1] = p
            /\ \A i \in DOMAIN queue : queue'[i] = queue[i]
        BY <2>4, <3>1, <4>1, AppendProperties
      <4>3. \A q \in Range(queue') : q \in Range(queue) \/ q = p
        BY <4>2 DEF Range
      <4>4. Ascending(queue')
        <5> SUFFICES ASSUME NEW a \in DOMAIN queue', NEW b \in DOMAIN queue', a < b
                     PROVE  queue'[a].id < queue'[b].id
          BY DEF Ascending
        <5>1. a \in DOMAIN queue /\ queue[a] \in Range(queue)
          BY <4>2 DEF Range
        <5>2. CASE b \in DOMAIN queue
          BY <4>2, <5>1, <5>2 DEF OrderKept, Ascending
        <5>3. CASE b = Len(queue) + 1
          BY <2>4, <3>1, <4>2, <5>1, <5>3
        <5> QED
          BY <4>2, <5>2, <5>3
      <4>5. \A S : Before(S, Range(queue)) /\ (\A q \in S : q.id < curId)
                   => Before(S, Range(queue'))
        BY <3>1, <4>3 DEF Before
      <4> QED
        BY <2>4, <3>1, <3>2, <4>1, <4>4, <4>5 DEF OrderKept
    <3>3. CASE ~BufferMsg
      <4>1. SendMessage(<<p>>) /\ queue' = queue /\ queue = <<>>
        BY <2>5, <3>3 DEF SendAccepted, OrderKept
      <4> HIDE DEF p
      <4>2. <<p>> \in Seq(Packages) /\ Range(<<p>>) = {p} /\ Ascending(<<p>>)
        BY <3>1 DEF Range, Ascending
      <4>3. /\ Before(received, {p})
            /\ \A i \in DOMAIN toServer : Before(Range(toServer[i]), {p})
        BY <2>4, <3>1 DEF Before
      <4> QED
        BY <3>1, <4>1, <4>2, <4>3, OrderWritten
    <3> QED
      BY <3>2, <3>3
  <2>6. CASE Flush
    <3>1. SendMessage(queue) /\ queue' = <<>> /\ received' = received
      BY <2>6 DEF Flush, peerVars
    <3> QED
      BY <2>4, <3>1, OrderWritten DEF OrderKept
  <2>7. CASE PeerReceives
    <3>1. /\ toServer # <<>> /\ received' = received \cup Range(Head(toServer))
          /\ toServer' = Tail(toServer) /\ queue' = queue
      BY <2>7 DEF PeerReceives, sendVars
    <3>2. /\ 1 \in DOMAIN toServer /\ Head(toServer) = toServer[1]
          /\ \A i \in DOMAIN toServer' : /\ i + 1 \in DOMAIN toServer /\ toServer'[i] = toServer[i + 1]
                                         /\ i \in Nat /\ 1 < i + 1
      BY <2>4, <3>1, HeadTailProperties
    <3>3. \A i, j \in DOMAIN toServer' : i < j => Before(Range(toServer'[i]), Range(toServer'[j]))
      <4> SUFFICES ASSUME NEW i \in DOMAIN toServer', NEW j \in DOMAIN toServer', i < j
                   PROVE  Before(Range(toServer'[i]), Range(toServer'[j]))
        OBVIOUS
      <4>1. i + 1 < j + 1
        BY <3>2
      <4> QED
        BY <3>2, <4>1 DEF OrderKept
    <3>4. \A i \in DOMAIN toServer' : Before(received', Range(toServer'[i]))
      BY <3>1, <3>2 DEF OrderKept, Before
    <3>5. Before(received', Range(queue'))
      BY <3>1, <3>2 DEF OrderKept, Before
    <3> QED
      BY <3>1, <3>2, <3>3, <3>4, <3>5 DEF OrderKept
  <2>8. CASE UNCHANGED vars
    BY <2>1, <2>8 DEF vars
  <2> QED
    BY <2>2, <2>3, <2>5, <2>6, <2>7, <2>8 DEF Next
<1>3. TypeOK /\ OrderKept => WireInOrder
  BY OrderOnTheWire
<1> QED
  BY <1>1, <1>2, <1>3, TypeCorrect, BookkeepingCorrect, PTL DEF Spec
-----------------------------------------------------------------------------
(* The package of a request.                                               *)

\* A request that was sent or refused stays so: a callback leaves requests only
\* with a verdict.
LEMMA StaysSent ==
  ASSUME TypeOK, Bookkeeping, [Next]_vars, NEW r \in Reqs, ~Unsent(r)
  PROVE  ~Unsent(r)'
<1>1. /\ verdicts \in [Reqs -> Seq(Outcomes)] /\ timeout = requests
      /\ r \in Range(requests) => \E id \in DOMAIN requests : requests[id] = r
  BY DEF TypeOK, Bookkeeping, TimerPerRequest, Range
<1>2. CASE UNCHANGED <<requests, verdicts>>
  BY <1>2 DEF Unsent
<1>3. CASE Connect \/ OnConnection \/ OnClose \/ Close \/ OnError \/ Flush \/ PeerReceives
           \/ UNCHANGED vars
  BY <1>2, <1>3 DEF Connect, OnConnection, OnClose, Close, OnError, Flush, PeerReceives, vars,
                    sendVars, callVars
<1>4. ASSUME NEW batch, PeerReplies(batch) PROVE ~Unsent(r)'
  BY <1>2, <1>4 DEF PeerReplies, sendVars, callVars
<1>5. ASSUME NEW s \in Reqs, SendRefused(s) PROVE ~Unsent(r)'
  <2>1. /\ requests' = requests /\ verdicts[s] = <<>>
        /\ r # s => verdicts'[r] = verdicts[r]
        /\ verdicts'[s] = Append(verdicts[s], Outcome("refused", s))
    BY <1>1, <1>5 DEF SendRefused, Unsent, sendVars
  <2>2. verdicts'[s] # <<>>
    BY <2>1
  <2> QED
    BY <2>1, <2>2 DEF Unsent
<1>6. ASSUME NEW s \in Reqs, SendAccepted(s) PROVE ~Unsent(r)'
  <2>1. verdicts' = verdicts /\ requests' = Store(requests, curId, s) /\ curId \notin DOMAIN requests
    BY <1>6 DEF SendAccepted, callVars, TypeOK, NumberMap
  <2>2. \A id \in DOMAIN requests : id \in DOMAIN requests' /\ requests'[id] = requests[id]
    BY <2>1 DEF Store
  <2> QED
    BY <1>1, <2>1, <2>2 DEF Unsent, Range
<1>7. ASSUME OnMessage PROVE ~Unsent(r)'
  <2> DEFINE ids == {p.id : p \in Range(Head(toClient))}
             hits == ids \cap DOMAIN requests
             said(id) == Append(verdicts[r], Outcome("response", ResponseTo(Head(toClient), id).msg))
  <2>1. /\ requests' = Forget(hits)
        /\ verdicts'[r] = IF \E id \in hits : requests[id] = r
                          THEN said(CHOOSE i \in hits : requests[i] = r)
                          ELSE verdicts[r]
    BY <1>7 DEF OnMessage
  <2> HIDE DEF ids
  <2>2. \A id : said(id) # <<>>
    BY <1>1
  <2> HIDE DEF said
  <2>3. verdicts[r] # <<>> => verdicts'[r] # <<>>
    BY <2>1, <2>2
  <2>4. ASSUME NEW id \in DOMAIN requests, requests[id] = r PROVE ~Unsent(r)'
    <3>1. CASE id \in hits
      BY <2>1, <2>2, <2>4, <3>1 DEF Unsent
    <3>2. CASE id \notin hits
      <4>1. id \in DOMAIN requests' /\ requests'[id] = requests[id]
        BY <2>1, <3>2 DEF Forget, Delete, Restrict
      <4> QED
        BY <2>4, <4>1 DEF Unsent, Range
    <3> QED
      BY <3>1, <3>2
  <2> QED
    BY <1>1, <2>3, <2>4 DEF Unsent
<1>8. ASSUME NEW id \in DOMAIN timeout, CbTimeout(id) PROVE ~Unsent(r)'
  <2> DEFINE s == timeout[id]
  <2>1. /\ s \in Reqs /\ s = requests[id]
        /\ requests' = Forget({id})
        /\ verdicts'[s] = Append(verdicts[s], Outcome("timeout", s))
        /\ r # s => verdicts'[r] = verdicts[r]
    BY <1>1, <1>8 DEF CbTimeout, TypeOK, NumberMap
  <2> HIDE DEF s
  <2>2. verdicts'[s] # <<>>
    BY <1>1, <2>1
  <2>3. ASSUME NEW i \in DOMAIN requests, requests[i] = r, r # s PROVE r \in Range(requests')
    <3>1. i # id
      BY <2>1, <2>3
    <3>2. i \in DOMAIN requests' /\ requests'[i] = requests[i]
      BY <2>1, <3>1 DEF Forget, Delete, Restrict
    <3> QED
      BY <2>3, <3>2 DEF Range
  <2> QED
    BY <1>1, <2>1, <2>2, <2>3 DEF Unsent
<1> QED
  BY <1>3, <1>4, <1>5, <1>6, <1>7, <1>8 DEF Next

\* The packages written so far, wherever they are, except those lost with a socket.
Packaged == received \cup Range(queue) \cup UNION {Range(toServer[i]) : i \in DOMAIN toServer}

\* A request has one package at most, and none before send() took it on.
OnePackageEach ==
  /\ \A p \in Packaged : ~Unsent(p.msg)
  /\ \A p, q \in Packaged : p.msg = q.msg => p = q

LEMMA PackagedSteps ==
  ASSUME TypeOK, [Next]_vars
  PROVE  \/ Packaged' \subseteq Packaged
         \/ \E r \in Reqs : SendAccepted(r) /\ Packaged' \subseteq Packaged \cup {Package(curId, r)}
<1>1. queue \in Seq(Packages) /\ toServer \in Seq(Seq(Packages))
  BY DEF TypeOK
<1>2. ASSUME UNCHANGED <<queue, toServer, received>> PROVE Packaged' \subseteq Packaged
  BY <1>2 DEF Packaged
<1>3. CASE Connect \/ OnConnection \/ OnClose \/ Close \/ OnError \/ OnMessage \/ UNCHANGED vars
  BY <1>2, <1>3 DEF Connect, OnConnection, OnClose, Close, OnError, OnMessage, vars, sendVars,
                    peerVars
<1>4. ASSUME NEW r, NEW batch, NEW id, SendRefused(r) \/ PeerReplies(batch) \/ CbTimeout(id)
      PROVE  Packaged' \subseteq Packaged
  BY <1>2, <1>4 DEF SendRefused, PeerReplies, CbTimeout, sendVars, peerVars
<1>5. ASSUME NEW message \in Seq(Packages), SendMessage(message)
      PROVE  \A i \in DOMAIN toServer' : \/ i \in DOMAIN toServer /\ toServer'[i] = toServer[i]
                                         \/ toServer'[i] = message
  <2>1. CASE toServer' = toServer
    BY <2>1
  <2>2. CASE toServer' = Append(toServer, message)
    BY <1>1, <2>2, AppendElements
  <2> QED
    BY <1>5, <2>1, <2>2 DEF SendMessage
<1>6. ASSUME NEW r \in Reqs, SendAccepted(r)
      PROVE  Packaged' \subseteq Packaged \cup {Package(curId, r)}
  <2> DEFINE p == Package(curId, r)
  <2>1. p \in Packages /\ received' = received
    BY <1>6 DEF TypeOK, Package, Packages, SendAccepted, peerVars
  <2>2. CASE BufferMsg
    <3>1. queue' = Append(queue, p) /\ toServer' = toServer
      BY <1>6, <2>2 DEF SendAccepted
    <3> HIDE DEF p
    <3>2. Range(queue') \subseteq Range(queue) \cup {p}
      BY <1>1, <2>1, <3>1, AppendElements DEF Range
    <3> QED
      BY <2>1, <3>1, <3>2 DEF Packaged, p
  <2>3. CASE ~BufferMsg
    <3>1. queue' = queue /\ SendMessage(<<p>>)
      BY <1>6, <2>3 DEF SendAccepted
    <3> HIDE DEF p
    <3>2. <<p>> \in Seq(Packages) /\ Range(<<p>>) = {p}
      BY <2>1 DEF Range
    <3>3. \A i \in DOMAIN toServer' : \/ i \in DOMAIN toServer /\ toServer'[i] = toServer[i]
                                      \/ toServer'[i] = <<p>>
      BY <1>5, <3>1, <3>2
    <3> QED
      BY <2>1, <3>1, <3>2, <3>3 DEF Packaged, p
  <2> QED
    BY <2>2, <2>3
<1>7. ASSUME Flush PROVE Packaged' \subseteq Packaged
  <2>1. SendMessage(queue) /\ queue' = <<>> /\ received' = received
    BY <1>7 DEF Flush, peerVars
  <2>2. Range(queue') = {}
    BY <2>1 DEF Range
  <2>3. \A i \in DOMAIN toServer' : \/ i \in DOMAIN toServer /\ toServer'[i] = toServer[i]
                                    \/ toServer'[i] = queue
    BY <1>1, <1>5, <2>1
  <2> QED
    BY <2>1, <2>2, <2>3 DEF Packaged
<1>8. ASSUME PeerReceives PROVE Packaged' \subseteq Packaged
  <2>1. /\ toServer # <<>> /\ received' = received \cup Range(Head(toServer))
        /\ toServer' = Tail(toServer) /\ queue' = queue
    BY <1>8 DEF PeerReceives, sendVars
  <2>2. /\ 1 \in DOMAIN toServer /\ Head(toServer) = toServer[1]
        /\ \A i \in DOMAIN toServer' : i + 1 \in DOMAIN toServer /\ toServer'[i] = toServer[i + 1]
    BY <1>1, <2>1, HeadTailProperties
  <2> QED
    BY <2>1, <2>2 DEF Packaged
<1> QED
  BY <1>3, <1>4, <1>6, <1>7, <1>8 DEF Next

\* No request is ever in two packages.
THEOREM PackagesCorrect == Spec => []OnePackageEach
<1>1. Init => OnePackageEach
  BY DEF Init, OnePackageEach, Packaged, Range
<1>2. TypeOK /\ Bookkeeping /\ OnePackageEach /\ [Next]_vars => OnePackageEach'
  <2> SUFFICES ASSUME TypeOK, Bookkeeping, OnePackageEach, [Next]_vars PROVE OnePackageEach'
    OBVIOUS
  <2>1. Packaged \subseteq Packages
    <3>1. queue \in Seq(Packages) /\ toServer \in Seq(Seq(Packages)) /\ received \subseteq Packages
      BY DEF TypeOK
    <3>2. \A i \in DOMAIN toServer : Range(toServer[i]) \subseteq Packages
      BY <3>1, RangeOfSequence
    <3>3. Range(queue) \subseteq Packages
      BY <3>1, RangeOfSequence
    <3> QED
      BY <3>1, <3>2, <3>3 DEF Packaged
  <2>2. \A p \in Packaged : p.msg \in Reqs /\ ~Unsent(p.msg)'
    BY <2>1, StaysSent DEF OnePackageEach, Packages
  <2>3. CASE Packaged' \subseteq Packaged
    BY <2>2, <2>3 DEF OnePackageEach
  <2>4. ASSUME NEW r \in Reqs, SendAccepted(r), Packaged' \subseteq Packaged \cup {Package(curId, r)}
        PROVE  OnePackageEach'
    <3>1. Package(curId, r).msg = r /\ Unsent(r)
      BY <2>4 DEF Package, SendAccepted
    <3>2. r \in Range(requests')
      <4>1. requests' = Store(requests, curId, r)
        BY <2>4 DEF SendAccepted
      <4>2. curId \in DOMAIN requests' /\ requests'[curId] = r
        BY <4>1 DEF Store
      <4> QED
        BY <4>2 DEF Range
    <3>3. ~Unsent(r)'
      BY <3>2 DEF Unsent
    <3>4. \A p \in Packaged : p.msg # r
      BY <3>1 DEF OnePackageEach
    <3> QED
      BY <2>2, <2>4, <3>1, <3>3, <3>4 DEF OnePackageEach
  <2> QED
    BY <2>3, <2>4, PackagedSteps
<1> QED
  BY <1>1, <1>2, TypeCorrect, BookkeepingCorrect, PTL DEF Spec


=============================================================================
