-------------------------- MODULE MailStationProofs --------------------------
(***************************************************************************)
(* Theorems about MailStation, for every number of servers, requests and   *)
(* mailboxes, every size of the pending queues, every transport unless the *)
(* theorem names one, and with and without asynchronous filters.           *)
(***************************************************************************)
EXTENDS MailStation, FiniteSetTheorems, SequenceTheorems, TLAPS

\* The elements of a sequence over S are in S.
LEMMA RangeOfSequence ==
  ASSUME NEW S, NEW q \in Seq(S)
  PROVE  Range(q) \subseteq S
  BY DEF Range

\* The room left in a pending queue of length len.
LEMMA RoomFacts ==
  ASSUME NEW size \in Nat, NEW len \in Nat, len <= size + 1
  PROVE  /\ size + 1 - len \in Nat
         /\ len + (size + 1 - len) = size + 1
         /\ ~(len <= size + 1 - len) => size + 1 - len < len
  OBVIOUS

\* Closing a mailbox changes nothing but its flags and its socket.
LEMMA ShutFacts ==
  ASSUME NEW b \in Boxes
  PROVE  /\ Shut(b) \in Boxes
         /\ Shut(b).server = b.server
         /\ Shut(b).inflight = b.inflight
         /\ Shut(b).closed
         /\ Shut(b).sock = IF b.closed THEN b.sock ELSE AfterSocketClose(b.sock)
<1>1. \A sock \in SocketStates : AfterSocketClose(sock) \in SocketStates
  BY DEF SocketStates, AfterSocketClose, EndsAtOnce
<1>2. CASE b.closed
  BY <1>2 DEF Shut
<1>3. CASE ~b.closed
  BY <1>1, <1>3 DEF Shut, Boxes
<1> QED
  BY <1>2, <1>3

\* The registered mailboxes exist.
LEMMA RegisteredExist ==
  ASSUME TypeOK
  PROVE  Registered \subseteq DOMAIN boxes
  BY DEF TypeOK, Registered, Range, NoBox

\* The mailbox registered for a server exists.
LEMMA MailboxExists ==
  ASSUME TypeOK
  PROVE  \A s \in Servers : mailboxes[s] # NoBox => mailboxes[s] \in DOMAIN boxes
<1>1. mailboxes \in [Servers -> 0..Len(boxes)] /\ DOMAIN boxes = 1..Len(boxes) /\ Len(boxes) \in Nat
  BY DEF TypeOK
<1> QED
  BY <1>1 DEF NoBox

\* Closing a set of mailboxes.
LEMMA CloseBoxesFacts ==
  ASSUME TypeOK, NEW S \in SUBSET DOMAIN boxes, CloseBoxes(S)
  PROVE  /\ boxes' \in Seq(Boxes) /\ Len(boxes') = Len(boxes)
         /\ called' \subseteq Reqs
         /\ \A b \in DOMAIN boxes : boxes'[b] = IF b \in S THEN Shut(boxes[b]) ELSE boxes[b]
<1>1. boxes \in Seq(Boxes) /\ DOMAIN boxes = 1..Len(boxes) /\ Len(boxes) \in Nat
  BY DEF TypeOK
<1>2. boxes' = [b \in 1..Len(boxes) |-> IF b \in S THEN Shut(boxes[b]) ELSE boxes[b]]
  BY <1>1 DEF CloseBoxes
<1>3. \A b \in 1..Len(boxes) : boxes'[b] \in Boxes
  BY <1>1, <1>2, ShutFacts
<1>4. boxes' \in Seq(Boxes) /\ Len(boxes') = Len(boxes)
  BY <1>1, <1>2, <1>3, IsASeq
<1>5. called' \subseteq Reqs
  <2>1. \A b \in DOMAIN boxes : boxes[b].inflight \subseteq Reqs
    <3>1. \A b \in DOMAIN boxes : boxes[b] \in Boxes
      BY <1>1
    <3> QED
      BY <3>1 DEF Boxes
  <2>2. EndWithin(S) \subseteq DOMAIN boxes
    BY DEF EndWithin
  <2> QED
    BY <2>1, <2>2 DEF TypeOK, CloseBoxes
<1> QED
  BY <1>1, <1>2, <1>4, <1>5

\* Two states of a mailbox that differ at most in the requests it holds.
SameButRequests(b, c) ==
  /\ b.sock = c.sock /\ b.server = c.server /\ b.listening = c.listening
  /\ b.connected = c.connected /\ b.closed = c.closed

\* Handing requests to a mailbox.
LEMMA SendAllFacts ==
  ASSUME TypeOK, NEW queue \in Seq(Reqs), NEW bxs \in Seq(Boxes), NEW b \in DOMAIN bxs,
         SendAll(queue, b, bxs)
  PROVE  /\ boxes' \in Seq(Boxes) /\ Len(boxes') = Len(bxs)
         /\ \A c \in DOMAIN bxs : SameButRequests(boxes'[c], bxs[c])
         /\ called' \subseteq Reqs
         /\ sent' \in [Reqs -> Nat]
<1>1. Range(queue) \subseteq Reqs
  BY RangeOfSequence
<1>2. \A r \in Reqs : Cardinality({i \in DOMAIN queue : queue[i] = r}) \in Nat
  <2>1. DOMAIN queue = 1..Len(queue) /\ Len(queue) \in Nat
    OBVIOUS
  <2>2. IsFiniteSet(DOMAIN queue)
    BY <2>1, FS_Interval
  <2> QED
    BY <2>2, FS_Subset, FS_CardinalityType
<1>3. sent' \in [Reqs -> Nat]
  <2> DEFINE times(r) == Cardinality({i \in DOMAIN queue : queue[i] = r})
  <2>1. sent' = [r \in Reqs |-> sent[r] + times(r)]
    BY DEF SendAll
  <2>2. \A r \in Reqs : sent[r] \in Nat /\ times(r) \in Nat
    BY <1>2 DEF TypeOK
  <2> HIDE DEF times
  <2> QED
    BY <2>1, <2>2
<1>4. CASE Usable(bxs[b])
  <2> DEFINE after == Holding(bxs[b], Range(queue))
  <2>1. boxes' = [bxs EXCEPT ![b] = after]
    BY <1>4 DEF SendAll
  <2>2. bxs[b] \in Boxes
    OBVIOUS
  <2>3. after \in Boxes /\ SameButRequests(after, bxs[b])
    BY <1>1, <2>2 DEF Boxes, Holding, SameButRequests
  <2> HIDE DEF after
  <2>4. boxes' \in Seq(Boxes) /\ Len(boxes') = Len(bxs)
    BY <2>1, <2>3
  <2>5. \A c \in DOMAIN bxs : SameButRequests(boxes'[c], bxs[c])
    BY <2>1, <2>3 DEF SameButRequests
  <2> QED
    BY <1>3, <1>4, <2>4, <2>5 DEF TypeOK, SendAll
<1>5. CASE ~Usable(bxs[b])
  BY <1>1, <1>3, <1>5 DEF TypeOK, SendAll, SameButRequests
<1> QED
  BY <1>4, <1>5

\* A new mailbox.
LEMMA NewBoxFacts ==
  ASSUME NEW s \in Servers, NEW r \in Reqs
  PROVE  NewBox(s, r) \in Boxes
  BY DEF NewBox, Boxes, SocketStates

\* A mailbox after an event of its socket.
LEMMA EventFacts ==
  ASSUME NEW b \in Boxes
  PROVE  /\ Opened(b).listening /\ Opened(b).connected
         /\ Opened(b) \in Boxes /\ Failed(b) \in Boxes /\ Ended(b) \in Boxes
         /\ Opened(b).server = b.server /\ Failed(b).server = b.server
         /\ Ended(b).server = b.server
         /\ Opened(b).closed = b.closed /\ Ended(b).closed = b.closed
         /\ Opened(b).sock = IF b.closed THEN "closing" ELSE "open"
         /\ Failed(b).sock = AfterSocketError /\ Ended(b).sock = "dead"
  BY DEF Opened, Failed, Ended, Boxes, SocketStates, AfterSocketError

\* The end of a mailbox closes at most the registered one.
LEMMA EndedFacts ==
  ASSUME TypeOK, NEW b \in DOMAIN boxes, MailboxEnded(b)
  PROVE  /\ boxes' \in Seq(Boxes) /\ Len(boxes') = Len(boxes)
         /\ called' \subseteq Reqs
         /\ \A c \in DOMAIN boxes : \/ boxes'[c] = boxes[c] \/ boxes'[c] = Ended(boxes[c])
                                   \/ boxes'[c] = Shut(boxes[c])
                                   \/ boxes'[c] = Shut(Ended(boxes[c]))
         /\ boxes'[b] = Ended(boxes[b]) \/ boxes'[b] = Shut(Ended(boxes[b]))
<1> DEFINE s == boxes[b].server
           other == IF boxes[b].listening THEN {mailboxes[s]} \ {NoBox} ELSE {}
           ended == [boxes EXCEPT ![b] = Ended(@)]
<1>1. /\ DOMAIN boxes = 1..Len(boxes) /\ Len(boxes) \in Nat
      /\ \A c \in DOMAIN boxes : boxes[c] \in Boxes
  BY DEF TypeOK
<1>2. boxes[b].server \in Servers
  BY <1>1 DEF Boxes
<1>3. other \subseteq DOMAIN boxes
  BY <1>2 DEF TypeOK, NoBox
<1>4. /\ DOMAIN ended = DOMAIN boxes
      /\ \A c \in DOMAIN boxes : ended[c] = IF c = b THEN Ended(boxes[c]) ELSE boxes[c]
      /\ \A c \in DOMAIN boxes : ended[c] \in Boxes
  BY <1>1, EventFacts
<1>5. boxes' = [c \in 1..Len(boxes) |-> IF c \in other THEN Shut(ended[c]) ELSE ended[c]]
  BY <1>1 DEF MailboxEnded
<1>6. called' = called \cup boxes[b].inflight
                       \cup UNION {boxes[c].inflight : c \in EndWithin(other \ {b})}
  BY DEF MailboxEnded
<1> HIDE DEF other, ended
<1>7. \A c \in 1..Len(boxes) : boxes'[c] \in Boxes
  BY <1>1, <1>4, <1>5, ShutFacts
<1>8. boxes' \in Seq(Boxes) /\ Len(boxes') = Len(boxes)
  BY <1>1, <1>5, <1>7, IsASeq
<1>9. called' \subseteq Reqs
  <2>1. \A c \in DOMAIN boxes : boxes[c].inflight \subseteq Reqs
    BY <1>1 DEF Boxes
  <2>2. EndWithin(other \ {b}) \subseteq DOMAIN boxes
    BY <1>3 DEF EndWithin
  <2> QED
    BY <1>6, <2>1, <2>2 DEF TypeOK
<1> QED
  BY <1>1, <1>4, <1>5, <1>8, <1>9

\* The lists of replaceServers().
LEMMA ListFacts ==
  ASSUME NEW list \in Lists
  PROVE  list \in Seq(Servers) /\ Range(list) \subseteq Servers /\ IsInjective(list)
<1>1. PICK n \in 0..Cardinality(Servers) : list \in [1..n -> Servers] /\ IsInjective(list)
  BY DEF Lists
<1>2. n \in Nat
  OBVIOUS
<1> QED
  BY <1>1, <1>2, IsASeq DEF Range

\* Removing a server from a list: the list stays without duplicates and loses
\* that server only.
LEMMA SpliceFacts ==
  ASSUME NEW list \in Seq(Servers), NEW s \in Servers
  PROVE  /\ Splice(list, s) \in Seq(Servers)
         /\ IsInjective(list) => /\ IsInjective(Splice(list, s))
                                 /\ Range(Splice(list, s)) = Range(list) \ {s}
<1>1. CASE s \notin Range(list)
  BY <1>1 DEF Splice
<1>2. CASE s \in Range(list)
  <2> DEFINE index == CHOOSE i \in DOMAIN list : list[i] = s
             before == SubSeq(list, 1, index - 1)
             after == SubSeq(list, index + 1, Len(list))
             rest == before \o after
  <2>1. Splice(list, s) = rest
    BY <1>2 DEF Splice
  <2>2. index \in 1..Len(list) /\ list[index] = s /\ Len(list) \in Nat
    BY <1>2 DEF Range
  <2> HIDE DEF index
  <2>3. /\ before \in Seq(Servers) /\ Len(before) = index - 1
        /\ \A i \in 1..index - 1 : before[i] = list[i]
    <3>1. index - 1 \in 0..Len(list) /\ \A i \in 1..index - 1 : list[i] \in Servers
      BY <2>2
    <3> QED
      BY <2>2, <3>1
  <2>4. /\ after \in Seq(Servers) /\ Len(after) = Len(list) - index
        /\ \A i \in 1..Len(list) - index : after[i] = list[index + i]
    BY <2>2
  <2> HIDE DEF before, after
  <2>5. /\ rest \in Seq(Servers) /\ Len(rest) = Len(list) - 1
        /\ \A i \in 1..Len(list) - 1 :
             rest[i] = IF i < index THEN list[i] ELSE list[i + 1]
    <3>1. /\ rest \in Seq(Servers) /\ Len(rest) = Len(before) + Len(after)
          /\ \A i \in 1..Len(before) + Len(after) :
               rest[i] = IF i <= Len(before) THEN before[i] ELSE after[i - Len(before)]
      BY <2>3, <2>4, ConcatProperties
    <3> HIDE DEF rest
    <3>2. Len(before) + Len(after) = Len(list) - 1
      BY <2>2, <2>3, <2>4
    <3>3. ASSUME NEW i \in 1..Len(list) - 1, i < index PROVE rest[i] = list[i]
      BY <2>2, <2>3, <3>1, <3>2, <3>3
    <3>4. ASSUME NEW i \in 1..Len(list) - 1, ~(i < index) PROVE rest[i] = list[i + 1]
      <4>1. /\ ~(i <= Len(before)) /\ i - Len(before) \in 1..Len(list) - index
            /\ index + (i - Len(before)) = i + 1
        BY <2>2, <2>3, <3>4
      <4>2. rest[i] = after[i - Len(before)]
        BY <3>1, <3>2, <4>1
      <4> QED
        BY <2>4, <4>1, <4>2
    <3> QED
      BY <3>1, <3>2, <3>3, <3>4
  <2> HIDE DEF rest
  <2>6. ASSUME IsInjective(list)
        PROVE  IsInjective(rest) /\ Range(rest) = Range(list) \ {s}
    <3>1. \A i, j \in 1..Len(list) : list[i] = list[j] => i = j
      BY <2>6 DEF IsInjective
    <3>2. DOMAIN rest = 1..Len(list) - 1 /\ DOMAIN list = 1..Len(list)
      BY <2>2, <2>5
    <3>3. IsInjective(rest)
      BY <2>2, <2>5, <3>1, <3>2 DEF IsInjective
    <3>4. ASSUME NEW t \in Range(rest) PROVE t \in Range(list) \ {s}
      <4>1. PICK i \in 1..Len(list) - 1 : rest[i] = t
        BY <3>2, <3>4 DEF Range
      <4>2. PICK j \in 1..Len(list) : list[j] = t /\ j # index
        BY <2>2, <2>5, <4>1
      <4> QED
        BY <2>2, <3>1, <3>2, <4>2 DEF Range
    <3>5. ASSUME NEW t \in Range(list) \ {s} PROVE t \in Range(rest)
      <4>1. PICK j \in 1..Len(list) : list[j] = t /\ j # index
        BY <2>2, <3>2, <3>5 DEF Range
      <4>2. PICK i \in 1..Len(list) - 1 : rest[i] = t
        <5>1. CASE j < index
          BY <2>2, <2>5, <4>1, <5>1
        <5>2. CASE j > index
          <6>1. j - 1 \in 1..Len(list) - 1 /\ ~(j - 1 < index) /\ (j - 1) + 1 = j
            BY <2>2, <4>1, <5>2
          <6>2. rest[j - 1] = t
            BY <2>5, <4>1, <6>1
          <6> QED
            BY <6>1, <6>2
        <5> QED
          BY <2>2, <4>1, <5>1, <5>2
      <4> QED
        BY <3>2, <4>2 DEF Range
    <3> QED
      BY <3>3, <3>4, <3>5
  <2> QED
    BY <2>1, <2>5, <2>6
<1> QED
  BY <1>1, <1>2

\* Every case of flushPending() keeps the types.
LEMMA FlushTypes ==
  ASSUME TypeOK, PendingBounded, NEW s \in Servers, NEW bxs \in Seq(Boxes),
         Len(bxs) = Len(boxes), FlushPending(s, bxs)
  PROVE  /\ boxes' \in Seq(Boxes) /\ mailboxes' \in [Servers -> 0..Len(boxes')]
         /\ connecting' \subseteq Servers /\ pendings' \in [Servers -> Seq(Reqs)]
         /\ filtering' \subseteq Reqs \X Servers
         /\ called' \subseteq Reqs /\ thrown' \subseteq Reqs /\ sent' \in [Reqs -> Nat]
<1> DEFINE queue == pendings[s]
           room == PendingSize + 1 - Len(queue)
<1> USE MailStationAssumption
<1>1. /\ queue \in Seq(Reqs) /\ Range(queue) \subseteq Reqs
      /\ ForgetPending(s) \in [Servers -> Seq(Reqs)]
      /\ Len(bxs) \in Nat /\ mailboxes \in [Servers -> 0..Len(bxs)]
  BY RangeOfSequence DEF TypeOK, ForgetPending
<1>2. CASE FlushNothing(s, bxs)
  BY <1>1, <1>2 DEF FlushNothing, TypeOK
<1>3. CASE FlushRefused(s, bxs)
  BY <1>1, <1>3 DEF FlushRefused, TypeOK
<1>4. CASE FlushSend(s, bxs)
  <2>1. CASE AsyncFilter
    BY <1>1, <1>4, <2>1 DEF FlushSend, TypeOK
  <2>2. CASE ~AsyncFilter
    <3>1. mailboxes[s] \in DOMAIN bxs
      BY <1>1, <1>4 DEF FlushSend, NoBox
    <3>2. SendAll(queue, mailboxes[s], bxs)
      BY <1>4, <2>2 DEF FlushSend
    <3>3. /\ boxes' \in Seq(Boxes) /\ Len(boxes') = Len(bxs)
          /\ called' \subseteq Reqs /\ sent' \in [Reqs -> Nat]
      BY <1>1, <3>1, <3>2, SendAllFacts
    <3> QED
      BY <1>1, <1>4, <2>2, <3>3 DEF FlushSend, TypeOK
  <2> QED
    BY <2>1, <2>2
<1>5. CASE FlushReconnect(s, bxs)
  <2>1. Head(queue) \in Reqs /\ queue # <<>>
    BY <1>1, <1>5 DEF FlushReconnect
  <2>2. boxes' = Append(bxs, NewBox(s, Head(queue)))
    BY <1>5 DEF FlushReconnect
  <2>3. boxes' \in Seq(Boxes) /\ Len(boxes') = Len(bxs) + 1
    BY <2>1, <2>2, NewBoxFacts, AppendProperties
  <2>4. mailboxes' \in [Servers -> 0..Len(boxes')]
    BY <1>1, <1>5, <2>3 DEF FlushReconnect
  <2>5. pendings' \in [Servers -> Seq(Reqs)] /\ thrown' \subseteq Reqs
    <3>1. CASE Len(queue) <= room
      BY <1>1, <1>5, <3>1 DEF FlushReconnect, TypeOK
    <3>2. CASE ~(Len(queue) <= room)
      <4>1. /\ pendings' = [pendings EXCEPT ![s] = queue \o SubSeq(queue, 1, room)]
            /\ thrown' = thrown \cup {queue[room + 1]}
        BY <1>5, <3>2 DEF FlushReconnect
      <4>2. room \in Nat /\ Len(queue) \in Nat /\ room < Len(queue)
        <5>1. PendingSize \in Nat /\ Len(queue) \in Nat /\ Len(queue) <= PendingSize + 1
          BY <1>1 DEF PendingBounded
        <5> QED
          BY <3>2, <5>1, RoomFacts
      <4>3. SubSeq(queue, 1, room) \in Seq(Reqs)
        <5> HIDE DEF room
        <5>1. \A i \in 1..room : queue[i] \in Reqs
          BY <1>1, <4>2
        <5> QED
          BY <4>2, <5>1, SubSeqProperties
      <4>4. queue \o SubSeq(queue, 1, room) \in Seq(Reqs)
        BY <1>1, <4>3, ConcatProperties
      <4>5. queue[room + 1] \in Reqs
        BY <1>1, <4>2, <1>5 DEF FlushReconnect, TypeOK, PendingBounded
      <4> QED
        BY <4>1, <4>4, <4>5 DEF TypeOK
    <3> QED
      BY <3>1, <3>2
  <2> QED
    BY <1>5, <2>3, <2>4, <2>5 DEF FlushReconnect, TypeOK
<1> QED
  BY <1>2, <1>3, <1>4, <1>5 DEF FlushPending

-----------------------------------------------------------------------------
\* Type correctness and the bound on the pending requests, which the types rest
\* on: flushPending() may append to the array it reads, and indexes past it.
TypesAndBound == TypeOK /\ PendingBounded

\* addToPending() keeps the types and the bound.
LEMMA AddToPendingFacts ==
  ASSUME TypesAndBound, NEW r \in Reqs, NEW s \in Servers, AddToPending(r, s)
  PROVE  /\ pendings' \in [Servers -> Seq(Reqs)] /\ thrown' \subseteq Reqs
         /\ PendingBounded'
<1>1. /\ pendings[s] \in Seq(Reqs) /\ Len(pendings[s]) \in Nat
      /\ PendingSize \in Nat
  BY MailStationAssumption DEF TypesAndBound, TypeOK
<1>2. CASE Len(pendings[s]) > PendingSize
  BY <1>2 DEF AddToPending, TypesAndBound, TypeOK, PendingBounded
<1>3. CASE ~(Len(pendings[s]) > PendingSize)
  <2>1. pendings' = [pendings EXCEPT ![s] = Append(pendings[s], r)] /\ thrown' = thrown
    BY <1>3 DEF AddToPending
  <2>2. Append(pendings[s], r) \in Seq(Reqs) /\ Len(Append(pendings[s], r)) <= PendingSize + 1
    BY <1>1, <1>3, AppendProperties
  <2> QED
    BY <2>1, <2>2 DEF TypesAndBound, TypeOK, PendingBounded
<1> QED
  BY <1>2, <1>3

\* dispatch() keeps the types and the bound.
LEMMA DispatchTypes ==
  ASSUME TypesAndBound, NEW r \in Reqs, NEW s \in Servers, Dispatch(r, s)
  PROVE  TypesAndBound'
<1> USE DEF TypesAndBound
<1>1. dispatched' \subseteq Reqs
  BY DEF Dispatch, TypeOK
<1>2. CASE DispatchRefused(r, s)
  BY <1>1, <1>2 DEF DispatchRefused, TypeOK, PendingBounded, lifeVars, infoVars, waitVars
<1>3. CASE DispatchFirst(r, s)
  <2>1. boxes' = Append(boxes, NewBox(s, r))
    BY <1>3 DEF DispatchFirst, LazyConnect
  <2>2. boxes' \in Seq(Boxes) /\ Len(boxes') = Len(boxes) + 1 /\ Len(boxes) \in Nat
    BY <2>1, NewBoxFacts, AppendProperties DEF TypeOK
  <2>3. mailboxes' \in [Servers -> 0..Len(boxes')]
    BY <1>3, <2>2 DEF DispatchFirst, LazyConnect, TypeOK
  <2>4. AddToPending(r, s)
    BY <1>3 DEF DispatchFirst
  <2> QED
    BY <1>1, <1>3, <2>2, <2>3, <2>4, AddToPendingFacts
    DEF DispatchFirst, LazyConnect, TypeOK, lifeVars, infoVars
<1>4. CASE DispatchPending(r, s)
  <2>1. AddToPending(r, s)
    BY <1>4 DEF DispatchPending
  <2> QED
    BY <1>1, <1>4, <2>1, AddToPendingFacts
    DEF DispatchPending, TypeOK, lifeVars, infoVars
<1>5. CASE DispatchSend(r, s)
  <2>1. mailboxes[s] \in DOMAIN boxes /\ boxes \in Seq(Boxes) /\ <<r>> \in Seq(Reqs)
    BY <1>5 DEF DispatchSend, TypeOK, NoBox
  <2>2. SendAll(<<r>>, mailboxes[s], boxes)
    BY <1>5 DEF DispatchSend
  <2>3. /\ boxes' \in Seq(Boxes) /\ Len(boxes') = Len(boxes)
        /\ called' \subseteq Reqs /\ sent' \in [Reqs -> Nat]
    BY <2>1, <2>2, SendAllFacts
  <2> QED
    BY <1>1, <1>5, <2>3 DEF DispatchSend, TypeOK, PendingBounded, lifeVars, infoVars, waitVars
<1>6. CASE DispatchFilter(r, s)
  BY <1>1, <1>6 DEF DispatchFilter, TypeOK, PendingBounded, lifeVars, infoVars
<1> QED
  BY <1>2, <1>3, <1>4, <1>5, <1>6 DEF Dispatch

\* flushPending() keeps the bound.
LEMMA FlushBound ==
  ASSUME TypesAndBound, NEW s \in Servers, NEW bxs, FlushPending(s, bxs)
  PROVE  PendingBounded'
<1> DEFINE queue == pendings[s]
           room == PendingSize + 1 - Len(queue)
<1>1. /\ queue \in Seq(Reqs) /\ Len(queue) \in Nat /\ PendingSize \in Nat
      /\ Len(queue) <= PendingSize + 1
  BY MailStationAssumption DEF TypesAndBound, TypeOK, PendingBounded
<1>2. ASSUME NEW q \in Seq(Reqs), Len(q) <= PendingSize + 1,
             pendings' = [pendings EXCEPT ![s] = q]
      PROVE  PendingBounded'
  BY <1>2 DEF TypesAndBound, TypeOK, PendingBounded
<1>3. ASSUME pendings' = ForgetPending(s)
      PROVE  PendingBounded'
  <2>1. <<>> \in Seq(Reqs) /\ Len(<<>>) <= PendingSize + 1
    BY <1>1
  <2> QED
    BY <1>2, <1>3, <2>1 DEF ForgetPending
<1>4. CASE FlushNothing(s, bxs)
  BY <1>4 DEF FlushNothing, TypesAndBound, PendingBounded
<1>5. CASE FlushRefused(s, bxs)
  BY <1>3, <1>5 DEF FlushRefused
<1>6. CASE FlushSend(s, bxs)
  BY <1>3, <1>6 DEF FlushSend
<1>7. CASE FlushReconnect(s, bxs)
  <2>1. CASE Len(queue) <= room
    BY <1>3, <1>7, <2>1 DEF FlushReconnect
  <2>2. CASE ~(Len(queue) <= room)
    <3>1. pendings' = [pendings EXCEPT ![s] = queue \o SubSeq(queue, 1, room)]
      BY <1>7, <2>2 DEF FlushReconnect
    <3>2. room \in Nat /\ room < Len(queue) /\ Len(queue) + room = PendingSize + 1
      BY <1>1, <2>2, RoomFacts
    <3>3. SubSeq(queue, 1, room) \in Seq(Reqs) /\ Len(SubSeq(queue, 1, room)) = room
      <4> HIDE DEF room
      <4>1. \A i \in 1..room : queue[i] \in Reqs
        BY <1>1, <3>2
      <4> QED
        BY <3>2, <4>1, SubSeqProperties
    <3>4. /\ queue \o SubSeq(queue, 1, room) \in Seq(Reqs)
          /\ Len(queue \o SubSeq(queue, 1, room)) = PendingSize + 1
      <4> HIDE DEF room, queue
      <4> DEFINE more == SubSeq(queue, 1, room)
      <4>1. more \in Seq(Reqs) /\ Len(more) = room
        BY <3>3
      <4> HIDE DEF more
      <4>2. queue \o more \in Seq(Reqs) /\ Len(queue \o more) = Len(queue) + Len(more)
        BY <1>1, <4>1, ConcatProperties
      <4>3. Len(queue \o more) = PendingSize + 1
        BY <3>2, <4>1, <4>2
      <4> QED
        BY <4>2, <4>3 DEF more
    <3> QED
      <4> HIDE DEF room
      <4>1. Len(queue \o SubSeq(queue, 1, room)) <= PendingSize + 1
        BY <1>1, <3>4
      <4> QED
        BY <1>2, <3>1, <3>4, <4>1
  <2> QED
    BY <2>1, <2>2
<1> QED
  BY <1>4, <1>5, <1>6, <1>7 DEF FlushPending

\* Type correctness of the station, and the bound on its pending requests: no
\* server ever has more than pendingSize + 1 of them.
THEOREM TypesAndBoundCorrect == Spec => []TypesAndBound
<1>1. Init => TypesAndBound
  BY MailStationAssumption DEF Init, TypesAndBound, TypeOK, PendingBounded, NoBox
<1>2. TypesAndBound /\ [Next]_vars => TypesAndBound'
  <2> SUFFICES ASSUME TypesAndBound, [Next]_vars PROVE TypesAndBound'
    OBVIOUS
  <2> USE DEF TypesAndBound
  <2>1. CASE Start
    BY <2>1 DEF Start, TypeOK, PendingBounded, infoVars, waitVars
  <2>2. CASE StartTick
    BY <2>2 DEF StartTick, TypeOK, PendingBounded, infoVars, waitVars
  <2>3. ASSUME CloseAll
        PROVE  /\ boxes' \in Seq(Boxes) /\ mailboxes' \in [Servers -> 0..Len(boxes')]
               /\ called' \subseteq Reqs
    <3>1. boxes' \in Seq(Boxes) /\ Len(boxes') = Len(boxes) /\ called' \subseteq Reqs
      BY <2>3, RegisteredExist, CloseBoxesFacts DEF CloseAll
    <3> QED
      BY <2>3, <3>1 DEF CloseAll, TypeOK, NoBox
  <2>4. CASE StopForced
    BY <2>3, <2>4 DEF StopForced, TypeOK, PendingBounded, infoVars, waitVars
  <2>5. CASE StopGracefully
    BY <2>5 DEF StopGracefully, TypeOK, PendingBounded, infoVars, waitVars
  <2>6. CASE GraceTimeout
    BY <2>3, <2>6 DEF GraceTimeout, TypeOK, PendingBounded, infoVars, waitVars
  <2>7. ASSUME NEW s \in Servers, AddServer(s) PROVE TypesAndBound'
    BY <2>7 DEF AddServer, TypeOK, PendingBounded, lifeVars, waitVars
  <2>8. ASSUME NEW s \in Servers, RemoveServer(s) PROVE TypesAndBound'
    <3>1. {mailboxes[s]} \ {NoBox} \subseteq DOMAIN boxes
      BY DEF TypeOK, NoBox
    <3>2. boxes' \in Seq(Boxes) /\ Len(boxes') = Len(boxes) /\ called' \subseteq Reqs
      BY <2>8, <3>1, CloseBoxesFacts DEF RemoveServer
    <3>3. mailboxes' \in [Servers -> 0..Len(boxes')]
      BY <2>8, <3>2 DEF RemoveServer, Unregister, TypeOK, NoBox
    <3>4. serversMap' \in Seq(Servers)
      BY <2>8, SpliceFacts DEF RemoveServer, TypeOK
    <3> QED
      BY <2>8, <3>2, <3>3, <3>4 DEF RemoveServer, TypeOK, PendingBounded, lifeVars, waitVars
  <2>9. ASSUME NEW list \in Lists, ReplaceServers(list) PROVE TypesAndBound'
    <3>1. list \in Seq(Servers) /\ Range(list) \subseteq Servers
      BY ListFacts
    <3> QED
      BY <2>9, <3>1 DEF ReplaceServers, TypeOK, PendingBounded, lifeVars, waitVars
  <2>10. ASSUME NEW r \in Reqs, NEW s \in Servers, Dispatch(r, s) PROVE TypesAndBound'
    BY <2>10, DispatchTypes
  <2>11. ASSUME NEW f \in filtering, NEW target \in {f[2]} \cup FilterTargets,
                FilterDone(f[1], f[2], target)
         PROVE  TypesAndBound'
    <3>1. f[1] \in Reqs /\ target \in Servers
      BY MailStationAssumption DEF TypeOK
    <3>2. /\ boxes' \in Seq(Boxes) /\ Len(boxes') = Len(boxes)
          /\ called' \subseteq Reqs /\ sent' \in [Reqs -> Nat]
      <4>1. CASE mailboxes[target] = NoBox
        BY <2>11, <3>1, <4>1 DEF FilterDone, TypeOK
      <4>2. CASE mailboxes[target] # NoBox
        <5>1. mailboxes[target] \in DOMAIN boxes /\ <<f[1]>> \in Seq(Reqs)
              /\ boxes \in Seq(Boxes)
          BY <3>1, <4>2 DEF TypeOK, NoBox
        <5>2. SendAll(<<f[1]>>, mailboxes[target], boxes)
          BY <2>11, <4>2 DEF FilterDone
        <5> QED
          BY <5>1, <5>2, SendAllFacts
      <4> QED
        BY <4>1, <4>2
    <3> QED
      BY <2>11, <3>2 DEF FilterDone, TypeOK, PendingBounded, lifeVars, infoVars
  <2>12. ASSUME NEW f \in filtering, FilterError(f[1], f[2]) PROVE TypesAndBound'
    BY <2>12 DEF FilterError, TypeOK, PendingBounded, lifeVars, infoVars
  <2>13. ASSUME NEW b \in DOMAIN boxes, MailboxConnected(b) PROVE TypesAndBound'
    <3> DEFINE s == boxes[b].server
               bxs == [boxes EXCEPT ![b] = Opened(@)]
    <3>0. boxes[b] \in Boxes
      BY DEF TypeOK
    <3>1. boxes[b] \in Boxes /\ s \in Servers
      BY <3>0 DEF Boxes
    <3>2. bxs \in Seq(Boxes) /\ Len(bxs) = Len(boxes)
      BY <3>1, EventFacts DEF TypeOK
    <3>3. FlushPending(s, bxs) /\ UNCHANGED <<lifeVars, infoVars, dispatched>>
      BY <2>13 DEF MailboxConnected
    <3> HIDE DEF s, bxs
    <3>4. PendingBounded'
      BY <3>1, <3>3, FlushBound
    <3> QED
      BY <3>1, <3>2, <3>3, <3>4, FlushTypes DEF TypeOK, lifeVars, infoVars
  <2>14. ASSUME NEW b \in DOMAIN boxes, MailboxFailed(b) PROVE TypesAndBound'
    <3>0. boxes[b] \in Boxes
      BY DEF TypeOK
    <3>1. boxes[b] \in Boxes /\ boxes[b].first \in Reqs /\ boxes[b].server \in Servers
      BY <3>0 DEF Boxes
    <3>2. boxes' \in Seq(Boxes) /\ Len(boxes') = Len(boxes)
      BY <2>14, <3>1, EventFacts DEF MailboxFailed, TypeOK
    <3>3. mailboxes' \in [Servers -> 0..Len(boxes')]
      BY <2>14, <3>1, <3>2 DEF MailboxFailed, Unregister, TypeOK, NoBox
    <3> QED
      BY <2>14, <3>1, <3>2, <3>3
      DEF MailboxFailed, TypeOK, PendingBounded, lifeVars, infoVars, waitVars
  <2>15. ASSUME NEW b \in DOMAIN boxes, MailboxEnded(b) PROVE TypesAndBound'
    <3>1. boxes' \in Seq(Boxes) /\ Len(boxes') = Len(boxes) /\ called' \subseteq Reqs
      BY <2>15, EndedFacts
    <3>2. mailboxes' \in [Servers -> 0..Len(boxes')]
      <4>1. boxes[b] \in Boxes
        BY DEF TypeOK
      <4>2. boxes[b].server \in Servers
        BY <4>1 DEF Boxes
      <4>3. mailboxes' = mailboxes \/ mailboxes' = Unregister(boxes[b].server)
        BY <2>15 DEF MailboxEnded
      <4>4. Unregister(boxes[b].server) \in [Servers -> 0..Len(boxes)]
        BY <4>2 DEF Unregister, TypeOK, NoBox
      <4> QED
        BY <3>1, <4>3, <4>4 DEF TypeOK
    <3> QED
      BY <2>15, <3>1, <3>2
      DEF MailboxEnded, TypeOK, PendingBounded, lifeVars, infoVars, waitVars
  <2>16. ASSUME NEW b \in DOMAIN boxes, NEW r \in Reqs, Complete(b, r) PROVE TypesAndBound'
    <3>1. boxes[b] \in Boxes
      BY DEF TypeOK
    <3>2. Without(boxes[b], r) \in Boxes
      BY <3>1 DEF Without, Boxes
    <3>3. boxes' \in Seq(Boxes) /\ Len(boxes') = Len(boxes)
      BY <2>16, <3>2 DEF Complete, TypeOK
    <3> QED
      BY <2>16, <3>3 DEF Complete, TypeOK, PendingBounded, lifeVars, infoVars, waitVars
  <2>17. CASE UNCHANGED vars
    BY <2>17 DEF TypeOK, PendingBounded, vars
  <2> QED
    BY <2>1, <2>2, <2>4, <2>5, <2>6, <2>7, <2>8, <2>9, <2>10, <2>11, <2>12, <2>13, <2>14,
       <2>15, <2>16, <2>17 DEF Next
<1> QED
  BY <1>1, <1>2, PTL DEF Spec

THEOREM TypeCorrect == Spec => []TypeOK
  BY TypesAndBoundCorrect, PTL DEF TypesAndBound

THEOREM PendingsBounded == Spec => []PendingBounded
  BY TypesAndBoundCorrect, PTL DEF TypesAndBound

-----------------------------------------------------------------------------
\* The three views of the server table agree.
THEOREM RoutingTableCorrect == Spec => []RoutingTableConsistent
<1>1. Init => RoutingTableConsistent
  BY DEF Init, RoutingTableConsistent, Range, IsInjective
<1>2. TypeOK /\ RoutingTableConsistent /\ [Next]_vars => RoutingTableConsistent'
  <2> SUFFICES ASSUME TypeOK, RoutingTableConsistent, [Next]_vars
               PROVE  RoutingTableConsistent'
    OBVIOUS
  <2>1. ASSUME UNCHANGED infoVars PROVE RoutingTableConsistent'
    BY <2>1 DEF infoVars, RoutingTableConsistent
  <2>2. serversMap \in Seq(Servers)
    BY DEF TypeOK
  <2>3. ASSUME NEW s \in Servers, AddServer(s) PROVE RoutingTableConsistent'
    <3>1. CASE s \in Range(serversMap)
      BY <2>3, <3>1 DEF AddServer, RoutingTableConsistent
    <3>2. CASE s \notin Range(serversMap)
      <4> DEFINE longer == Append(serversMap, s)
      <4>1. /\ longer \in Seq(Servers) /\ Len(longer) = Len(serversMap) + 1
            /\ \A i \in 1..Len(serversMap) : longer[i] = serversMap[i]
            /\ longer[Len(serversMap) + 1] = s /\ Len(serversMap) \in Nat
        BY <2>2, AppendProperties
      <4> HIDE DEF longer
      <4>2. Range(longer) = Range(serversMap) \cup {s}
        <5>1. DOMAIN longer = 1..Len(serversMap) + 1 /\ DOMAIN serversMap = 1..Len(serversMap)
          BY <2>2, <4>1
        <5> QED
          BY <4>1, <5>1 DEF Range
      <4>3. IsInjective(longer)
        <5>1. \A i, j \in 1..Len(serversMap) : serversMap[i] = serversMap[j] => i = j
          BY <2>2 DEF RoutingTableConsistent, IsInjective
        <5>2. \A i \in 1..Len(serversMap) : serversMap[i] # s
          BY <2>2, <3>2 DEF Range
        <5>3. \A i, j \in 1..Len(serversMap) + 1 : longer[i] = longer[j] => i = j
          BY <4>1, <5>1, <5>2
        <5> QED
          BY <4>1, <5>3 DEF IsInjective
      <4>4. serversMap' = longer
        BY <2>3, <3>2 DEF AddServer, longer
      <4> QED
        BY <2>3, <4>2, <4>3, <4>4 DEF AddServer, RoutingTableConsistent
    <3> QED
      BY <3>1, <3>2
  <2>4. ASSUME NEW s \in Servers, RemoveServer(s) PROVE RoutingTableConsistent'
    BY <2>2, <2>4, SpliceFacts DEF RemoveServer, RoutingTableConsistent
  <2>5. ASSUME NEW list \in Lists, ReplaceServers(list) PROVE RoutingTableConsistent'
    BY <2>5, ListFacts DEF ReplaceServers, RoutingTableConsistent
  <2>6. CASE Start \/ StartTick \/ StopForced \/ StopGracefully \/ GraceTimeout
    BY <2>1, <2>6 DEF Start, StartTick, StopForced, StopGracefully, GraceTimeout
  <2>7. ASSUME NEW r \in Reqs, NEW s \in Servers, Dispatch(r, s) PROVE RoutingTableConsistent'
    BY <2>1, <2>7 DEF Dispatch, DispatchRefused, DispatchFirst, DispatchPending, DispatchSend,
                      DispatchFilter
  <2>8. ASSUME NEW f \in filtering, NEW target, FilterDone(f[1], f[2], target)
        PROVE  RoutingTableConsistent'
    BY <2>1, <2>8 DEF FilterDone
  <2>9. ASSUME NEW f \in filtering, FilterError(f[1], f[2]) PROVE RoutingTableConsistent'
    BY <2>1, <2>9 DEF FilterError
  <2>10. ASSUME NEW b, MailboxConnected(b) \/ MailboxFailed(b) \/ MailboxEnded(b)
         PROVE  RoutingTableConsistent'
    BY <2>1, <2>10 DEF MailboxConnected, MailboxFailed, MailboxEnded
  <2>11. ASSUME NEW b, NEW r, Complete(b, r) PROVE RoutingTableConsistent'
    BY <2>1, <2>11 DEF Complete
  <2>12. CASE UNCHANGED vars
    BY <2>1, <2>12 DEF vars, infoVars
  <2> QED
    BY <2>3, <2>4, <2>5, <2>6, <2>7, <2>8, <2>9, <2>10, <2>11, <2>12 DEF Next
<1> QED
  BY <1>1, <1>2, TypeCorrect, PTL DEF Spec

\* Whatever the transport does, requests are pending only for servers that are
\* marked as connecting.
THEOREM PendingsMarked == Spec => []PendingOnlyWhileConnecting
<1>1. Init => PendingOnlyWhileConnecting
  BY DEF Init, PendingOnlyWhileConnecting
<1>2. TypeOK /\ PendingOnlyWhileConnecting /\ [Next]_vars => PendingOnlyWhileConnecting'
  <2> SUFFICES ASSUME TypeOK, PendingOnlyWhileConnecting, [Next]_vars
               PROVE  PendingOnlyWhileConnecting'
    OBVIOUS
  <2>1. ASSUME UNCHANGED <<connecting, pendings>> PROVE PendingOnlyWhileConnecting'
    BY <2>1 DEF PendingOnlyWhileConnecting
  <2>2. pendings \in [Servers -> Seq(Reqs)]
    BY DEF TypeOK
  <2>3. ASSUME NEW r \in Reqs, NEW s \in Servers, AddToPending(r, s),
               s \in connecting', connecting \subseteq connecting'
        PROVE  PendingOnlyWhileConnecting'
    BY <2>2, <2>3 DEF AddToPending, PendingOnlyWhileConnecting
  <2>4. ASSUME NEW r \in Reqs, NEW s \in Servers, Dispatch(r, s)
        PROVE  PendingOnlyWhileConnecting'
    <3>1. CASE DispatchFirst(r, s)
      BY <2>3, <3>1 DEF DispatchFirst, LazyConnect
    <3>2. CASE DispatchPending(r, s)
      BY <2>3, <3>2 DEF DispatchPending
    <3>3. CASE DispatchRefused(r, s) \/ DispatchSend(r, s) \/ DispatchFilter(r, s)
      BY <2>1, <3>3 DEF DispatchRefused, DispatchSend, DispatchFilter, waitVars
    <3> QED
      BY <2>4, <3>1, <3>2, <3>3 DEF Dispatch
  <2>5. ASSUME NEW s \in Servers, NEW bxs, FlushPending(s, bxs)
        PROVE  PendingOnlyWhileConnecting'
    <3>1. CASE FlushNothing(s, bxs)
      BY <3>1 DEF FlushNothing, PendingOnlyWhileConnecting
    <3>2. CASE FlushRefused(s, bxs) \/ FlushSend(s, bxs)
      <4>1. pendings' = [pendings EXCEPT ![s] = <<>>] /\ connecting' = connecting \ {s}
        BY <3>2 DEF FlushRefused, FlushSend, ForgetPending
      <4> QED
        BY <2>2, <4>1 DEF PendingOnlyWhileConnecting
    <3>3. CASE FlushReconnect(s, bxs)
      <4>1. connecting' = connecting \cup {s}
        BY <3>3 DEF FlushReconnect
      <4>2. \A t \in Servers \ {s} : pendings'[t] = pendings[t]
        BY <2>2, <3>3 DEF FlushReconnect, ForgetPending
      <4> QED
        BY <4>1, <4>2 DEF PendingOnlyWhileConnecting
    <3> QED
      BY <2>5, <3>1, <3>2, <3>3 DEF FlushPending
  <2>6. ASSUME NEW b \in DOMAIN boxes, MailboxConnected(b) PROVE PendingOnlyWhileConnecting'
    <3>1. boxes[b] \in Boxes
      BY DEF TypeOK
    <3>2. boxes[b].server \in Servers
      BY <3>1 DEF Boxes
    <3> QED
      BY <2>5, <2>6, <3>2 DEF MailboxConnected
  <2>7. ASSUME NEW b, MailboxFailed(b) \/ MailboxEnded(b) PROVE PendingOnlyWhileConnecting'
    BY <2>1, <2>7 DEF MailboxFailed, MailboxEnded, waitVars
  <2>8. CASE Start \/ StartTick \/ StopForced \/ StopGracefully \/ GraceTimeout
    BY <2>1, <2>8 DEF Start, StartTick, StopForced, StopGracefully, GraceTimeout, waitVars
  <2>9. ASSUME NEW s, NEW list, AddServer(s) \/ RemoveServer(s) \/ ReplaceServers(list)
        PROVE  PendingOnlyWhileConnecting'
    BY <2>1, <2>9 DEF AddServer, RemoveServer, ReplaceServers, waitVars
  <2>10. ASSUME NEW r, NEW s, NEW target, FilterDone(r, s, target) \/ FilterError(r, s)
         PROVE  PendingOnlyWhileConnecting'
    BY <2>1, <2>10 DEF FilterDone, FilterError
  <2>11. ASSUME NEW b, NEW r, Complete(b, r) PROVE PendingOnlyWhileConnecting'
    BY <2>1, <2>11 DEF Complete, waitVars
  <2>12. CASE UNCHANGED vars
    BY <2>1, <2>12 DEF vars
  <2> QED
    BY <2>4, <2>6, <2>7, <2>8, <2>9, <2>10, <2>11, <2>12 DEF Next
<1> QED
  BY <1>1, <1>2, TypeCorrect, PTL DEF Spec

\* A station that is not running creates no mailbox, whatever still happens.
THEOREM NothingConnects == Spec => NothingConnectsWhenStopped
<1>1. TypeOK /\ [Next]_vars => [state # "started" => Len(boxes') = Len(boxes)]_vars
  <2> SUFFICES ASSUME TypeOK, Next, state # "started"
               PROVE  Len(boxes') = Len(boxes)
    BY DEF vars
  <2>1. boxes \in Seq(Boxes) /\ \A b \in DOMAIN boxes : boxes[b] \in Boxes
    BY DEF TypeOK
  <2>2. CASE StopForced \/ StopGracefully
    BY <2>2 DEF StopForced, StopGracefully
  <2>3. CASE Start \/ StartTick
    BY <2>3 DEF Start, StartTick
  <2>4. CASE GraceTimeout
    BY <2>4, RegisteredExist, CloseBoxesFacts DEF GraceTimeout, CloseAll
  <2>5. ASSUME NEW s \in Servers, RemoveServer(s) PROVE Len(boxes') = Len(boxes)
    <3>1. {mailboxes[s]} \ {NoBox} \subseteq DOMAIN boxes
      BY DEF TypeOK, NoBox
    <3> QED
      BY <2>5, <3>1, CloseBoxesFacts DEF RemoveServer
  <2>6. ASSUME NEW s, NEW list, AddServer(s) \/ ReplaceServers(list)
        PROVE  Len(boxes') = Len(boxes)
    BY <2>6 DEF AddServer, ReplaceServers
  <2>7. ASSUME NEW r, NEW s, Dispatch(r, s) PROVE Len(boxes') = Len(boxes)
    BY <2>7 DEF Dispatch, DispatchRefused, DispatchFirst, DispatchPending, DispatchSend,
                DispatchFilter
  <2>8. ASSUME NEW f \in filtering, NEW target \in {f[2]} \cup FilterTargets,
               FilterDone(f[1], f[2], target)
        PROVE  Len(boxes') = Len(boxes)
    <3>1. target \in Servers /\ <<f[1]>> \in Seq(Reqs)
      <4>1. f \in Reqs \X Servers /\ FilterTargets \subseteq Servers
        BY MailStationAssumption DEF TypeOK
      <4> QED
        BY <4>1
    <3>2. CASE mailboxes[target] = NoBox
      BY <2>8, <3>2 DEF FilterDone
    <3>3. CASE mailboxes[target] # NoBox
      <4>1. mailboxes[target] \in DOMAIN boxes
        BY <3>1, <3>3, MailboxExists
      <4>2. SendAll(<<f[1]>>, mailboxes[target], boxes)
        BY <2>8, <3>3 DEF FilterDone
      <4> QED
        BY <2>1, <3>1, <4>1, <4>2, SendAllFacts
    <3> QED
      BY <3>2, <3>3
  <2>9. ASSUME NEW f \in filtering, FilterError(f[1], f[2]) PROVE Len(boxes') = Len(boxes)
    BY <2>9 DEF FilterError
  <2>10. ASSUME NEW b \in DOMAIN boxes, MailboxConnected(b) PROVE Len(boxes') = Len(boxes)
    <3> DEFINE bxs == [boxes EXCEPT ![b] = Opened(@)]
    <3>1. Len(bxs) = Len(boxes)
      BY <2>1
    <3>2. FlushPending(boxes[b].server, bxs)
      BY <2>10 DEF MailboxConnected
    <3> HIDE DEF bxs
    <3>3. boxes' = bxs
      BY <3>2 DEF FlushPending, FlushNothing, FlushRefused, FlushSend, FlushReconnect
    <3> QED
      BY <3>1, <3>3
  <2>11. ASSUME NEW b \in DOMAIN boxes, MailboxFailed(b) PROVE Len(boxes') = Len(boxes)
    BY <2>1, <2>11 DEF MailboxFailed
  <2>12. ASSUME NEW b \in DOMAIN boxes, MailboxEnded(b) PROVE Len(boxes') = Len(boxes)
    BY <2>12, EndedFacts
  <2>13. ASSUME NEW b \in DOMAIN boxes, NEW r, Complete(b, r) PROVE Len(boxes') = Len(boxes)
    BY <2>1, <2>13 DEF Complete
  <2> QED
    BY <2>2, <2>3, <2>4, <2>5, <2>6, <2>7, <2>8, <2>9, <2>10, <2>11, <2>12, <2>13 DEF Next
<1> QED
  BY <1>1, TypeCorrect, PTL DEF Spec, NothingConnectsWhenStopped

-----------------------------------------------------------------------------
(* The mailboxes of a station over socket.io.  Its sockets are never half     *)
(* closed, so that what the station sees of its mailboxes is what they are;   *)
(* over ws and tcp these properties fail.                                     *)

\* Over socket.io, closing a mailbox ends its socket at once.
LEMMA SioShutFacts ==
  ASSUME Transport = "sio", NEW b \in Boxes,
         b.sock \in {"connecting", "open", "dead"}, b.closed => b.sock = "dead"
  PROVE  Shut(b).sock = "dead" /\ Shut(b).closed /\ Shut(b).server = b.server
         /\ Shut(b).listening = b.listening
<1>1. b.closed \in BOOLEAN
  BY DEF Boxes
<1>2. CASE b.closed
  BY <1>2 DEF Shut
<1>3. CASE ~b.closed
  <2>1. /\ Shut(b).sock = AfterSocketClose(b.sock) /\ Shut(b).closed
        /\ Shut(b).server = b.server /\ Shut(b).listening = b.listening
    BY <1>3 DEF Shut, Boxes
  <2> QED
    BY <2>1 DEF AfterSocketClose, EndsAtOnce
<1> QED
  BY <1>2, <1>3

\* flushPending() that creates no mailbox clears the connecting mark.
LEMMA FlushRegistered ==
  ASSUME TypeOK, NEW s \in Servers, NEW bxs \in Seq(Boxes), Len(bxs) = Len(boxes),
         FlushPending(s, bxs), ~FlushReconnect(s, bxs)
  PROVE  /\ boxes' \in Seq(Boxes) /\ Len(boxes') = Len(boxes)
         /\ \A c \in DOMAIN bxs : SameButRequests(boxes'[c], bxs[c])
         /\ mailboxes' = mailboxes /\ connecting' = connecting \ {s}
<1>1. CASE FlushNothing(s, bxs) \/ FlushRefused(s, bxs)
  BY <1>1 DEF FlushNothing, FlushRefused, SameButRequests
<1>2. CASE FlushSend(s, bxs)
  <2>1. mailboxes' = mailboxes /\ connecting' = connecting \ {s}
    BY <1>2 DEF FlushSend
  <2>2. CASE AsyncFilter
    BY <1>2, <2>1, <2>2 DEF FlushSend, SameButRequests
  <2>3. CASE ~AsyncFilter
    <3>1. mailboxes[s] \in DOMAIN bxs /\ pendings[s] \in Seq(Reqs)
      BY <1>2 DEF FlushSend, TypeOK, NoBox
    <3>2. SendAll(pendings[s], mailboxes[s], bxs)
      BY <1>2, <2>3 DEF FlushSend
    <3> QED
      BY <2>1, <3>1, <3>2, SendAllFacts
  <2> QED
    BY <2>2, <2>3
<1> QED
  BY <1>1, <1>2 DEF FlushPending

Tracked == SocketsTracked /\ StopClosesAll /\ ReadyUnlessConnecting

\* What Tracked says of a step depends on these facts about the mailboxes only.
LEMMA TrackedStep ==
  ASSUME TypeOK, TypeOK', Tracked, Len(boxes') = Len(boxes), connecting \subseteq connecting',
         state' = "closed" /\ grace' = 0 =>
           \/ state = "closed" /\ grace = 0
           \/ \A b \in DOMAIN boxes : boxes'[b].sock = "dead",
         \A b \in DOMAIN boxes :
           /\ boxes'[b].server = boxes[b].server
           /\ \/ /\ boxes'[b].sock = boxes[b].sock /\ boxes'[b].closed = boxes[b].closed
              \/ boxes'[b].sock = "dead"
           /\ \/ /\ boxes'[b].listening = boxes[b].listening
                 /\ boxes'[b].connected = boxes[b].connected
                 /\ boxes'[b].closed = boxes[b].closed
              \/ boxes'[b].listening = boxes[b].listening /\ boxes'[b].closed
              \/ mailboxes'[boxes[b].server] # b,
         \A s \in Servers : \/ mailboxes'[s] = mailboxes[s]
                            \/ /\ mailboxes'[s] = NoBox
                               /\ mailboxes[s] # NoBox => boxes'[mailboxes[s]].sock = "dead"
  PROVE  Tracked'
<1>1. /\ DOMAIN boxes = 1..Len(boxes) /\ DOMAIN boxes' = DOMAIN boxes
      /\ \A b \in DOMAIN boxes : boxes[b] \in Boxes
  BY DEF TypeOK
<1>2. \A b \in DOMAIN boxes : boxes[b].server \in Servers
  BY <1>1 DEF Boxes
<1>3. \A s \in Servers : mailboxes[s] # NoBox => mailboxes[s] \in DOMAIN boxes
  BY <1>1 DEF TypeOK, NoBox
<1>4. SocketsTracked'
  <2>1. \A b \in DOMAIN boxes' : /\ boxes'[b].sock \in {"connecting", "open", "dead"}
                                 /\ boxes'[b].closed => boxes'[b].sock = "dead"
    BY <1>1 DEF Tracked, SocketsTracked
  <2>2. \A s \in Servers : mailboxes'[s] # NoBox => boxes'[mailboxes'[s]].server = s
    BY <1>1, <1>3 DEF Tracked, SocketsTracked
  <2>3. LiveMailboxRegistered'
    <3> SUFFICES ASSUME NEW b \in DOMAIN boxes, boxes'[b].sock \in {"connecting", "open"}
                 PROVE  mailboxes'[boxes'[b].server] = b
      BY <1>1 DEF LiveMailboxRegistered
    <3>1. boxes[b].sock \in {"connecting", "open"} /\ boxes'[b].server = boxes[b].server
      OBVIOUS
    <3>2. mailboxes[boxes[b].server] = b /\ b # NoBox
      BY <1>1, <3>1 DEF Tracked, SocketsTracked, LiveMailboxRegistered, NoBox
    <3> QED
      BY <1>2, <3>1, <3>2
  <2> QED
    BY <2>1, <2>2, <2>3 DEF SocketsTracked
<1>5. StopClosesAll'
  BY <1>1 DEF Tracked, StopClosesAll
<1>6. ReadyUnlessConnecting'
  <2> SUFFICES ASSUME NEW s \in Servers \ connecting', mailboxes'[s] # NoBox
               PROVE  LET b == boxes'[mailboxes'[s]]
                      IN  b.listening /\ (b.connected \/ b.closed)
    BY DEF ReadyUnlessConnecting
  <2>1. mailboxes'[s] = mailboxes[s] /\ mailboxes[s] # NoBox /\ s \notin connecting
    OBVIOUS
  <2>2. mailboxes[s] \in DOMAIN boxes /\ boxes[mailboxes[s]].server = s
    BY <1>3, <2>1 DEF Tracked, SocketsTracked
  <2>3. /\ boxes[mailboxes[s]].listening
        /\ boxes[mailboxes[s]].connected \/ boxes[mailboxes[s]].closed
    BY <2>1 DEF Tracked, ReadyUnlessConnecting
  <2> QED
    BY <2>1, <2>2, <2>3
<1> QED
  BY <1>4, <1>5, <1>6 DEF Tracked

\* Closing registered mailboxes and forgetting some of them.
LEMMA TrackedClose ==
  ASSUME Transport = "sio", TypeOK, TypeOK', Tracked,
         NEW S \in SUBSET DOMAIN boxes, CloseBoxes(S),
         UNCHANGED connecting,
         state' = "closed" /\ grace' = 0 =>
           \/ state = "closed" /\ grace = 0
           \/ S = Registered,
         \A s \in Servers : \/ mailboxes'[s] = mailboxes[s]
                            \/ /\ mailboxes'[s] = NoBox
                               /\ mailboxes[s] # NoBox => mailboxes[s] \in S
  PROVE  Tracked'
<1>1. /\ Len(boxes') = Len(boxes)
      /\ \A b \in DOMAIN boxes : boxes'[b] = IF b \in S THEN Shut(boxes[b]) ELSE boxes[b]
  BY CloseBoxesFacts
<1>2. \A b \in DOMAIN boxes :
        /\ boxes[b] \in Boxes /\ boxes[b].server \in Servers
        /\ boxes[b].sock \in {"connecting", "open", "dead"}
        /\ boxes[b].closed => boxes[b].sock = "dead"
  <2>1. \A b \in DOMAIN boxes : boxes[b] \in Boxes
    BY DEF TypeOK
  <2> QED
    BY <2>1 DEF Tracked, SocketsTracked, Boxes
<1>3. \A b \in S : /\ boxes'[b].sock = "dead" /\ boxes'[b].closed
                   /\ boxes'[b].server = boxes[b].server
                   /\ boxes'[b].listening = boxes[b].listening
  BY <1>1, <1>2, SioShutFacts
<1>4. S = Registered => \A b \in DOMAIN boxes : boxes'[b].sock = "dead"
  <2> SUFFICES ASSUME S = Registered, NEW b \in DOMAIN boxes, b \notin S
               PROVE  boxes'[b].sock = "dead"
    BY <1>3
  <2>1. mailboxes[boxes[b].server] # b
    BY <1>2 DEF Registered, Range, TypeOK, NoBox
  <2> QED
    BY <1>1, <1>2, <2>1 DEF Tracked, SocketsTracked, LiveMailboxRegistered
<1> QED
  BY <1>1, <1>3, <1>4, TrackedStep

\* A new mailbox for a server that has none.
LEMMA TrackedConnect ==
  ASSUME TypeOK, TypeOK', Tracked, NEW r \in Reqs, NEW s \in Servers, DispatchFirst(r, s)
  PROVE  Tracked'
<1> DEFINE n == Len(boxes) + 1
<1>1. /\ boxes' = Append(boxes, NewBox(s, r)) /\ mailboxes' = [mailboxes EXCEPT ![s] = n]
      /\ connecting' = connecting \cup {s} /\ state' = "started" /\ mailboxes[s] = NoBox
  BY DEF DispatchFirst, LazyConnect, lifeVars
<1>2. /\ DOMAIN boxes = 1..Len(boxes) /\ DOMAIN boxes' = 1..n /\ Len(boxes) \in Nat
      /\ \A b \in DOMAIN boxes : boxes[b] \in Boxes /\ boxes'[b] = boxes[b]
      /\ boxes'[n] = NewBox(s, r)
  BY <1>1, AppendProperties, NewBoxFacts DEF TypeOK
<1>3. \A b \in DOMAIN boxes : boxes[b].server \in Servers
  BY <1>2 DEF Boxes
<1>4. /\ \A t \in Servers \ {s} : mailboxes'[t] = mailboxes[t]
      /\ mailboxes'[s] = n
      /\ \A t \in Servers : mailboxes[t] # NoBox => mailboxes[t] \in DOMAIN boxes
  BY <1>1, <1>2 DEF TypeOK, NoBox
<1>5. /\ NewBox(s, r).server = s /\ NewBox(s, r).sock = "connecting"
      /\ ~NewBox(s, r).closed
  BY DEF NewBox
<1> HIDE DEF n
<1>6. \A b \in DOMAIN boxes' : b \in DOMAIN boxes \/ b = n
  BY <1>2 DEF n
<1>7. SocketsTracked'
  <2>1. \A b \in DOMAIN boxes' : /\ boxes'[b].sock \in {"connecting", "open", "dead"}
                                 /\ boxes'[b].closed => boxes'[b].sock = "dead"
    BY <1>2, <1>5, <1>6 DEF Tracked, SocketsTracked
  <2>2. \A t \in Servers : mailboxes'[t] # NoBox => boxes'[mailboxes'[t]].server = t
    BY <1>2, <1>4, <1>5 DEF Tracked, SocketsTracked
  <2>3. LiveMailboxRegistered'
    <3> SUFFICES ASSUME NEW b \in DOMAIN boxes', boxes'[b].sock \in {"connecting", "open"}
                 PROVE  mailboxes'[boxes'[b].server] = b
      BY DEF LiveMailboxRegistered
    <3>1. CASE b = n
      BY <1>2, <1>4, <1>5, <3>1
    <3>2. CASE b \in DOMAIN boxes
      <4>1. mailboxes[boxes[b].server] = b /\ b # NoBox
        BY <1>2, <3>2 DEF Tracked, SocketsTracked, LiveMailboxRegistered, NoBox
      <4> QED
        BY <1>1, <1>2, <1>3, <1>4, <3>2, <4>1
    <3> QED
      BY <1>6, <3>1, <3>2
  <2> QED
    BY <2>1, <2>2, <2>3 DEF SocketsTracked
<1>8. StopClosesAll'
  BY <1>1 DEF StopClosesAll
<1>9. ReadyUnlessConnecting'
  BY <1>1, <1>2, <1>4 DEF Tracked, ReadyUnlessConnecting
<1> QED
  BY <1>7, <1>8, <1>9 DEF Tracked

\* A mailbox connects and its pending requests are flushed.
LEMMA TrackedConnected ==
  ASSUME Transport = "sio", TypeOK, TypeOK', Tracked, NEW b \in DOMAIN boxes,
         MailboxConnected(b)
  PROVE  Tracked'
<1> DEFINE s == boxes[b].server
           bxs == [boxes EXCEPT ![b] = Opened(@)]
<1>1. /\ DOMAIN boxes = 1..Len(boxes) /\ boxes \in Seq(Boxes) /\ Len(boxes) \in Nat
      /\ \A c \in DOMAIN boxes : boxes[c] \in Boxes
  BY DEF TypeOK
<1>2. s \in Servers
  BY <1>1 DEF Boxes
<1>3. /\ boxes[b].sock = "connecting" /\ ~boxes[b].closed /\ mailboxes[s] = b /\ b # NoBox
      /\ state' = state /\ grace' = grace
  BY <1>1 DEF MailboxConnected, Tracked, SocketsTracked, LiveMailboxRegistered, NoBox, lifeVars
<1>4. /\ Opened(boxes[b]) \in Boxes /\ Opened(boxes[b]).server = s
      /\ Opened(boxes[b]).listening /\ Opened(boxes[b]).connected
      /\ Opened(boxes[b]).closed = boxes[b].closed /\ Opened(boxes[b]).sock = "open"
  BY <1>1, <1>3, EventFacts
<1>5. /\ bxs \in Seq(Boxes) /\ Len(bxs) = Len(boxes) /\ DOMAIN bxs = DOMAIN boxes
      /\ bxs[b] = Opened(boxes[b]) /\ \A c \in DOMAIN boxes \ {b} : bxs[c] = boxes[c]
  BY <1>1, <1>4
<1>6. FlushPending(s, bxs)
  BY DEF MailboxConnected
<1> HIDE DEF s, bxs
<1>7. /\ Len(boxes') = Len(boxes) /\ mailboxes' = mailboxes /\ connecting' = connecting \ {s}
      /\ \A c \in DOMAIN boxes : SameButRequests(boxes'[c], bxs[c])
  <2>1. ~FlushReconnect(s, bxs)
    BY <1>3 DEF FlushReconnect
  <2> QED
    BY <1>2, <1>5, <1>6, <2>1, FlushRegistered
<1>8. DOMAIN boxes' = DOMAIN boxes
  BY <1>1, <1>7 DEF TypeOK
<1>9. \A c \in DOMAIN boxes \ {b} : SameButRequests(boxes'[c], boxes[c])
  BY <1>5, <1>7
<1>10. /\ boxes'[b].server = s /\ boxes'[b].listening /\ boxes'[b].connected
       /\ ~boxes'[b].closed /\ boxes'[b].sock = "open"
  BY <1>3, <1>4, <1>5, <1>7 DEF SameButRequests
<1>11. \A t \in Servers : mailboxes[t] # NoBox => mailboxes[t] \in DOMAIN boxes
  BY <1>1 DEF TypeOK, NoBox
<1>12. s = boxes[b].server
  BY DEF s
<1>13. SocketsTracked'
  <2>1. \A c \in DOMAIN boxes' : /\ boxes'[c].sock \in {"connecting", "open", "dead"}
                                 /\ boxes'[c].closed => boxes'[c].sock = "dead"
    BY <1>8, <1>9, <1>10 DEF Tracked, SocketsTracked, SameButRequests
  <2>2. \A t \in Servers : mailboxes'[t] # NoBox => boxes'[mailboxes'[t]].server = t
    BY <1>7, <1>9, <1>10, <1>11, <1>12 DEF Tracked, SocketsTracked, SameButRequests
  <2>3. LiveMailboxRegistered'
    BY <1>3, <1>7, <1>8, <1>9, <1>10
    DEF Tracked, SocketsTracked, LiveMailboxRegistered, SameButRequests
  <2> QED
    BY <2>1, <2>2, <2>3 DEF SocketsTracked
<1>14. StopClosesAll'
  BY <1>3 DEF Tracked, StopClosesAll
<1>15. ReadyUnlessConnecting'
  <2> SUFFICES ASSUME NEW t \in Servers \ connecting', mailboxes'[t] # NoBox
               PROVE  LET c == boxes'[mailboxes'[t]]
                      IN  c.listening /\ (c.connected \/ c.closed)
    BY DEF ReadyUnlessConnecting
  <2>1. CASE t = s
    BY <1>3, <1>7, <1>10, <2>1
  <2>2. CASE t # s
    <3>1. /\ mailboxes[t] \in DOMAIN boxes /\ mailboxes[t] # b /\ t \notin connecting
          /\ mailboxes[t] # NoBox
      BY <1>7, <1>11, <1>12, <2>2 DEF Tracked, SocketsTracked
    <3> QED
      BY <1>7, <1>9, <3>1 DEF Tracked, ReadyUnlessConnecting, SameButRequests
  <2> QED
    BY <2>1, <2>2
<1> QED
  BY <1>13, <1>14, <1>15 DEF Tracked

\* Over socket.io the station loses sight of no live mailbox, stop() and its
\* timer close them all, and requests go to ready mailboxes only.
THEOREM SioMailboxesTracked ==
  ASSUME Transport = "sio"
  PROVE  Spec => [](SocketsTracked /\ StopClosesAll /\ ReadyUnlessConnecting)
<1>1. Init => Tracked
  BY DEF Init, Tracked, SocketsTracked, LiveMailboxRegistered, StopClosesAll,
         ReadyUnlessConnecting, NoBox
<1>2. TypeOK /\ TypeOK' /\ Tracked /\ [Next]_vars => Tracked'
  <2> SUFFICES ASSUME TypeOK, TypeOK', Tracked, [Next]_vars PROVE Tracked'
    OBVIOUS
  <2>1. ASSUME UNCHANGED <<boxes, mailboxes>>, connecting \subseteq connecting',
               state' = "closed" /\ grace' = 0 => state = "closed" /\ grace = 0
        PROVE  Tracked'
    BY <2>1, TrackedStep
  <2>2. CASE Start
    BY <2>1, <2>2 DEF Start, waitVars
  <2>3. CASE StartTick
    BY <2>1, <2>3 DEF StartTick, waitVars
  <2>4. CASE StopGracefully
    BY <2>1, <2>4 DEF StopGracefully, waitVars, TypeOK
  <2>5. ASSUME CloseAll, UNCHANGED waitVars PROVE Tracked'
    <3>1. \A s \in Servers : /\ mailboxes[s] # NoBox => mailboxes[s] \in Registered
                             /\ \/ mailboxes'[s] = mailboxes[s]
                                \/ mailboxes'[s] = NoBox
      BY <2>5 DEF CloseAll, Registered, Range, TypeOK
    <3> QED
      BY <2>5, <3>1, RegisteredExist, TrackedClose DEF CloseAll, waitVars
  <2>6. CASE StopForced \/ GraceTimeout
    BY <2>5, <2>6 DEF StopForced, GraceTimeout
  <2>7. ASSUME NEW s, NEW list, AddServer(s) \/ ReplaceServers(list)
        PROVE  Tracked'
    BY <2>1, <2>7 DEF AddServer, ReplaceServers, lifeVars, waitVars
  <2>8. ASSUME NEW s \in Servers, RemoveServer(s) PROVE Tracked'
    <3> DEFINE S == {mailboxes[s]} \ {NoBox}
    <3>1. S \subseteq DOMAIN boxes
      BY DEF TypeOK, NoBox
    <3>2. \A t \in Servers : \/ mailboxes'[t] = mailboxes[t]
                             \/ /\ mailboxes'[t] = NoBox
                                /\ mailboxes[t] # NoBox => mailboxes[t] \in S
      BY <2>8 DEF RemoveServer, Unregister, TypeOK
    <3>3. CloseBoxes(S) /\ UNCHANGED <<connecting, state, grace>>
      BY <2>8 DEF RemoveServer, waitVars, lifeVars
    <3> HIDE DEF S
    <3> QED
      BY <3>1, <3>2, <3>3, TrackedClose
  <2>9. ASSUME NEW queue \in Seq(Reqs), NEW b \in DOMAIN boxes, SendAll(queue, b, boxes),
               UNCHANGED <<mailboxes, connecting, state, grace>>
        PROVE  Tracked'
    <3>1. boxes \in Seq(Boxes)
      BY DEF TypeOK
    <3>2. /\ Len(boxes') = Len(boxes)
          /\ \A c \in DOMAIN boxes : SameButRequests(boxes'[c], boxes[c])
      BY <2>9, <3>1, SendAllFacts
    <3> QED
      BY <2>9, <3>2, TrackedStep DEF SameButRequests
  <2>10. ASSUME NEW r \in Reqs, NEW s \in Servers, Dispatch(r, s) PROVE Tracked'
    <3>1. CASE DispatchRefused(r, s) \/ DispatchPending(r, s) \/ DispatchFilter(r, s)
      BY <2>1, <3>1 DEF DispatchRefused, DispatchPending, DispatchFilter, lifeVars, waitVars
    <3>2. CASE DispatchFirst(r, s)
      BY <3>2, TrackedConnect
    <3>3. CASE DispatchSend(r, s)
      <4>1. mailboxes[s] \in DOMAIN boxes /\ <<r>> \in Seq(Reqs)
        BY <3>3 DEF DispatchSend, TypeOK, NoBox
      <4> QED
        BY <2>9, <3>3, <4>1 DEF DispatchSend, lifeVars, waitVars
    <3> QED
      BY <2>10, <3>1, <3>2, <3>3 DEF Dispatch
  <2>11. ASSUME NEW f \in filtering, NEW target \in {f[2]} \cup FilterTargets,
                FilterDone(f[1], f[2], target)
         PROVE  Tracked'
    <3>1. target \in Servers /\ <<f[1]>> \in Seq(Reqs)
      <4>1. f \in Reqs \X Servers /\ FilterTargets \subseteq Servers
        BY MailStationAssumption DEF TypeOK
      <4> QED
        BY <4>1
    <3>2. UNCHANGED <<mailboxes, connecting, state, grace>>
      BY <2>11 DEF FilterDone, lifeVars
    <3>3. CASE mailboxes[target] = NoBox
      BY <2>1, <2>11, <3>2, <3>3 DEF FilterDone
    <3>4. CASE mailboxes[target] # NoBox
      <4>1. mailboxes[target] \in DOMAIN boxes
        BY <3>1, <3>4, MailboxExists
      <4>2. SendAll(<<f[1]>>, mailboxes[target], boxes)
        BY <2>11, <3>4 DEF FilterDone
      <4> QED
        BY <2>9, <3>1, <3>2, <4>1, <4>2
    <3> QED
      BY <3>3, <3>4
  <2>12. ASSUME NEW f \in filtering, FilterError(f[1], f[2]) PROVE Tracked'
    BY <2>1, <2>12 DEF FilterError, lifeVars
  <2>13. ASSUME NEW b \in DOMAIN boxes, MailboxConnected(b) PROVE Tracked'
    BY <2>13, TrackedConnected
  <2>14. \A b \in DOMAIN boxes : boxes[b] \in Boxes /\ boxes[b].server \in Servers
    <3>1. \A b \in DOMAIN boxes : boxes[b] \in Boxes
      BY DEF TypeOK
    <3> QED
      BY <3>1 DEF Boxes
  <2>15. ASSUME NEW b \in DOMAIN boxes, MailboxFailed(b) PROVE Tracked'
    <3> DEFINE s == boxes[b].server
    <3>1. boxes[b].sock = "connecting" /\ mailboxes[s] = b
      BY <2>15 DEF MailboxFailed, MayFail, Tracked, SocketsTracked, LiveMailboxRegistered
    <3>2. /\ boxes' = [boxes EXCEPT ![b] = Failed(@)] /\ mailboxes' = Unregister(s)
          /\ UNCHANGED <<connecting, state, grace>>
      BY <2>15 DEF MailboxFailed, lifeVars, waitVars
    <3>3. Failed(boxes[b]) = [boxes[b] EXCEPT !.sock = "dead"]
      BY DEF Failed, ErrorCloses, AfterSocketError, Listeners, SioListeners
    <3>4. /\ Failed(boxes[b]).sock = "dead" /\ Failed(boxes[b]).server = s
          /\ Failed(boxes[b]).listening = boxes[b].listening
          /\ Failed(boxes[b]).connected = boxes[b].connected
          /\ Failed(boxes[b]).closed = boxes[b].closed
      BY <2>14, <3>3 DEF Boxes
    <3>5. /\ Len(boxes') = Len(boxes) /\ boxes'[b] = Failed(boxes[b])
          /\ \A c \in DOMAIN boxes \ {b} : boxes'[c] = boxes[c]
      BY <3>2 DEF TypeOK
    <3>6. /\ mailboxes'[s] = NoBox
          /\ \A t \in Servers \ {s} : mailboxes'[t] = mailboxes[t]
      BY <2>14, <3>2 DEF Unregister, TypeOK
    <3> HIDE DEF s
    <3> QED
      BY <3>1, <3>2, <3>4, <3>5, <3>6, TrackedStep DEF s
  <2>16. ASSUME NEW b \in DOMAIN boxes, MailboxEnded(b) PROVE Tracked'
    <3> DEFINE s == boxes[b].server
               dead == Ended(boxes[b])
    <3>1. boxes[b].sock = "open" /\ mailboxes[s] = b /\ b # NoBox
      <4>1. boxes[b].sock \in {"connecting", "open", "dead"} /\ MayEnd(boxes[b].sock)
        BY <2>16 DEF MailboxEnded, Tracked, SocketsTracked
      <4>2. boxes[b].sock = "open"
        BY <4>1 DEF MayEnd
      <4>3. mailboxes[s] = b
        BY <4>2 DEF Tracked, SocketsTracked, LiveMailboxRegistered
      <4> QED
        BY <4>2, <4>3 DEF TypeOK, NoBox
    <3>2. /\ dead.sock = "dead" /\ dead.server = s /\ dead.closed = boxes[b].closed
          /\ dead.connected = boxes[b].connected /\ dead.listening = boxes[b].listening
          /\ dead \in Boxes
      BY <2>14 DEF Ended, Boxes, SocketStates
    <3>3. /\ Shut(dead).sock = "dead" /\ Shut(dead).closed /\ Shut(dead).server = s
          /\ Shut(dead).listening = dead.listening
      BY <3>2, SioShutFacts
    <3>4. /\ boxes'[b] = IF boxes[b].listening THEN Shut(dead) ELSE dead
          /\ \A c \in DOMAIN boxes \ {b} : boxes'[c] = boxes[c]
      <4> DEFINE other == IF boxes[b].listening THEN {mailboxes[s]} \ {NoBox} ELSE {}
                 ended == [boxes EXCEPT ![b] = Ended(@)]
      <4>1. boxes' = [c \in DOMAIN boxes |-> IF c \in other THEN Shut(ended[c]) ELSE ended[c]]
        BY <2>16 DEF MailboxEnded
      <4>2. ended[b] = dead /\ \A c \in DOMAIN boxes \ {b} : ended[c] = boxes[c]
        BY DEF TypeOK
      <4>3. other = IF boxes[b].listening THEN {b} ELSE {}
        BY <3>1
      <4> HIDE DEF other, ended, dead
      <4> QED
        BY <4>1, <4>2, <4>3
    <3>5. Len(boxes') = Len(boxes)
      BY <2>16, EndedFacts
    <3>6. /\ mailboxes' = IF boxes[b].listening THEN Unregister(s) ELSE mailboxes
          /\ UNCHANGED <<connecting, state, grace>>
      BY <2>16 DEF MailboxEnded, lifeVars, waitVars
    <3>7. \A t \in Servers : mailboxes'[t] = IF boxes[b].listening /\ t = s
                                             THEN NoBox ELSE mailboxes[t]
      BY <3>6 DEF Unregister, TypeOK
    <3> HIDE DEF dead
    <3>8. \A c \in DOMAIN boxes :
            /\ boxes'[c].server = boxes[c].server
            /\ \/ /\ boxes'[c].sock = boxes[c].sock /\ boxes'[c].closed = boxes[c].closed
               \/ boxes'[c].sock = "dead"
            /\ \/ /\ boxes'[c].listening = boxes[c].listening
                  /\ boxes'[c].connected = boxes[c].connected
                  /\ boxes'[c].closed = boxes[c].closed
               \/ boxes'[c].listening = boxes[c].listening /\ boxes'[c].closed
               \/ mailboxes'[boxes[c].server] # c
      BY <3>2, <3>3, <3>4
    <3>9. \A t \in Servers : \/ mailboxes'[t] = mailboxes[t]
                             \/ /\ mailboxes'[t] = NoBox
                                /\ mailboxes[t] # NoBox => boxes'[mailboxes[t]].sock = "dead"
      BY <3>1, <3>2, <3>3, <3>4, <3>7
    <3> QED
      BY <3>5, <3>6, <3>8, <3>9, TrackedStep
  <2>17. ASSUME NEW b \in DOMAIN boxes, NEW r \in Reqs, Complete(b, r) PROVE Tracked'
    <3>1. /\ boxes' = [boxes EXCEPT ![b] = Without(@, r)]
          /\ UNCHANGED <<mailboxes, connecting, state, grace>>
      BY <2>17 DEF Complete, lifeVars, waitVars
    <3>2. SameButRequests(Without(boxes[b], r), boxes[b])
      BY <2>14 DEF Without, Boxes, SameButRequests
    <3>3. /\ Len(boxes') = Len(boxes)
          /\ \A c \in DOMAIN boxes : SameButRequests(boxes'[c], boxes[c])
      BY <3>1, <3>2 DEF TypeOK, SameButRequests
    <3> QED
      BY <3>1, <3>3, TrackedStep DEF SameButRequests
  <2>18. CASE UNCHANGED vars
    BY <2>1, <2>18 DEF vars
  <2> QED
    BY <2>2, <2>3, <2>4, <2>6, <2>7, <2>8, <2>10, <2>11, <2>12, <2>13, <2>15, <2>16, <2>17,
       <2>18 DEF Next
<1>3. Spec => []Tracked
  BY <1>1, <1>2, TypeCorrect, PTL DEF Spec
<1> QED
  BY <1>3, PTL DEF Tracked

\* Over socket.io requests are handed only to mailboxes that finished connecting,
\* or that stop() closed.
THEOREM SioReady ==
  ASSUME Transport = "sio"
  PROVE  Spec => []ReadyUnlessConnecting
<1>1. Spec => [](SocketsTracked /\ StopClosesAll /\ ReadyUnlessConnecting)
  BY SioMailboxesTracked
<1> QED
  BY <1>1, PTL

\* No mailbox with a live socket is lost from sight over socket.io.
THEOREM SioLiveRegistered ==
  ASSUME Transport = "sio"
  PROVE  Spec => []LiveMailboxRegistered
<1>1. Spec => [](SocketsTracked /\ StopClosesAll /\ ReadyUnlessConnecting)
  BY SioMailboxesTracked
<1>2. SocketsTracked /\ StopClosesAll /\ ReadyUnlessConnecting => LiveMailboxRegistered
  BY DEF SocketsTracked
<1> QED
  BY <1>1, <1>2, PTL

-----------------------------------------------------------------------------
(* What clears the connecting mark too early.                              *)

\* Of the mailboxes of a server the registered one is the newest.
NewestRegistered ==
  \A s \in Servers : mailboxes[s] # NoBox =>
    /\ boxes[mailboxes[s]].server = s
    /\ \A c \in DOMAIN boxes : boxes[c].server = s => c <= mailboxes[s]

\* What a step does to the marks: it keeps NewestRegistered, and dispatch() comes
\* to use an unready mailbox only when an earlier one of the server connects.
MarksGood ==
  /\ NewestRegistered'
  /\ \A s \in Servers : Unready(s)' => Unready(s) \/ \E b \in DOMAIN boxes : ConnectsOver(b, s)

\* A mailbox c that is at least as far in its life as b.
Further(c, b) ==
  /\ c.server = b.server
  /\ b.listening => c.listening
  /\ b.connected \/ b.closed => c.connected \/ c.closed

\* No event takes a mailbox back.
LEMMA EventsFurther ==
  ASSUME NEW b \in Boxes
  PROVE  /\ Further(Shut(b), b) /\ Further(Opened(b), b) /\ Further(Failed(b), b)
         /\ Further(Ended(b), b) /\ Further(Shut(Ended(b)), b)
         /\ \A c : SameButRequests(c, b) => Further(c, b)
<1>1. ASSUME NEW c \in Boxes PROVE Further(Shut(c), c)
  <2>1. CASE c.closed
    BY <2>1 DEF Shut, Further
  <2>2. CASE ~c.closed
    BY <2>2 DEF Shut, Boxes, Further
  <2> QED
    BY <2>1, <2>2
<1>2. Further(Opened(b), b) /\ Further(Failed(b), b) /\ Further(Ended(b), b)
  BY DEF Opened, Failed, Ended, Boxes, Further
<1>3. Further(Shut(Ended(b)), b)
  <2>1. Ended(b) \in Boxes
    BY EventFacts
  <2> QED
    BY <1>1, <1>2, <2>1 DEF Further
<1>4. \A c : SameButRequests(c, b) => Further(c, b)
  BY DEF SameButRequests, Further
<1> QED
  BY <1>1, <1>2, <1>3, <1>4

\* A step that creates no mailbox and clears no mark.
LEMMA MarksStep ==
  ASSUME TypeOK, TypeOK', NewestRegistered, Len(boxes') = Len(boxes),
         \A c \in DOMAIN boxes : Further(boxes'[c], boxes[c]),
         \A s \in Servers : mailboxes'[s] = mailboxes[s] \/ mailboxes'[s] = NoBox,
         connecting \subseteq connecting'
  PROVE  MarksGood
<1>1. DOMAIN boxes' = DOMAIN boxes /\ DOMAIN boxes = 1..Len(boxes) /\ Len(boxes) \in Nat
  BY DEF TypeOK
<1>2. \A s \in Servers : mailboxes[s] # NoBox => mailboxes[s] \in DOMAIN boxes
  BY MailboxExists
<1>3. NewestRegistered'
  BY <1>1, <1>2 DEF NewestRegistered, Further
<1>4. ASSUME NEW s \in Servers, Unready(s)' PROVE Unready(s)
  <2>1. /\ s \notin connecting' /\ mailboxes'[s] # NoBox
        /\ ~(/\ boxes'[mailboxes'[s]].listening
             /\ boxes'[mailboxes'[s]].connected \/ boxes'[mailboxes'[s]].closed)
    BY <1>4 DEF Unready
  <2>2. mailboxes'[s] = mailboxes[s] /\ mailboxes[s] \in DOMAIN boxes /\ s \notin connecting
    BY <1>2, <2>1
  <2> QED
    BY <2>1, <2>2 DEF Unready, Further
<1> QED
  BY <1>3, <1>4 DEF MarksGood

\* A step that creates a mailbox for a server and marks it as connecting.
LEMMA MarksCreate ==
  ASSUME TypeOK, TypeOK', NewestRegistered, NEW s \in Servers, NEW r \in Reqs,
         NEW bxs \in Seq(Boxes), Len(bxs) = Len(boxes),
         \A c \in DOMAIN boxes : Further(bxs[c], boxes[c]),
         boxes' = Append(bxs, NewBox(s, r)),
         mailboxes' = [mailboxes EXCEPT ![s] = Len(bxs) + 1],
         connecting' = connecting \cup {s}
  PROVE  MarksGood
<1> DEFINE n == Len(boxes) + 1
<1>1. DOMAIN boxes = 1..Len(boxes) /\ Len(boxes) \in Nat /\ DOMAIN bxs = 1..Len(boxes)
  BY DEF TypeOK
<1>2. /\ Len(boxes') = n /\ DOMAIN boxes' = 1..n /\ boxes'[n] = NewBox(s, r)
      /\ \A c \in DOMAIN boxes : Further(boxes'[c], boxes[c])
  BY <1>1, NewBoxFacts, AppendProperties
<1>3. mailboxes'[s] = n /\ \A t \in Servers \ {s} : mailboxes'[t] = mailboxes[t]
  <2>1. mailboxes \in [Servers -> 0..Len(boxes)]
    BY DEF TypeOK
  <2> QED
    BY <2>1
<1>4. NewBox(s, r).server = s
  BY DEF NewBox
<1>5. \A t \in Servers : mailboxes[t] # NoBox => mailboxes[t] \in DOMAIN boxes
  BY MailboxExists
<1>6. \A c \in DOMAIN boxes' : c <= n /\ (c \in DOMAIN boxes \/ c = n)
  BY <1>1, <1>2
<1> HIDE DEF n
<1>7. NewestRegistered'
  <2> SUFFICES ASSUME NEW t \in Servers, mailboxes'[t] # NoBox
               PROVE  /\ boxes'[mailboxes'[t]].server = t
                      /\ \A c \in DOMAIN boxes' : boxes'[c].server = t => c <= mailboxes'[t]
    BY DEF NewestRegistered
  <2>1. CASE t = s
    <3>1. mailboxes'[t] = n /\ boxes'[n].server = s
      BY <1>2, <1>3, <1>4, <2>1
    <3> QED
      BY <1>6, <2>1, <3>1
  <2>2. CASE t # s
    BY <1>2, <1>3, <1>4, <1>5, <1>6, <2>2 DEF NewestRegistered, Further
  <2> QED
    BY <2>1, <2>2
<1>8. ASSUME NEW t \in Servers, Unready(t)' PROVE Unready(t)
  <2>1. /\ t \notin connecting' /\ mailboxes'[t] # NoBox
        /\ ~(/\ boxes'[mailboxes'[t]].listening
             /\ boxes'[mailboxes'[t]].connected \/ boxes'[mailboxes'[t]].closed)
    BY <1>8 DEF Unready
  <2>2. /\ t # s /\ mailboxes'[t] = mailboxes[t] /\ mailboxes[t] \in DOMAIN boxes
        /\ t \notin connecting
    BY <1>3, <1>5, <2>1
  <2> QED
    BY <1>2, <2>1, <2>2 DEF Unready, Further
<1> QED
  BY <1>7, <1>8 DEF MarksGood

\* A mailbox connects.  If it is not the registered one it is an earlier one of
\* the server, or the server has none.
LEMMA MarksConnected ==
  ASSUME TypeOK, TypeOK', NewestRegistered, NEW b \in DOMAIN boxes, MailboxConnected(b)
  PROVE  MarksGood
<1> DEFINE s == boxes[b].server
           bxs == [boxes EXCEPT ![b] = Opened(@)]
<1>1. /\ DOMAIN boxes = 1..Len(boxes) /\ boxes \in Seq(Boxes) /\ Len(boxes) \in Nat
      /\ \A c \in DOMAIN boxes : boxes[c] \in Boxes
  BY DEF TypeOK
<1>2. s \in Servers
  BY <1>1 DEF Boxes
<1>3. /\ Opened(boxes[b]) \in Boxes /\ Opened(boxes[b]).listening
      /\ Opened(boxes[b]).connected /\ Opened(boxes[b]).server = s
  BY <1>1, EventFacts
<1>4. /\ bxs \in Seq(Boxes) /\ Len(bxs) = Len(boxes) /\ DOMAIN bxs = DOMAIN boxes
      /\ bxs[b] = Opened(boxes[b]) /\ \A c \in DOMAIN boxes \ {b} : bxs[c] = boxes[c]
  BY <1>1, <1>3
<1>5. \A c \in DOMAIN boxes : Further(bxs[c], boxes[c])
  BY <1>1, <1>4, EventsFurther DEF Further
<1>6. FlushPending(s, bxs)
  BY DEF MailboxConnected
<1> HIDE DEF s, bxs
<1>7. CASE FlushReconnect(s, bxs)
  <2>1. Head(pendings[s]) \in Reqs
    BY <1>2, <1>7 DEF FlushReconnect, TypeOK
  <2>2. /\ boxes' = Append(bxs, NewBox(s, Head(pendings[s])))
        /\ mailboxes' = [mailboxes EXCEPT ![s] = Len(bxs) + 1]
        /\ connecting' = connecting \cup {s}
    BY <1>7 DEF FlushReconnect
  <2> QED
    BY <1>2, <1>4, <1>5, <2>1, <2>2, MarksCreate
<1>8. CASE ~FlushReconnect(s, bxs)
  <2>1. /\ Len(boxes') = Len(boxes) /\ mailboxes' = mailboxes
        /\ connecting' = connecting \ {s}
        /\ \A c \in DOMAIN boxes : SameButRequests(boxes'[c], bxs[c])
    BY <1>2, <1>4, <1>6, <1>8, FlushRegistered
  <2>2. DOMAIN boxes' = DOMAIN boxes
    BY <1>1, <2>1 DEF TypeOK
  <2>3. \A c \in DOMAIN boxes : Further(boxes'[c], boxes[c])
    BY <1>5, <2>1 DEF Further, SameButRequests
  <2>4. boxes'[b].server = s /\ boxes'[b].listening /\ boxes'[b].connected
    BY <1>3, <1>4, <2>1 DEF SameButRequests
  <2>5. \A t \in Servers : mailboxes[t] # NoBox => mailboxes[t] \in DOMAIN boxes
    BY MailboxExists
  <2>6. NewestRegistered'
    BY <2>1, <2>2, <2>3, <2>5 DEF NewestRegistered, Further
  <2>7. boxes[b].sock = "connecting" /\ boxes'[b].sock # "connecting"
    <3>1. Opened(boxes[b]).sock # "connecting"
      BY <1>1, EventFacts
    <3> QED
      BY <1>4, <2>1, <3>1 DEF MailboxConnected, SameButRequests
  <2>8. ASSUME NEW t \in Servers, Unready(t)'
        PROVE  Unready(t) \/ ConnectsOver(b, t)
    <3>1. /\ t \notin connecting' /\ mailboxes'[t] # NoBox
          /\ ~(/\ boxes'[mailboxes'[t]].listening
               /\ boxes'[mailboxes'[t]].connected \/ boxes'[mailboxes'[t]].closed)
      BY <2>8 DEF Unready
    <3>2. mailboxes'[t] = mailboxes[t] /\ mailboxes[t] \in DOMAIN boxes
      BY <2>1, <2>5, <3>1
    <3>3. CASE t = s
      <4>1. mailboxes[t] # b
        BY <2>4, <3>1, <3>2
      <4>2. b <= mailboxes[t]
        BY <3>1, <3>2, <3>3 DEF NewestRegistered, s
      <4>3. b < mailboxes[t]
        BY <1>1, <3>2, <4>1, <4>2
      <4> QED
        BY <2>4, <2>7, <3>3, <4>3 DEF ConnectsOver, Connects, s
    <3>4. CASE t # s
      <4>1. t \notin connecting
        BY <2>1, <3>1, <3>4
      <4> QED
        BY <2>3, <3>1, <3>2, <4>1 DEF Unready, Further
    <3> QED
      BY <3>3, <3>4
  <2> QED
    BY <2>6, <2>8 DEF MarksGood
<1> QED
  BY <1>7, <1>8

LEMMA MarksNext ==
  ASSUME TypeOK, TypeOK', NewestRegistered, [Next]_vars
  PROVE  MarksGood
<1>1. /\ boxes \in Seq(Boxes) /\ DOMAIN boxes = 1..Len(boxes)
      /\ \A b \in DOMAIN boxes : boxes[b] \in Boxes /\ Further(boxes[b], boxes[b])
  BY DEF TypeOK, Further
<1>2. ASSUME UNCHANGED <<boxes, mailboxes, connecting>> PROVE MarksGood
  BY <1>1, <1>2, MarksStep
<1>3. ASSUME NEW S \in SUBSET DOMAIN boxes, CloseBoxes(S), connecting' = connecting,
             \A s \in Servers : mailboxes'[s] = mailboxes[s] \/ mailboxes'[s] = NoBox
      PROVE  MarksGood
  <2>1. /\ Len(boxes') = Len(boxes)
        /\ \A b \in DOMAIN boxes : boxes'[b] = IF b \in S THEN Shut(boxes[b]) ELSE boxes[b]
    BY <1>3, CloseBoxesFacts
  <2>2. \A b \in DOMAIN boxes : Further(boxes'[b], boxes[b])
    BY <1>1, <2>1, EventsFurther
  <2> QED
    BY <1>3, <2>1, <2>2, MarksStep
<1>4. ASSUME NEW queue \in Seq(Reqs), NEW b \in DOMAIN boxes, SendAll(queue, b, boxes),
             UNCHANGED <<mailboxes, connecting>>
      PROVE  MarksGood
  <2>1. /\ Len(boxes') = Len(boxes)
        /\ \A c \in DOMAIN boxes : SameButRequests(boxes'[c], boxes[c])
    BY <1>1, <1>4, SendAllFacts
  <2>2. \A c \in DOMAIN boxes : Further(boxes'[c], boxes[c])
    BY <1>1, <2>1, EventsFurther
  <2> QED
    BY <1>4, <2>1, <2>2, MarksStep
<1>5. CASE Start \/ StartTick \/ StopGracefully
  BY <1>2, <1>5 DEF Start, StartTick, StopGracefully, waitVars
<1>6. CASE StopForced \/ GraceTimeout
  <2>1. /\ CloseBoxes(Registered) /\ Registered \subseteq DOMAIN boxes
        /\ connecting' = connecting
        /\ \A s \in Servers : mailboxes'[s] = mailboxes[s] \/ mailboxes'[s] = NoBox
    BY <1>6, RegisteredExist DEF StopForced, GraceTimeout, CloseAll, waitVars
  <2> QED
    BY <1>3, <2>1
<1>7. ASSUME NEW s, NEW list, AddServer(s) \/ ReplaceServers(list) PROVE MarksGood
  BY <1>2, <1>7 DEF AddServer, ReplaceServers, waitVars
<1>8. \A s \in Servers : \A t \in Servers :
        Unregister(s)[t] = mailboxes[t] \/ Unregister(s)[t] = NoBox
  BY DEF Unregister, TypeOK
<1>9. ASSUME NEW s \in Servers, RemoveServer(s) PROVE MarksGood
  <2>1. /\ CloseBoxes({mailboxes[s]} \ {NoBox}) /\ {mailboxes[s]} \ {NoBox} \subseteq DOMAIN boxes
        /\ mailboxes' = Unregister(s) /\ connecting' = connecting
    BY <1>9 DEF RemoveServer, waitVars, TypeOK, NoBox
  <2> QED
    BY <1>3, <1>8, <2>1
<1>10. ASSUME NEW r \in Reqs, NEW s \in Servers, Dispatch(r, s) PROVE MarksGood
  <2>1. CASE DispatchRefused(r, s) \/ DispatchPending(r, s) \/ DispatchFilter(r, s)
    BY <1>2, <2>1 DEF DispatchRefused, DispatchPending, DispatchFilter, waitVars
  <2>2. CASE DispatchFirst(r, s)
    BY <1>1, <2>2, MarksCreate DEF DispatchFirst, LazyConnect
  <2>3. CASE DispatchSend(r, s)
    <3>1. mailboxes[s] \in DOMAIN boxes /\ <<r>> \in Seq(Reqs)
      BY <2>3 DEF DispatchSend, TypeOK, NoBox
    <3> QED
      BY <1>4, <2>3, <3>1 DEF DispatchSend, waitVars
  <2> QED
    BY <1>10, <2>1, <2>2, <2>3 DEF Dispatch
<1>11. ASSUME NEW f \in filtering, NEW target \in {f[2]} \cup FilterTargets,
              FilterDone(f[1], f[2], target)
       PROVE  MarksGood
  <2>1. target \in Servers /\ <<f[1]>> \in Seq(Reqs)
    <3>1. f \in Reqs \X Servers /\ FilterTargets \subseteq Servers
      BY MailStationAssumption DEF TypeOK
    <3> QED
      BY <3>1
  <2>2. CASE mailboxes[target] = NoBox
    BY <1>2, <1>11, <2>2 DEF FilterDone
  <2>3. CASE mailboxes[target] # NoBox
    <3>1. mailboxes[target] \in DOMAIN boxes
      BY <2>1, <2>3, MailboxExists
    <3>2. SendAll(<<f[1]>>, mailboxes[target], boxes) /\ UNCHANGED <<mailboxes, connecting>>
      BY <1>11, <2>3 DEF FilterDone
    <3> QED
      BY <1>4, <2>1, <3>1, <3>2
  <2> QED
    BY <2>2, <2>3
<1>12. ASSUME NEW f \in filtering, FilterError(f[1], f[2]) PROVE MarksGood
  BY <1>2, <1>12 DEF FilterError
<1>13. ASSUME NEW b \in DOMAIN boxes, MailboxConnected(b) PROVE MarksGood
  BY <1>13, MarksConnected
<1>14. \A b \in DOMAIN boxes : boxes[b].server \in Servers
  BY <1>1 DEF Boxes
<1>15. ASSUME NEW b \in DOMAIN boxes, MailboxFailed(b) PROVE MarksGood
  <2>1. /\ boxes' = [boxes EXCEPT ![b] = Failed(@)] /\ connecting' = connecting
        /\ mailboxes' = Unregister(boxes[b].server)
    BY <1>15 DEF MailboxFailed, waitVars
  <2>2. /\ Len(boxes') = Len(boxes)
        /\ \A c \in DOMAIN boxes : Further(boxes'[c], boxes[c])
    BY <1>1, <2>1, EventsFurther
  <2> QED
    BY <1>8, <1>14, <2>1, <2>2, MarksStep
<1>16. ASSUME NEW b \in DOMAIN boxes, MailboxEnded(b) PROVE MarksGood
  <2>1. /\ connecting' = connecting
        /\ mailboxes' = mailboxes \/ mailboxes' = Unregister(boxes[b].server)
    BY <1>16 DEF MailboxEnded, waitVars
  <2>2. /\ Len(boxes') = Len(boxes)
        /\ \A c \in DOMAIN boxes : Further(boxes'[c], boxes[c])
    BY <1>1, <1>16, EndedFacts, EventsFurther
  <2> QED
    BY <1>8, <1>14, <2>1, <2>2, MarksStep
<1>17. ASSUME NEW b \in DOMAIN boxes, NEW r \in Reqs, Complete(b, r) PROVE MarksGood
  <2>1. /\ boxes' = [boxes EXCEPT ![b] = Without(@, r)]
        /\ UNCHANGED <<mailboxes, connecting>>
    BY <1>17 DEF Complete, waitVars
  <2>2. SameButRequests(Without(boxes[b], r), boxes[b])
    BY <1>1 DEF Without, Boxes, SameButRequests
  <2>3. /\ Len(boxes') = Len(boxes)
        /\ \A c \in DOMAIN boxes : Further(boxes'[c], boxes[c])
    BY <1>1, <2>1, <2>2, EventsFurther
  <2> QED
    BY <2>1, <2>3, MarksStep
<1>18. CASE UNCHANGED vars
  BY <1>2, <1>18 DEF vars
<1> QED
  BY <1>5, <1>6, <1>7, <1>9, <1>10, <1>11, <1>12, <1>13, <1>15, <1>16, <1>17, <1>18
  DEF Next

\* A server comes to have an unready mailbox that dispatch() would use only when
\* an earlier mailbox of it connects, over whatever transport.
THEOREM MarkClearedByPredecessor == Spec => UnreadyOnlyByLate
<1>1. Init => NewestRegistered
  BY DEF Init, NewestRegistered, NoBox
<1>2. TypeOK /\ TypeOK' /\ NewestRegistered /\ [Next]_vars => NewestRegistered'
  BY MarksNext DEF MarksGood
<1>3. Spec => []NewestRegistered
  BY <1>1, <1>2, TypeCorrect, PTL DEF Spec
<1>4. TypeOK /\ TypeOK' /\ NewestRegistered /\ [Next]_vars =>
        [\A s \in Servers : Unready(s)' /\ ~Unready(s) =>
           \E b \in DOMAIN boxes : ConnectsOver(b, s)]_vars
  BY MarksNext DEF MarksGood
<1> QED
  BY <1>3, <1>4, TypeCorrect, PTL DEF Spec, UnreadyOnlyByLate

-----------------------------------------------------------------------------
(* The way of a request through the station.                               *)

\* A request that occurs in a list at most once.
LEMMA TimesInList ==
  ASSUME NEW queue \in Seq(Reqs), IsInjective(queue), NEW r \in Reqs
  PROVE  Cardinality({i \in DOMAIN queue : queue[i] = r}) = IF r \in Range(queue) THEN 1 ELSE 0
<1>1. CASE r \in Range(queue)
  <2>1. PICK i \in DOMAIN queue : queue[i] = r
    BY <1>1 DEF Range
  <2>2. {j \in DOMAIN queue : queue[j] = r} = {i}
    BY <2>1 DEF IsInjective
  <2> QED
    BY <1>1, <2>2, FS_Singleton
<1>2. CASE r \notin Range(queue)
  <2>1. {j \in DOMAIN queue : queue[j] = r} = {}
    BY <1>2 DEF Range
  <2> QED
    BY <1>2, <2>1, FS_EmptySet
<1> QED
  BY <1>1, <1>2

\* A request is pending in one position of one queue, or in the hands of the
\* filters for one server, or handed over once, or none of these; and none before
\* it is dispatched.
OnePlace ==
  /\ \A r \in Reqs \ dispatched : sent[r] = 0 /\ ~Pending(r) /\ ~Filtering(r)
  /\ \A r \in Reqs : sent[r] # 0 => ~Pending(r) /\ ~Filtering(r)
  /\ \A r \in Reqs : Pending(r) => ~Filtering(r)
  /\ \A s, t \in Servers : \A i \in DOMAIN pendings[s], j \in DOMAIN pendings[t] :
       pendings[s][i] = pendings[t][j] => s = t /\ i = j
  /\ \A f, g \in filtering : f[1] = g[1] => f = g
  /\ SentAtMostOnce

\* A handler after which every request is where it was, or in fewer places.
LEMMA OnePlaceLess ==
  ASSUME OnePlace, dispatched \subseteq dispatched', filtering' \subseteq filtering,
         UNCHANGED sent,
         \A s \in Servers : pendings'[s] = pendings[s] \/ pendings'[s] = <<>>
  PROVE  OnePlace'
<1>1. \A r : Pending(r)' => Pending(r)
  BY DEF Pending, Range
<1>2. \A r : Filtering(r)' => Filtering(r)
  BY DEF Filtering
<1>3. \A s, t \in Servers : \A i \in DOMAIN pendings'[s], j \in DOMAIN pendings'[t] :
        pendings'[s][i] = pendings'[t][j] => s = t /\ i = j
  BY DEF OnePlace
<1>4. \A f, g \in filtering' : f[1] = g[1] => f = g
  BY DEF OnePlace
<1> QED
  BY <1>1, <1>2, <1>3, <1>4 DEF OnePlace, SentAtMostOnce

\* A list of requests is handed to a mailbox, out of the only place where it was.
LEMMA OnePlaceSent ==
  ASSUME TypeOK, OnePlace, NEW queue \in Seq(Reqs), IsInjective(queue),
         NEW bxs, NEW b, SendAll(queue, b, bxs),
         \A r \in Range(queue) : r \in dispatched' /\ sent[r] = 0 /\ ~Pending(r)'
                                 /\ ~Filtering(r)',
         dispatched \subseteq dispatched', filtering' \subseteq filtering,
         \A s \in Servers : pendings'[s] = pendings[s] \/ pendings'[s] = <<>>
  PROVE  OnePlace'
<1>1. \A r \in Reqs : sent'[r] = IF r \in Range(queue) THEN 1 ELSE sent[r]
  <2> SUFFICES ASSUME NEW r \in Reqs
               PROVE  sent'[r] = IF r \in Range(queue) THEN 1 ELSE sent[r]
    OBVIOUS
  <2> DEFINE times == Cardinality({i \in DOMAIN queue : queue[i] = r})
  <2>1. sent'[r] = sent[r] + times
    BY DEF SendAll
  <2>2. times = IF r \in Range(queue) THEN 1 ELSE 0
    BY TimesInList
  <2>3. sent[r] \in Nat /\ (r \in Range(queue) => sent[r] = 0)
    BY DEF TypeOK
  <2> HIDE DEF times
  <2> QED
    BY <2>1, <2>2, <2>3
<1>2. \A r : Pending(r)' => Pending(r)
  BY DEF Pending, Range
<1>3. \A r : Filtering(r)' => Filtering(r)
  BY DEF Filtering
<1>4. \A s, t \in Servers : \A i \in DOMAIN pendings'[s], j \in DOMAIN pendings'[t] :
        pendings'[s][i] = pendings'[t][j] => s = t /\ i = j
  BY DEF OnePlace
<1>5. \A f, g \in filtering' : f[1] = g[1] => f = g
  BY DEF OnePlace
<1>6. /\ \A r \in Reqs \ dispatched' : sent'[r] = 0 /\ ~Pending(r)' /\ ~Filtering(r)'
      /\ \A r \in Reqs : sent'[r] # 0 => ~Pending(r)' /\ ~Filtering(r)'
      /\ \A r \in Reqs : Pending(r)' => ~Filtering(r)'
  BY <1>1, <1>2, <1>3 DEF OnePlace
<1>7. SentAtMostOnce'
  BY <1>1 DEF OnePlace, SentAtMostOnce
<1> QED
  BY <1>4, <1>5, <1>6, <1>7 DEF OnePlace

\* A request that has not been dispatched joins the queue of a server.
LEMMA OnePlaceAdded ==
  ASSUME TypeOK, OnePlace, NEW r \in Reqs \ dispatched, NEW s \in Servers,
         AddToPending(r, s), dispatched' = dispatched \cup {r}, UNCHANGED <<filtering, sent>>
  PROVE  OnePlace'
<1>1. sent[r] = 0 /\ ~Pending(r) /\ ~Filtering(r)
  BY DEF OnePlace
<1>2. CASE pendings' = pendings
  BY <1>2, OnePlaceLess
<1>3. CASE pendings' = [pendings EXCEPT ![s] = Append(@, r)]
  <2> DEFINE longer == Append(pendings[s], r)
             n == Len(pendings[s])
  <2>1. /\ pendings[s] \in Seq(Reqs) /\ DOMAIN pendings[s] = 1..n /\ n \in Nat
        /\ DOMAIN longer = 1..n + 1
        /\ \A i \in 1..n : longer[i] = pendings[s][i]
        /\ longer[n + 1] = r
    <3>1. pendings[s] \in Seq(Reqs)
      BY DEF TypeOK
    <3> QED
      BY <3>1, AppendProperties
  <2>2. pendings'[s] = longer /\ \A t \in Servers \ {s} : pendings'[t] = pendings[t]
    BY <1>3 DEF TypeOK
  <2> HIDE DEF longer, n
  <2>3. \A q : Pending(q)' <=> Pending(q) \/ q = r
    <3>1. \A q : q \in Range(longer) <=> q \in Range(pendings[s]) \/ q = r
      BY <2>1 DEF Range
    <3> QED
      BY <2>2, <3>1 DEF Pending
  <2>4. \A t \in Servers : \A i \in DOMAIN pendings[t] : pendings[t][i] # r
    BY <1>1 DEF Pending, Range
  <2>5. \A t, u \in Servers : \A i \in DOMAIN pendings'[t], j \in DOMAIN pendings'[u] :
          pendings'[t][i] = pendings'[u][j] => t = u /\ i = j
    <3>1. \A t \in Servers : \A i \in DOMAIN pendings'[t] :
            \/ i \in DOMAIN pendings[t] /\ pendings'[t][i] = pendings[t][i]
            \/ t = s /\ i = n + 1 /\ pendings'[t][i] = r
      BY <2>1, <2>2
    <3> QED
      BY <2>4, <3>1 DEF OnePlace
  <2>6. \A q : Filtering(q)' <=> Filtering(q)
    BY DEF Filtering
  <2>7. /\ \A q \in Reqs \ dispatched' : sent'[q] = 0 /\ ~Pending(q)' /\ ~Filtering(q)'
        /\ \A q \in Reqs : sent'[q] # 0 => ~Pending(q)' /\ ~Filtering(q)'
        /\ \A q \in Reqs : Pending(q)' => ~Filtering(q)'
    BY <1>1, <2>3, <2>6 DEF OnePlace
  <2> QED
    BY <2>5, <2>7 DEF OnePlace, SentAtMostOnce
<1> QED
  BY <1>2, <1>3 DEF AddToPending

\* Requests pass from wherever they are, and are in one place, to the filters.
LEMMA OnePlaceFiltered ==
  ASSUME OnePlace, NEW rs \in SUBSET Reqs, NEW s \in Servers,
         \A r \in rs : r \in dispatched' /\ sent[r] = 0 /\ ~Pending(r)' /\ ~Filtering(r),
         filtering \subseteq Reqs \X Servers, filtering' = filtering \cup (rs \X {s}),
         dispatched \subseteq dispatched', UNCHANGED sent,
         \A t \in Servers : pendings'[t] = pendings[t] \/ pendings'[t] = <<>>
  PROVE  OnePlace'
<1>1. \A r : Pending(r)' => Pending(r)
  BY DEF Pending, Range
<1>2. \A r : Filtering(r)' <=> Filtering(r) \/ r \in rs
  BY DEF Filtering
<1>3. \A t, u \in Servers : \A i \in DOMAIN pendings'[t], j \in DOMAIN pendings'[u] :
        pendings'[t][i] = pendings'[u][j] => t = u /\ i = j
  BY DEF OnePlace
<1>4. \A f, g \in filtering' : f[1] = g[1] => f = g
  <2> SUFFICES ASSUME NEW f \in filtering', NEW g \in filtering', f[1] = g[1]
               PROVE  f = g
    OBVIOUS
  <2>1. \A h \in filtering : Filtering(h[1])
    BY DEF Filtering
  <2>2. CASE f \in filtering /\ g \in filtering
    BY <2>2 DEF OnePlace
  <2>3. CASE f \in rs \X {s} /\ g \in rs \X {s}
    BY <2>3
  <2>4. \A h \in rs \X {s} : h[1] \in rs
    OBVIOUS
  <2> QED
    BY <2>1, <2>2, <2>3, <2>4
<1>5. /\ \A r \in Reqs \ dispatched' : sent'[r] = 0 /\ ~Pending(r)' /\ ~Filtering(r)'
      /\ \A r \in Reqs : sent'[r] # 0 => ~Pending(r)' /\ ~Filtering(r)'
      /\ \A r \in Reqs : Pending(r)' => ~Filtering(r)'
  BY <1>1, <1>2 DEF OnePlace
<1> QED
  BY <1>3, <1>4, <1>5 DEF OnePlace, SentAtMostOnce

\* A pending queue names each request once, and no request of it is anywhere else.
LEMMA QueueAlone ==
  ASSUME TypeOK, OnePlace, NEW s \in Servers
  PROVE  /\ IsInjective(pendings[s]) /\ Range(pendings[s]) \subseteq Reqs
         /\ \A r \in Range(pendings[s]) :
              r \in dispatched /\ sent[r] = 0 /\ ~Filtering(r)
         /\ \A r \in Range(pendings[s]), t \in Servers \ {s} : r \notin Range(pendings[t])
<1>1. pendings[s] \in Seq(Reqs)
  BY DEF TypeOK
<1>2. \A r \in Range(pendings[s]) : Pending(r) /\ r \in Reqs
  BY <1>1, RangeOfSequence DEF Pending
<1>3. IsInjective(pendings[s])
  BY DEF OnePlace, IsInjective
<1>4. \A r \in Range(pendings[s]), t \in Servers \ {s} : r \notin Range(pendings[t])
  BY DEF OnePlace, Range
<1>5. \A r \in Range(pendings[s]) : r \in dispatched /\ sent[r] = 0 /\ ~Filtering(r)
  BY <1>2 DEF OnePlace
<1> QED
  BY <1>2, <1>3, <1>4, <1>5

\* flushPending() moves the requests of a server with a registered mailbox on.
LEMMA OnePlaceFlushed ==
  ASSUME TypeOK, OnePlace, NEW s \in Servers, NEW bxs, mailboxes[s] # NoBox,
         FlushPending(s, bxs), UNCHANGED dispatched
  PROVE  OnePlace'
<1>1. CASE FlushNothing(s, bxs)
  BY <1>1, OnePlaceLess DEF FlushNothing
<1>2. \A t \in Servers : ForgetPending(s)[t] = IF t = s THEN <<>> ELSE pendings[t]
  BY DEF ForgetPending, TypeOK
<1>3. CASE FlushRefused(s, bxs)
  BY <1>2, <1>3, OnePlaceLess DEF FlushRefused
<1>4. CASE FlushSend(s, bxs)
  <2>1. pendings' = ForgetPending(s)
    BY <1>4 DEF FlushSend
  <2>2. /\ IsInjective(pendings[s]) /\ Range(pendings[s]) \subseteq Reqs
        /\ \A r \in Range(pendings[s]) : r \in dispatched /\ sent[r] = 0 /\ ~Filtering(r)
        /\ \A r \in Range(pendings[s]), t \in Servers \ {s} : r \notin Range(pendings[t])
    BY QueueAlone
  <2>3. \A r \in Range(pendings[s]) : ~Pending(r)'
    <3>1. Range(<<>>) = {}
      BY DEF Range
    <3>2. \A t \in Servers : pendings'[t] = IF t = s THEN <<>> ELSE pendings[t]
      BY <1>2, <2>1
    <3> QED
      BY <2>2, <3>1, <3>2 DEF Pending
  <2>4. CASE AsyncFilter
    <3>1. /\ filtering' = filtering \cup (Range(pendings[s]) \X {s}) /\ sent' = sent
          /\ filtering \subseteq Reqs \X Servers
      BY <1>4, <2>4 DEF FlushSend, TypeOK
    <3> QED
      BY <1>2, <2>1, <2>2, <2>3, <3>1, OnePlaceFiltered
  <2>5. CASE ~AsyncFilter
    <3>1. SendAll(pendings[s], mailboxes[s], bxs) /\ filtering' = filtering
      BY <1>4, <2>5 DEF FlushSend
    <3>2. \A r \in Range(pendings[s]) : ~Filtering(r)'
      BY <2>2, <3>1 DEF Filtering
    <3>3. pendings[s] \in Seq(Reqs)
      BY DEF TypeOK
    <3> QED
      BY <1>2, <2>1, <2>2, <2>3, <3>1, <3>2, <3>3, OnePlaceSent
  <2> QED
    BY <2>4, <2>5
<1> QED
  BY <1>1, <1>3, <1>4 DEF FlushPending, FlushReconnect

\* dispatch() takes a request to the first place where it is.
LEMMA OnePlaceDispatched ==
  ASSUME TypeOK, OnePlace, NEW r \in Reqs, NEW s \in Servers, Dispatch(r, s)
  PROVE  OnePlace'
<1>1. r \in Reqs \ dispatched /\ dispatched' = dispatched \cup {r}
  BY DEF Dispatch
<1>2. sent[r] = 0 /\ ~Pending(r) /\ ~Filtering(r)
  BY <1>1 DEF OnePlace
<1>3. CASE DispatchRefused(r, s)
  BY <1>1, <1>3, OnePlaceLess DEF DispatchRefused, waitVars
<1>4. CASE DispatchFirst(r, s) \/ DispatchPending(r, s)
  BY <1>1, <1>4, OnePlaceAdded DEF DispatchFirst, DispatchPending
<1>5. CASE DispatchSend(r, s)
  <2>1. <<r>> \in Seq(Reqs) /\ Range(<<r>>) = {r} /\ IsInjective(<<r>>)
    BY DEF Range, IsInjective
  <2>2. SendAll(<<r>>, mailboxes[s], boxes) /\ pendings' = pendings /\ filtering' = filtering
    BY <1>5 DEF DispatchSend, waitVars
  <2>3. ~Pending(r)' /\ ~Filtering(r)'
    BY <1>2, <2>2 DEF Pending, Filtering
  <2> QED
    BY <1>1, <1>2, <2>1, <2>2, <2>3, OnePlaceSent
<1>6. CASE DispatchFilter(r, s)
  <2>1. /\ filtering' = filtering \cup ({r} \X {s}) /\ UNCHANGED <<sent, pendings>>
        /\ filtering \subseteq Reqs \X Servers
    BY <1>6 DEF DispatchFilter, TypeOK
  <2>2. \A q \in {r} : q \in dispatched' /\ sent[q] = 0 /\ ~Pending(q)' /\ ~Filtering(q)
    BY <1>1, <1>2, <2>1 DEF Pending
  <2>3. {r} \in SUBSET Reqs /\ dispatched \subseteq dispatched'
        /\ \A t \in Servers : pendings'[t] = pendings[t]
    BY <1>1, <2>1
  <2> QED
    BY <2>1, <2>2, <2>3, OnePlaceFiltered
<1> QED
  BY <1>3, <1>4, <1>5, <1>6 DEF Dispatch

\* The filters are done with a request, which is sent or refused.
LEMMA OnePlaceFilterDone ==
  ASSUME TypeOK, OnePlace, NEW f \in filtering, NEW target, FilterDone(f[1], f[2], target)
  PROVE  OnePlace'
<1> DEFINE r == f[1]
<1>1. /\ r \in Reqs /\ f[2] \in Servers /\ f = <<r, f[2]>>
      /\ filtering' = filtering \ {<<r, f[2]>>} /\ UNCHANGED <<pendings, dispatched>>
  BY DEF FilterDone, TypeOK
<1>2. CASE mailboxes[target] = NoBox
  BY <1>1, <1>2, OnePlaceLess DEF FilterDone
<1>3. CASE mailboxes[target] # NoBox
  <2>1. SendAll(<<r>>, mailboxes[target], boxes)
    BY <1>3 DEF FilterDone
  <2>2. Filtering(r)
    BY <1>1 DEF Filtering
  <2>3. r \in dispatched /\ sent[r] = 0 /\ ~Pending(r)
    BY <1>1, <2>2 DEF OnePlace
  <2>4. ~Pending(r)'
    BY <1>1, <2>3 DEF Pending
  <2>5. ~Filtering(r)'
    <3> SUFFICES ASSUME NEW s \in Servers, <<r, s>> \in filtering' PROVE FALSE
      BY DEF Filtering
    <3>1. <<r, s>> \in filtering /\ <<r, s>>[1] = f[1]
      BY <1>1
    <3>2. <<r, s>> = f
      BY <3>1 DEF OnePlace
    <3> QED
      BY <1>1, <3>2
  <2>6. <<r>> \in Seq(Reqs) /\ Range(<<r>>) = {r} /\ IsInjective(<<r>>)
    BY <1>1 DEF Range, IsInjective
  <2> HIDE DEF r
  <2> QED
    BY <1>1, <2>1, <2>3, <2>4, <2>5, <2>6, OnePlaceSent
<1> QED
  BY <1>2, <1>3

\* Over socket.io no request is handed to a mailbox twice.  The mailbox that
\* connects is the registered one, so that flushing never connects again; over ws
\* it may, and then leaves requests in the queue that it also sent.
THEOREM SioSentAtMostOnce ==
  ASSUME Transport = "sio"
  PROVE  Spec => []SentAtMostOnce
<1>1. Init => OnePlace
  <2> SUFFICES ASSUME Init PROVE OnePlace
    OBVIOUS
  <2>1. \A r : ~Pending(r) /\ ~Filtering(r)
    BY DEF Init, Pending, Filtering, Range
  <2> QED
    BY <2>1 DEF Init, OnePlace, SentAtMostOnce
<1>2. TypeOK /\ LiveMailboxRegistered /\ OnePlace /\ [Next]_vars => OnePlace'
  <2> SUFFICES ASSUME TypeOK, LiveMailboxRegistered, OnePlace, [Next]_vars PROVE OnePlace'
    OBVIOUS
  <2>1. ASSUME UNCHANGED <<dispatched, filtering, sent, pendings>> PROVE OnePlace'
    BY <2>1, OnePlaceLess
  <2>2. CASE Start \/ StartTick \/ StopForced \/ StopGracefully \/ GraceTimeout
    BY <2>1, <2>2 DEF Start, StartTick, StopForced, StopGracefully, GraceTimeout, waitVars
  <2>3. ASSUME NEW s, NEW list, AddServer(s) \/ RemoveServer(s) \/ ReplaceServers(list)
        PROVE  OnePlace'
    BY <2>1, <2>3 DEF AddServer, RemoveServer, ReplaceServers, waitVars
  <2>4. ASSUME NEW r \in Reqs, NEW s \in Servers, Dispatch(r, s) PROVE OnePlace'
    BY <2>4, OnePlaceDispatched
  <2>5. ASSUME NEW f \in filtering, NEW target, FilterDone(f[1], f[2], target)
        PROVE  OnePlace'
    BY <2>5, OnePlaceFilterDone
  <2>6. ASSUME NEW f \in filtering, FilterError(f[1], f[2]) PROVE OnePlace'
    BY <2>6, OnePlaceLess DEF FilterError
  <2>7. ASSUME NEW b \in DOMAIN boxes, MailboxConnected(b) PROVE OnePlace'
    <3>1. boxes[b] \in Boxes /\ b # NoBox
      BY DEF TypeOK, NoBox
    <3>2. boxes[b].server \in Servers /\ mailboxes[boxes[b].server] # NoBox
      BY <2>7, <3>1 DEF Boxes, MailboxConnected, LiveMailboxRegistered
    <3> QED
      BY <2>7, <3>2, OnePlaceFlushed DEF MailboxConnected
  <2>8. ASSUME NEW b, NEW r, MailboxFailed(b) \/ MailboxEnded(b) \/ Complete(b, r)
        PROVE  OnePlace'
    BY <2>1, <2>8 DEF MailboxFailed, MailboxEnded, Complete, waitVars
  <2>9. CASE UNCHANGED vars
    BY <2>1, <2>9 DEF vars
  <2> QED
    BY <2>2, <2>3, <2>4, <2>5, <2>6, <2>7, <2>8, <2>9 DEF Next
<1>3. Spec => []LiveMailboxRegistered
  BY SioLiveRegistered
<1>4. Spec => []OnePlace
  BY <1>1, <1>2, <1>3, TypeCorrect, PTL DEF Spec
<1> QED
  BY <1>4, PTL DEF OnePlace

-----------------------------------------------------------------------------
\* Mailboxes after a step that takes no request from any of them.
HoldingKept ==
  \A b \in DOMAIN boxes : b \in DOMAIN boxes' /\ boxes[b].inflight \subseteq boxes'[b].inflight

\* A handler that takes no request from where it is loses none.
LEMMA LostKept ==
  ASSUME NEW r, ~Lost(r), HoldingKept, UNCHANGED <<dispatched, pendings, filtering>>,
         called \subseteq called', thrown \subseteq thrown'
  PROVE  ~Lost(r)'
<1>1. InFlight(r) => InFlight(r)'
  BY DEF InFlight, HoldingKept
<1> QED
  BY <1>1 DEF Lost, Pending, Filtering

\* Closing mailboxes, and the events of a mailbox, take no request from it.
LEMMA ShutKeepsRequests ==
  ASSUME NEW b \in Boxes
  PROVE  /\ Shut(b).inflight = b.inflight /\ Ended(b).inflight = b.inflight
         /\ Failed(b).inflight = b.inflight /\ Opened(b).inflight = b.inflight
         /\ Shut(Ended(b)).inflight = b.inflight
<1>1. Ended(b) \in Boxes /\ Ended(b).inflight = b.inflight
  BY EventFacts DEF Ended, Boxes
<1> QED
  BY <1>1, ShutFacts DEF Failed, Opened, Boxes

\* Requests handed to a mailbox are kept by it or called back.
LEMMA SendKeeps ==
  ASSUME NEW queue \in Seq(Reqs), NEW bxs \in Seq(Boxes), NEW b \in DOMAIN bxs,
         SendAll(queue, b, bxs)
  PROVE  /\ called \subseteq called'
         /\ \A c \in DOMAIN bxs : c \in DOMAIN boxes' /\ bxs[c].inflight \subseteq boxes'[c].inflight
         /\ \A r \in Range(queue) : r \in called' \/ InFlight(r)'
<1>1. bxs[b] \in Boxes
  OBVIOUS
<1>2. CASE Usable(bxs[b])
  <2> DEFINE after == Holding(bxs[b], Range(queue))
  <2>1. boxes' = [bxs EXCEPT ![b] = after] /\ called' = called
    BY <1>2 DEF SendAll
  <2>2. after.inflight = bxs[b].inflight \cup Range(queue)
    BY <1>1 DEF Holding, Boxes
  <2> HIDE DEF after
  <2>3. /\ boxes'[b] = after /\ DOMAIN boxes' = DOMAIN bxs
        /\ \A c \in DOMAIN bxs \ {b} : boxes'[c] = bxs[c]
    BY <2>1
  <2> QED
    BY <2>1, <2>2, <2>3 DEF InFlight
<1>3. CASE ~Usable(bxs[b])
  BY <1>3 DEF SendAll
<1> QED
  BY <1>2, <1>3

\* A request gets lost only when a mailbox connects that is not registered any
\* more, over whatever transport.
LostToLate(q) ==
  \E b \in DOMAIN boxes : ConnectsLate(b) /\ q \in Range(pendings[boxes[b].server])

LEMMA LostStep ==
  ASSUME TypeOK, [Next]_vars, NEW q \in Reqs, ~Lost(q), ~LostToLate(q)
  PROVE  ~Lost(q)'
<1>1. /\ boxes \in Seq(Boxes) /\ \A b \in DOMAIN boxes : boxes[b] \in Boxes
      /\ DOMAIN boxes = 1..Len(boxes)
  BY DEF TypeOK
<1>2. ASSUME UNCHANGED <<boxes, dispatched, pendings, filtering, thrown>>,
             called \subseteq called'
      PROVE  ~Lost(q)'
  BY <1>2, LostKept DEF HoldingKept
<1>3. CASE Start \/ StartTick \/ StopGracefully
  BY <1>2, <1>3 DEF Start, StartTick, StopGracefully, waitVars
<1>4. ASSUME NEW S \in SUBSET DOMAIN boxes, CloseBoxes(S),
             UNCHANGED <<dispatched, pendings, filtering, thrown>>
      PROVE  ~Lost(q)'
  <2>1. /\ Len(boxes') = Len(boxes) /\ boxes' \in Seq(Boxes)
        /\ \A b \in DOMAIN boxes : boxes'[b] = IF b \in S THEN Shut(boxes[b]) ELSE boxes[b]
    BY <1>4, CloseBoxesFacts
  <2>2. HoldingKept
    BY <1>1, <2>1, ShutKeepsRequests DEF HoldingKept
  <2> QED
    BY <1>4, <2>2, LostKept DEF CloseBoxes
<1>5. CASE StopForced \/ GraceTimeout
  <2>1. /\ CloseBoxes(Registered) /\ Registered \subseteq DOMAIN boxes
        /\ UNCHANGED <<dispatched, pendings, filtering, thrown>>
    BY <1>5, RegisteredExist DEF StopForced, GraceTimeout, CloseAll, waitVars
  <2> QED
    BY <1>4, <2>1
<1>6. ASSUME NEW s \in Servers, RemoveServer(s) PROVE ~Lost(q)'
  <2>1. /\ CloseBoxes({mailboxes[s]} \ {NoBox}) /\ {mailboxes[s]} \ {NoBox} \subseteq DOMAIN boxes
        /\ UNCHANGED <<dispatched, pendings, filtering, thrown>>
    BY <1>6 DEF RemoveServer, waitVars, TypeOK, NoBox
  <2> QED
    BY <1>4, <2>1
<1>7. ASSUME NEW s, NEW list, AddServer(s) \/ ReplaceServers(list)
      PROVE  ~Lost(q)'
  BY <1>2, <1>7 DEF AddServer, ReplaceServers, waitVars
<1>8. ASSUME NEW r \in Reqs, NEW s \in Servers, Dispatch(r, s) PROVE ~Lost(q)'
  <2>1. dispatched' = dispatched \cup {r}
    BY <1>8 DEF Dispatch
  <2>2. ASSUME HoldingKept, called \subseteq called', thrown \subseteq thrown',
               filtering \subseteq filtering',
               \A p : Pending(p) => Pending(p)',
               \/ r \in called' \/ r \in thrown' \/ Pending(r)' \/ InFlight(r)'
               \/ <<r, s>> \in filtering'
        PROVE  ~Lost(q)'
    <3>1. \A p : InFlight(p) => InFlight(p)'
      BY <2>2 DEF InFlight, HoldingKept
    <3> QED
      BY <2>1, <2>2, <3>1 DEF Lost, Filtering
  <2>3. CASE DispatchRefused(r, s)
    BY <2>2, <2>3 DEF DispatchRefused, waitVars, HoldingKept, Pending
  <2>4. ASSUME AddToPending(r, s)
        PROVE  /\ thrown \subseteq thrown' /\ \A p : Pending(p) => Pending(p)'
               /\ r \in thrown' \/ Pending(r)'
    <3>1. CASE thrown' = thrown \cup {r} /\ UNCHANGED pendings
      BY <3>1 DEF Pending
    <3>2. CASE pendings' = [pendings EXCEPT ![s] = Append(@, r)] /\ UNCHANGED thrown
      <4>1. pendings[s] \in Seq(Reqs)
        BY DEF TypeOK
      <4>2. \A p : p \in Range(Append(pendings[s], r)) <=> p \in Range(pendings[s]) \/ p = r
        BY <4>1, AppendProperties DEF Range
      <4>3. \A t \in Servers : pendings'[t] = IF t = s THEN Append(pendings[s], r)
                                              ELSE pendings[t]
        BY <3>2 DEF TypeOK
      <4> QED
        BY <3>2, <4>2, <4>3 DEF Pending
    <3> QED
      BY <2>4, <3>1, <3>2 DEF AddToPending
  <2>5. CASE DispatchFirst(r, s)
    <3>1. boxes' = Append(boxes, NewBox(s, r)) /\ NewBox(s, r) \in Boxes
      BY <2>5, NewBoxFacts DEF DispatchFirst, LazyConnect
    <3>2. HoldingKept
      BY <1>1, <3>1, AppendProperties DEF HoldingKept
    <3> QED
      BY <2>2, <2>4, <2>5, <3>2 DEF DispatchFirst
  <2>6. CASE DispatchPending(r, s)
    BY <2>2, <2>4, <2>6 DEF DispatchPending, HoldingKept
  <2>7. CASE DispatchSend(r, s)
    <3>1. mailboxes[s] \in DOMAIN boxes /\ <<r>> \in Seq(Reqs) /\ Range(<<r>>) = {r}
      BY <2>7 DEF DispatchSend, TypeOK, NoBox, Range
    <3>2. SendAll(<<r>>, mailboxes[s], boxes) /\ UNCHANGED <<pendings, filtering, thrown>>
      BY <2>7 DEF DispatchSend, waitVars
    <3>3. HoldingKept /\ called \subseteq called' /\ (r \in called' \/ InFlight(r)')
      BY <1>1, <3>1, <3>2, SendKeeps DEF HoldingKept
    <3> QED
      BY <2>2, <3>2, <3>3 DEF Pending
  <2>8. CASE DispatchFilter(r, s)
    BY <2>2, <2>8 DEF DispatchFilter, HoldingKept, Pending
  <2> QED
    BY <1>8, <2>3, <2>5, <2>6, <2>7, <2>8 DEF Dispatch
<1>9. ASSUME NEW f \in filtering, NEW target \in {f[2]} \cup FilterTargets,
             FilterDone(f[1], f[2], target)
      PROVE  ~Lost(q)'
  <2>1. /\ f[1] \in Reqs /\ f[2] \in Servers /\ target \in Servers /\ f = <<f[1], f[2]>>
        /\ filtering' = filtering \ {<<f[1], f[2]>>}
        /\ UNCHANGED <<pendings, dispatched, thrown>>
    BY <1>9, MailStationAssumption DEF FilterDone, TypeOK
  <2>2. HoldingKept /\ called \subseteq called' /\ (f[1] \in called' \/ InFlight(f[1])')
    <3>1. CASE mailboxes[target] = NoBox
      BY <1>9, <3>1 DEF FilterDone, HoldingKept
    <3>2. CASE mailboxes[target] # NoBox
      <4>1. mailboxes[target] \in DOMAIN boxes /\ <<f[1]>> \in Seq(Reqs)
            /\ Range(<<f[1]>>) = {f[1]}
        BY <2>1, <3>2 DEF TypeOK, NoBox, Range
      <4>2. SendAll(<<f[1]>>, mailboxes[target], boxes)
        BY <1>9, <3>2 DEF FilterDone
      <4> QED
        BY <1>1, <4>1, <4>2, SendKeeps DEF HoldingKept
    <3> QED
      BY <3>1, <3>2
  <2>3. \A r : InFlight(r) => InFlight(r)'
    BY <2>2 DEF InFlight, HoldingKept
  <2>4. \A r, s : <<r, s>> \in filtering /\ r # f[1] => <<r, s>> \in filtering'
    BY <2>1
  <2> QED
    BY <2>1, <2>2, <2>3, <2>4 DEF Lost, Filtering, Pending
<1>10. ASSUME NEW f \in filtering, FilterError(f[1], f[2]) PROVE ~Lost(q)'
  <2>1. /\ filtering' = filtering \ {<<f[1], f[2]>>} /\ called' = called \cup {f[1]}
        /\ UNCHANGED <<pendings, dispatched, thrown, boxes>>
    BY <1>10 DEF FilterError
  <2>2. \A r, s : <<r, s>> \in filtering /\ r # f[1] => <<r, s>> \in filtering'
    BY <2>1
  <2> QED
    BY <2>1, <2>2 DEF Lost, Filtering, Pending, InFlight
<1>11. ASSUME NEW b \in DOMAIN boxes, MailboxConnected(b) PROVE ~Lost(q)'
  <2> DEFINE s == boxes[b].server
             bxs == [boxes EXCEPT ![b] = Opened(@)]
  <2>1. boxes[b] \in Boxes
    BY <1>1
  <2>2. s \in Servers
    BY <2>1 DEF Boxes
  <2>3. /\ bxs \in Seq(Boxes) /\ DOMAIN bxs = DOMAIN boxes /\ Len(bxs) = Len(boxes)
        /\ \A c \in DOMAIN boxes : bxs[c].inflight = boxes[c].inflight
    <3>1. Opened(boxes[b]) \in Boxes /\ Opened(boxes[b]).inflight = boxes[b].inflight
      BY <2>1, EventFacts, ShutKeepsRequests
    <3> QED
      BY <1>1, <3>1
  <2>4. FlushPending(s, bxs) /\ dispatched' = dispatched
    BY <1>11 DEF MailboxConnected
  <2> HIDE DEF s, bxs
  <2>5. CASE FlushNothing(s, bxs)
    BY <2>3, <2>4, <2>5, LostKept DEF FlushNothing, HoldingKept
  <2>6. pendings[s] \in Seq(Reqs)
    BY <2>2 DEF TypeOK
  <2>7. ASSUME pendings' = ForgetPending(s), HoldingKept, called \subseteq called',
               filtering \subseteq filtering', thrown' = thrown,
               \A r \in Range(pendings[s]) :
                 r \in called' \/ <<r, s>> \in filtering' \/ InFlight(r)'
        PROVE  ~Lost(q)'
    <3>1. \A r : InFlight(r) => InFlight(r)'
      BY <2>7 DEF InFlight, HoldingKept
    <3>2. \A t \in Servers \ {s} : pendings'[t] = pendings[t]
      BY <2>7 DEF ForgetPending, TypeOK
    <3>3. \A r : Pending(r) => Pending(r)' \/ r \in Range(pendings[s])
      BY <3>2 DEF Pending
    <3> QED
      BY <2>2, <2>4, <2>7, <3>1, <3>3 DEF Lost, Filtering
  <2>8. CASE FlushRefused(s, bxs)
    BY <2>3, <2>7, <2>8 DEF FlushRefused, HoldingKept
  <2>9. CASE FlushSend(s, bxs)
    <3>1. pendings' = ForgetPending(s) /\ thrown' = thrown
      BY <2>9 DEF FlushSend
    <3>2. CASE AsyncFilter
      BY <2>3, <2>7, <2>9, <3>1, <3>2 DEF FlushSend, HoldingKept
    <3>3. CASE ~AsyncFilter
      <4>1. SendAll(pendings[s], mailboxes[s], bxs) /\ filtering' = filtering
        BY <2>9, <3>3 DEF FlushSend
      <4>2. mailboxes[s] \in DOMAIN bxs
        BY <1>1, <2>2, <2>3, <2>9 DEF FlushSend, TypeOK, NoBox
      <4>3. /\ HoldingKept /\ called \subseteq called'
            /\ \A r \in Range(pendings[s]) : r \in called' \/ InFlight(r)'
        BY <2>3, <2>6, <4>1, <4>2, SendKeeps DEF HoldingKept
      <4> QED
        BY <2>7, <3>1, <4>1, <4>3
    <3> QED
      BY <3>2, <3>3
  <2>10. CASE FlushReconnect(s, bxs)
    <3> DEFINE queue == pendings[s]
               new == NewBox(s, Head(queue))
    <3>1. /\ queue # <<>> /\ mailboxes[s] = NoBox /\ boxes' = Append(bxs, new)
          /\ thrown \subseteq thrown' /\ filtering' = filtering /\ called' = called
          /\ \A t \in Servers \ {s} : pendings'[t] = pendings[t]
      BY <2>2, <2>10 DEF FlushReconnect, ForgetPending, TypeOK
    <3>2. Head(queue) \in Reqs
      BY <2>6, <3>1
    <3>3. new \in Boxes
      BY <2>2, <3>2, NewBoxFacts
    <3> HIDE DEF queue, new
    <3>4. /\ DOMAIN bxs \subseteq DOMAIN boxes'
          /\ \A c \in DOMAIN bxs : boxes'[c] = bxs[c]
      BY <2>3, <3>1, <3>3, AppendProperties
    <3>5. boxes'[b].listening /\ boxes'[b].sock # "connecting"
      <4>1. Opened(boxes[b]).listening /\ Opened(boxes[b]).sock # "connecting"
        BY <2>1, EventFacts
      <4>2. boxes'[b] = Opened(boxes[b])
        BY <1>1, <2>3, <3>4 DEF bxs
      <4> QED
        BY <4>1, <4>2
    <3>6. boxes[b].sock = "connecting"
      BY <1>11 DEF MailboxConnected
    <3>7. q \notin Range(pendings[s])
      BY <3>1, <3>5, <3>6 DEF LostToLate, ConnectsLate, Connects, s
    <3>8. InFlight(q) => InFlight(q)'
      BY <2>3, <3>4 DEF InFlight
    <3>9. Pending(q) => Pending(q)'
      BY <3>1, <3>7 DEF Pending
    <3> QED
      BY <2>4, <3>1, <3>8, <3>9 DEF Lost, Filtering
  <2> QED
    BY <2>4, <2>5, <2>8, <2>9, <2>10 DEF FlushPending
<1>12. ASSUME NEW b \in DOMAIN boxes, MailboxFailed(b) PROVE ~Lost(q)'
  <2>1. /\ boxes' = [boxes EXCEPT ![b] = Failed(@)] /\ called \subseteq called'
        /\ UNCHANGED <<dispatched, pendings, filtering, thrown>>
    BY <1>12 DEF MailboxFailed, waitVars
  <2>2. HoldingKept
    BY <1>1, <2>1, ShutKeepsRequests DEF HoldingKept
  <2> QED
    BY <2>1, <2>2, LostKept
<1>13. ASSUME NEW b \in DOMAIN boxes, MailboxEnded(b) PROVE ~Lost(q)'
  <2>1. called \subseteq called' /\ UNCHANGED <<dispatched, pendings, filtering, thrown>>
    BY <1>13 DEF MailboxEnded, waitVars
  <2>2. /\ Len(boxes') = Len(boxes) /\ boxes' \in Seq(Boxes)
        /\ \A c \in DOMAIN boxes : \/ boxes'[c] = boxes[c] \/ boxes'[c] = Ended(boxes[c])
                                   \/ boxes'[c] = Shut(boxes[c])
                                   \/ boxes'[c] = Shut(Ended(boxes[c]))
    BY <1>13, EndedFacts
  <2>3. HoldingKept
    <3>1. DOMAIN boxes' = DOMAIN boxes
      BY <1>1, <2>2
    <3>2. \A c \in DOMAIN boxes : boxes'[c].inflight = boxes[c].inflight
      BY <1>1, <2>2, ShutKeepsRequests
    <3> QED
      BY <3>1, <3>2 DEF HoldingKept
  <2> QED
    BY <2>1, <2>3, LostKept
<1>14. ASSUME NEW b \in DOMAIN boxes, NEW r, Complete(b, r) PROVE ~Lost(q)'
  <2>1. /\ boxes' = [boxes EXCEPT ![b] = Without(@, r)] /\ called' = called \cup {r}
        /\ UNCHANGED <<dispatched, pendings, filtering, thrown>>
    BY <1>14 DEF Complete, waitVars
  <2>2. Without(boxes[b], r).inflight = boxes[b].inflight \ {r}
    BY <1>1 DEF Without, Boxes
  <2>3. \A p : InFlight(p) /\ p # r => InFlight(p)'
    BY <2>1, <2>2 DEF InFlight
  <2> QED
    BY <2>1, <2>3 DEF Lost, Filtering, Pending
<1>15. CASE UNCHANGED vars
  BY <1>2, <1>15 DEF vars
<1> QED
  BY <1>3, <1>5, <1>6, <1>7, <1>8, <1>9, <1>10, <1>11, <1>12, <1>13, <1>14, <1>15 DEF Next

\* Over every transport requests are lost only to a mailbox that connects late.
THEOREM LostOnlyToLateMailbox == Spec => LostOnlyToLate
<1>1. TypeOK /\ [Next]_vars =>
        [\A r \in Reqs : Lost(r)' /\ ~Lost(r) =>
           \E b \in DOMAIN boxes : ConnectsLate(b) /\ r \in Range(pendings[boxes[b].server])]_vars
  BY LostStep DEF LostToLate
<1> QED
  BY <1>1, TypeCorrect, PTL DEF Spec, LostOnlyToLate

\* Over socket.io, where a connecting mailbox is the registered one, no request
\* is forgotten: until it is called back it is in the hands of the filters,
\* pending or in a mailbox, unless its dispatch() threw.
THEOREM SioNoRequestVanishes ==
  ASSUME Transport = "sio"
  PROVE  Spec => []NoRequestVanishes
<1>1. Init => NoRequestVanishes
  BY DEF Init, NoRequestVanishes, Lost
<1>2. TypeOK /\ LiveMailboxRegistered /\ NoRequestVanishes /\ [Next]_vars => NoRequestVanishes'
  <2> SUFFICES ASSUME TypeOK, LiveMailboxRegistered, NoRequestVanishes, [Next]_vars
               PROVE  NoRequestVanishes'
    OBVIOUS
  <2>1. \A b \in DOMAIN boxes : b # NoBox
    BY DEF TypeOK, NoBox
  <2>2. \A b \in DOMAIN boxes : ~ConnectsLate(b)
    BY <2>1 DEF ConnectsLate, Connects, LiveMailboxRegistered
  <2>3. \A q : ~LostToLate(q)
    BY <2>2 DEF LostToLate
  <2> QED
    BY <2>3, LostStep DEF NoRequestVanishes
<1>3. Spec => []LiveMailboxRegistered
  BY SioLiveRegistered
<1> QED
  BY <1>1, <1>2, <1>3, TypeCorrect, PTL DEF Spec

=============================================================================
