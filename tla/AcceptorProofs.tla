---------------------------- MODULE AcceptorProofs ----------------------------
(* Theorems about Acceptor, for every instance of its constants. *)
EXTENDS Acceptor, SequenceTheorems, TLAPS

-----------------------------------------------------------------------------
(* What the helpers return. *)

LEMMA QueueType ==
  ASSUME TypeOK, NEW s
  PROVE  QueueOf(s) \in Seq(Pkgs)
  BY DEF TypeOK, QueueOf

\* A queue after enqueue(): the answers are appended, other queues stay.
LEMMA EnqueueFacts ==
  ASSUME TypeOK, NEW s \in Sockets, NEW rs \in Seq(Pkgs)
  PROVE  /\ DOMAIN Enqueue(s, rs) = DOMAIN msgQueues \cup {s}
         /\ Enqueue(s, rs)[s] = QueueOf(s) \o rs
         /\ \A t \in DOMAIN msgQueues : t # s => Enqueue(s, rs)[t] = msgQueues[t]
         /\ Enqueue(s, rs) \in [DOMAIN Enqueue(s, rs) -> Seq(Pkgs)]
<1>1. QueueOf(s) \o rs \in Seq(Pkgs)
  BY QueueType
<1>2. /\ DOMAIN Enqueue(s, rs) = DOMAIN msgQueues \cup {s}
      /\ Enqueue(s, rs)[s] = QueueOf(s) \o rs
      /\ \A t \in DOMAIN msgQueues : t # s => Enqueue(s, rs)[t] = msgQueues[t]
      /\ Enqueue(s, rs) = [t \in DOMAIN Enqueue(s, rs) |-> Enqueue(s, rs)[t]]
  BY DEF Enqueue, Store
<1>3. \A t \in DOMAIN msgQueues : msgQueues[t] \in Seq(Pkgs)
  BY DEF TypeOK
<1>4. \A t \in DOMAIN Enqueue(s, rs) : Enqueue(s, rs)[t] \in Seq(Pkgs)
  BY <1>1, <1>2, <1>3
<1> QED
  BY <1>2, <1>4

\* The answers to a batch are packages of the batch.
LEMMA BatchAnswers ==
  ASSUME NEW S, NEW batch \in Seq(S), NEW n \in 1..Len(batch), NEW k \in Nat,
         NEW f \in InOrder(n, k)
  PROVE  [i \in 1..k |-> batch[f[i]]] \in Seq(S)
<1>1. f \in [1..k -> 1..n]
  BY DEF InOrder
<1>2. \A i \in 1..k : f[i] \in 1..Len(batch)
  BY <1>1
<1>3. [i \in 1..k |-> batch[f[i]]] \in [1..k -> S]
  BY <1>2
<1> QED
  BY <1>3, SeqDef

\* Messages are sequences of packages.
LEMMA MessageType ==
  ASSUME NEW fresh, fresh \subseteq Pkgs, NEW batch \in Messages(fresh)
  PROVE  batch \in Seq(Pkgs) /\ \A i \in DOMAIN batch : batch[i] \in fresh
<1>1. PICK n \in 1..2 : batch \in [1..n -> fresh]
  BY DEF Messages
<1>2. n \in Nat
  BY <1>1
<1> QED
  BY <1>1, <1>2, SeqDef

\* What answering does, whoever answers.
LEMMA RespondFacts ==
  ASSUME TypeOK, NEW s \in Sockets, NEW rs \in Seq(Pkgs), Respond(s, rs)
  PROVE  /\ given' \in 0..MaxAnswers
         /\ answered' \in [Sockets -> Seq(Pkgs)] /\ written' \in [Sockets -> Seq(Pkgs)]
         /\ DOMAIN msgQueues' \subseteq DOMAIN msgQueues \cup {s}
         /\ msgQueues' \in [DOMAIN msgQueues' -> Seq(Pkgs)]
         /\ \A t \in Sockets : t # s =>
              /\ answered'[t] = answered[t] /\ written'[t] = written[t]
              /\ t \in DOMAIN msgQueues' <=> t \in DOMAIN msgQueues
              /\ QueueOf(t)' = QueueOf(t)
         /\ BufferMsg => written'[s] = written[s] /\ QueueOf(s)' = QueueOf(s) \o rs
         /\ status[s] = "open" =>
              /\ answered'[s] = answered[s] \o rs
              /\ ~BufferMsg => written'[s] = written[s] \o rs
         /\ status[s] # "open" => answered'[s] = answered[s] /\ written'[s] = written[s]
         /\ ~BufferMsg => msgQueues' = msgQueues
<1> USE AcceptorAssumption
<1>1. given' \in 0..MaxAnswers
  <2>1. given \in 0..MaxAnswers /\ Len(rs) \in Nat
    BY LenProperties DEF TypeOK
  <2> QED
    BY <2>1 DEF Respond
<1>2. /\ answered' \in [Sockets -> Seq(Pkgs)]
      /\ \A t \in Sockets : t # s => answered'[t] = answered[t]
      /\ answered'[s] = IF status[s] = "open" THEN answered[s] \o rs ELSE answered[s]
  <2>1. /\ answered \in [Sockets -> Seq(Pkgs)]
        /\ answered' = [answered EXCEPT ![s] = IF status[s] = "open" THEN @ \o rs ELSE @]
    BY DEF TypeOK, Respond
  <2>2. answered[s] \o rs \in Seq(Pkgs)
    BY <2>1
  <2> QED
    BY <2>1, <2>2
<1>3. CASE BufferMsg
  <2>1. written' = written /\ written \in [Sockets -> Seq(Pkgs)]
    BY <1>3 DEF Respond, TypeOK
  <2>2. CASE rs = <<>>
    <3>1. msgQueues' = msgQueues
      BY <1>3, <2>2 DEF Respond
    <3>2. QueueOf(s) \o rs = QueueOf(s)
      BY <2>2, QueueType
    <3>3. \A t : QueueOf(t)' = QueueOf(t)
      BY <3>1 DEF QueueOf
    <3>4. msgQueues' \in [DOMAIN msgQueues' -> Seq(Pkgs)]
      BY <3>1 DEF TypeOK
    <3> QED
      BY <1>1, <1>2, <2>1, <3>1, <3>2, <3>3, <3>4
  <2>3. CASE rs # <<>>
    <3>1. msgQueues' = Enqueue(s, rs)
      BY <1>3, <2>3 DEF Respond
    <3>3. /\ msgQueues' \in [DOMAIN msgQueues' -> Seq(Pkgs)]
          /\ DOMAIN msgQueues' = DOMAIN msgQueues \cup {s}
          /\ msgQueues'[s] = QueueOf(s) \o rs
          /\ \A t \in DOMAIN msgQueues : t # s => msgQueues'[t] = msgQueues[t]
      BY <3>1, EnqueueFacts
    <3>4. QueueOf(s)' = msgQueues'[s]
      BY <3>3 DEF QueueOf
    <3>5. \A t : t # s => QueueOf(t)' = QueueOf(t)
      BY <3>3 DEF QueueOf
    <3>2. QueueOf(s)' = QueueOf(s) \o rs /\ \A t : t # s => QueueOf(t)' = QueueOf(t)
      BY <3>3, <3>4, <3>5
    <3> QED
      BY <1>1, <1>2, <1>3, <2>1, <3>2, <3>3
  <2> QED
    BY <2>2, <2>3
<1>4. CASE ~BufferMsg
  <2>1. /\ msgQueues' = msgQueues
        /\ written' = [written EXCEPT ![s] = Write(s, rs)]
    BY <1>4 DEF Respond
  <2>2. written \in [Sockets -> Seq(Pkgs)] /\ msgQueues \in [DOMAIN msgQueues -> Seq(Pkgs)]
    BY DEF TypeOK
  <2>3. /\ Write(s, rs) \in Seq(Pkgs)
        /\ Write(s, rs) = IF status[s] = "open" THEN written[s] \o rs ELSE written[s]
    BY <2>2 DEF Write
  <2>4. \A t : QueueOf(t)' = QueueOf(t)
    BY <2>1 DEF QueueOf
  <2>5. /\ written' \in [Sockets -> Seq(Pkgs)]
        /\ \A t \in Sockets : t # s => written'[t] = written[t]
        /\ written'[s] = Write(s, rs)
    BY <2>1, <2>2, <2>3
  <2> HIDE DEF Write
  <2> QED
    BY <1>1, <1>2, <1>4, <2>1, <2>2, <2>3, <2>4, <2>5
<1> QED
  BY <1>3, <1>4

\* What a message does: it is answered in part, and the callbacks its services
\* keep answer to its socket.
LEMMA MessageFacts ==
  ASSUME TypeOK, NEW s \in Sockets, NEW batch \in Seq(Pkgs), Message(s, batch)
  PROVE  /\ \E rs \in Seq(Pkgs) : Respond(s, rs) /\ rs \in Seq(received')
         /\ received' \subseteq Pkgs /\ DOMAIN calls' \subseteq received'
         /\ \A p \in DOMAIN calls' : calls'[p] = s \/ (p \in DOMAIN calls /\ calls'[p] = calls[p])
         /\ calls' \in [DOMAIN calls' -> Sockets]
<1>1. PICK n \in 1..Len(batch), k \in 0..(MaxAnswers - given) :
        \E unknown \in SUBSET (1..n), f \in InOrder(n, k) :
          /\ AnsweredByRoute(unknown, f)
          /\ Respond(s, [i \in 1..k |-> batch[f[i]]])
          /\ calls' = [p \in DOMAIN calls \cup (Served(batch, n) \ {batch[i] : i \in unknown}) |->
                         IF p \in DOMAIN calls THEN calls[p] ELSE s]
  BY DEF Message
<1>2. PICK unknown \in SUBSET (1..n), f \in InOrder(n, k) :
        /\ Respond(s, [i \in 1..k |-> batch[f[i]]])
        /\ calls' = [p \in DOMAIN calls \cup (Served(batch, n) \ {batch[i] : i \in unknown}) |->
                       IF p \in DOMAIN calls THEN calls[p] ELSE s]
  BY <1>1, Zenon
<1>3. [i \in 1..k |-> batch[f[i]]] \in Seq(Pkgs) \cap Seq(received')
  <2>1. k \in Nat
    BY AcceptorAssumption DEF TypeOK
  <2>2. received' = received \cup {batch[i] : i \in DOMAIN batch}
    BY DEF Message
  <2>3. batch \in Seq(received')
    BY <2>2
  <2>4. /\ [i \in 1..k |-> batch[f[i]]] \in Seq(Pkgs)
        /\ [i \in 1..k |-> batch[f[i]]] \in Seq(received')
    BY <1>2, <2>1, <2>3, BatchAnswers
  <2> QED
    BY <2>4
<1>4. Served(batch, n) \subseteq received' /\ received \subseteq received'
  BY DEF Served, Message
<1>5. \E rs \in Seq(Pkgs) : Respond(s, rs) /\ rs \in Seq(received')
  BY <1>2, <1>3
<1>9. received' \subseteq Pkgs
  BY DEF Message, TypeOK
<1>6. /\ DOMAIN calls \subseteq received /\ \A p \in DOMAIN calls : calls[p] \in Sockets
  BY DEF TypeOK
<1>7. /\ DOMAIN calls' \subseteq received'
      /\ \A p \in DOMAIN calls' : calls'[p] = s \/ (p \in DOMAIN calls /\ calls'[p] = calls[p])
  BY <1>2, <1>4, <1>6
<1>8. calls' \in [DOMAIN calls' -> Sockets]
  BY <1>2, <1>6
<1> QED
  BY <1>5, <1>7, <1>8, <1>9

\* A message keeps the types, whatever packages it carries.
LEMMA MessageKeepsTypes ==
  ASSUME TypeOK, NEW s \in Sockets, NEW batch \in Seq(Pkgs), Message(s, batch)
  PROVE  TypeOK'
<1>1. PICK rs \in Seq(Pkgs) : Respond(s, rs)
  BY MessageFacts
<1>2. /\ received' \subseteq Pkgs /\ DOMAIN calls' \subseteq received'
      /\ calls' \in [DOMAIN calls' -> Sockets]
  BY MessageFacts
<1>3. UNCHANGED <<serverVars, linkVars>>
  BY DEF Message
<1>4. errors' \in [Sockets -> Seq(SUBSET Pkgs)]
  <2>1. errors \in [Sockets -> Seq(SUBSET Pkgs)]
    BY DEF TypeOK
  <2>2. PICK thrown \in BOOLEAN : errors' \in IF thrown THEN WithError(s, batch) ELSE {errors}
    BY DEF Message
  <2>3. CASE errors' = errors
    BY <2>1, <2>3
  <2>4. CASE errors' # errors
    <3>1. PICK named \in {{}} \cup (IF Len(batch) = 1 THEN {{batch[1]}} ELSE {}) :
            errors' = [errors EXCEPT ![s] = Append(@, named)]
      BY <2>2, <2>4 DEF WithError
    <3>2. named \in SUBSET Pkgs
      <4>1. CASE named = {}
        BY <4>1
      <4>2. CASE named # {}
        <5>1. named = {batch[1]} /\ 1 \in 1..Len(batch)
          BY <3>1, <4>2
        <5> QED
          BY <5>1, ElementOfSeq
      <4> QED
        BY <4>1, <4>2
    <3>3. Append(errors[s], named) \in Seq(SUBSET Pkgs)
      BY <2>1, <3>2
    <3> QED
      BY <2>1, <3>1, <3>3
  <2> QED
    BY <2>3, <2>4
<1> QED
  BY <1>1, <1>2, <1>3, <1>4, RespondFacts DEF TypeOK, serverVars, linkVars

-----------------------------------------------------------------------------
\* The types hold at the start.
LEMMA TypeInit ==
  ASSUME Init
  PROVE  TypeOK
<1>1. /\ given \in 0..MaxAnswers
      /\ answered \in [Sockets -> Seq(Pkgs)] /\ written \in [Sockets -> Seq(Pkgs)]
  BY AcceptorAssumption DEF Init
<1>2. /\ DOMAIN msgQueues = {} /\ DOMAIN calls = {}
      /\ msgQueues \in [DOMAIN msgQueues -> Seq(Pkgs)]
      /\ calls \in [DOMAIN calls -> Sockets]
  BY DEF Init
<1>3. <<>> \in Seq(SUBSET Pkgs) /\ errors = [s \in Sockets |-> <<>>]
  BY DEF Init
<1>4. errors \in [Sockets -> Seq(SUBSET Pkgs)]
  BY <1>3
<1> QED
  BY <1>1, <1>2, <1>4 DEF Init, TypeOK, Statuses

\* Every step keeps the types.
LEMMA TypeStep ==
  ASSUME TypeOK, [Next]_vars
  PROVE  TypeOK'
<1> USE AcceptorAssumption
<1>1. CASE Start
  BY <1>1 DEF TypeOK, Start, linkVars, serviceVars, answerVars
<1>2. ASSUME NEW S, CloseSockets(S)
      PROVE  /\ status' \in [Sockets -> Statuses] /\ sockets' \subseteq Sockets
             /\ DOMAIN msgQueues' \subseteq Sockets
             /\ msgQueues' \in [DOMAIN msgQueues' -> Seq(Pkgs)]
  BY <1>2 DEF TypeOK, CloseSockets, Statuses, Restrict
<1>3. CASE Stop
  BY <1>2, <1>3 DEF TypeOK, Stop, serviceVars, answerVars
<1>4. ASSUME NEW s \in Sockets, OnConnection(s) PROVE TypeOK'
  <2>1. status' \in [Sockets -> Statuses]
    BY <1>4 DEF TypeOK, OnConnection, Statuses
  <2>2. sockets' \subseteq Sockets /\ unchecked' \subseteq Sockets
    BY <1>4 DEF TypeOK, OnConnection
  <2> QED
    BY <1>4, <2>1, <2>2 DEF TypeOK, OnConnection, serverVars, serviceVars, answerVars
<1>5. ASSUME NEW s \in Sockets, OnSocketClose(s) PROVE TypeOK'
  BY <1>2, <1>5 DEF TypeOK, OnSocketClose, serverVars, serviceVars, answerVars
<1>6. ASSUME NEW s \in Sockets, NEW allowed \in BOOLEAN, WhitelistAnswers(s, allowed)
      PROVE  TypeOK'
  <2>1. CloseSockets({s}) \/ UNCHANGED <<status, sockets, msgQueues>>
    BY <1>6 DEF WhitelistAnswers
  <2>2. /\ status' \in [Sockets -> Statuses] /\ sockets' \subseteq Sockets
        /\ DOMAIN msgQueues' \subseteq Sockets
        /\ msgQueues' \in [DOMAIN msgQueues' -> Seq(Pkgs)]
    BY <1>2, <2>1 DEF TypeOK
  <2> QED
    BY <1>6, <2>2 DEF TypeOK, WhitelistAnswers, serverVars, serviceVars, answerVars
<1>7. ASSUME NEW s \in Sockets, NEW batch \in Messages(Pkgs \ received), Message(s, batch)
      PROVE  TypeOK'
  BY <1>7, MessageType, MessageKeepsTypes
<1>8. ASSUME NEW p \in DOMAIN calls, Answer(p) PROVE TypeOK'
  <2>1. calls[p] \in Sockets /\ <<p>> \in Seq(Pkgs)
    BY DEF TypeOK
  <2> QED
    BY <1>8, <2>1, RespondFacts DEF TypeOK, Answer, serverVars, linkVars, serviceVars
<1>9. CASE Flush
  <2>1. \A s \in Sockets : Write(s, QueueOf(s)) \in Seq(Pkgs)
    BY QueueType DEF TypeOK, Write
  <2>2. written' \in [Sockets -> Seq(Pkgs)]
    BY <1>9, <2>1 DEF TypeOK, Flush
  <2>3. /\ DOMAIN msgQueues' \subseteq Sockets
        /\ msgQueues' \in [DOMAIN msgQueues' -> Seq(Pkgs)]
    BY <1>9 DEF TypeOK, Flush
  <2> QED
    BY <1>9, <2>2, <2>3 DEF TypeOK, Flush, serverVars, linkVars, serviceVars
<1>10. CASE UNCHANGED vars
  BY <1>10 DEF TypeOK, vars, serverVars, linkVars, serviceVars, answerVars
<1> QED
  BY <1>1, <1>3, <1>4, <1>5, <1>6, <1>7, <1>8, <1>9, <1>10 DEF Next

\* Type correctness of the acceptor, for every behaviour of the services, the
\* sockets and the whitelist.
THEOREM TypeCorrect == Spec => []TypeOK
<1>1. Init => TypeOK
  BY TypeInit
<1>2. TypeOK /\ [Next]_vars => TypeOK'
  BY TypeStep
<1> QED
  BY <1>1, <1>2, PTL DEF Spec

-----------------------------------------------------------------------------
\* The part of EveryAnswerOnce and NothingBefore that is about one socket.
OneSocket(s) ==
  /\ status[s] = "open" => answered[s] = written[s] \o QueueOf(s)
  /\ status[s] # "open" => /\ Len(written[s]) <= Len(answered[s])
                           /\ written[s] = SubSeq(answered[s], 1, Len(written[s]))
  /\ status[s] = "new" => /\ answered[s] = <<>> /\ written[s] = <<>>
                          /\ s \notin DOMAIN msgQueues
                          /\ \A p \in DOMAIN calls : calls[p] # s

LEMMA Socketwise ==
  EveryAnswerOnce /\ NothingBefore <=> \A s \in Sockets : OneSocket(s)
  BY Zenon DEF EveryAnswerOnce, NothingBefore, OneSocket

\* A sequence begins with the sequence it was made from.
LEMMA PrefixOfConcat ==
  ASSUME NEW S, NEW q \in Seq(S), NEW r \in Seq(S)
  PROVE  Len(q) <= Len(q \o r) /\ q = SubSeq(q \o r, 1, Len(q))
<1>1. Len(q) \in Nat /\ Len(q \o r) = Len(q) + Len(r) /\ Len(r) \in Nat
  BY ConcatProperties, LenProperties
<1>2. \A i \in 1..Len(q) : (q \o r)[i] = q[i]
  BY ConcatProperties
<1>3. SubSeq(q \o r, 1, Len(q)) = [i \in 1..Len(q) |-> (q \o r)[i]]
  BY <1>1
<1>4. q = [i \in 1..Len(q) |-> q[i]]
  OBVIOUS
<1> QED
  BY <1>1, <1>2, <1>3, <1>4

\* A queue that is not there is empty.
LEMMA NoQueue ==
  ASSUME NEW s, s \notin DOMAIN msgQueues
  PROVE  QueueOf(s) = <<>>
  BY DEF QueueOf

\* Concatenation of answers is associative.
LEMMA AnswersAppend ==
  \A a, b, c \in Seq(Pkgs) : (a \o b) \o c = a \o (b \o c)
<1>1. SUFFICES ASSUME NEW a \in Seq(Pkgs), NEW b \in Seq(Pkgs), NEW c \in Seq(Pkgs)
               PROVE  (a \o b) \o c = a \o (b \o c)
  OBVIOUS
<1>2. /\ a \o b \in Seq(Pkgs) /\ b \o c \in Seq(Pkgs)
      /\ (a \o b) \o c \in Seq(Pkgs) /\ a \o (b \o c) \in Seq(Pkgs)
  OBVIOUS
<1>3. Len((a \o b) \o c) = Len(a \o (b \o c))
  OBVIOUS
<1>4. \A i \in 1..Len((a \o b) \o c) : ((a \o b) \o c)[i] = (a \o (b \o c))[i]
  OBVIOUS
<1> QED
  BY <1>2, <1>3, <1>4, SeqEqual

\* Answering keeps OneSocket, also for a socket that is gone.
LEMMA RespondKeeps ==
  ASSUME TypeOK, QueuesIfBuffered,
         NEW s \in Sockets, NEW rs \in Seq(Pkgs), Respond(s, rs),
         status' = status, status[s] # "new",
         NEW t \in Sockets, OneSocket(t),
         \A p \in DOMAIN calls' : calls'[p] = s \/ (p \in DOMAIN calls /\ calls'[p] = calls[p])
  PROVE  OneSocket(t)'
<1> DEFINE q == QueueOf(s)
<1>1. CASE t # s
  <2>1. /\ answered'[t] = answered[t] /\ written'[t] = written[t] /\ QueueOf(t)' = QueueOf(t)
        /\ t \in DOMAIN msgQueues' <=> t \in DOMAIN msgQueues
    BY <1>1, RespondFacts
  <2> QED
    BY <1>1, <2>1 DEF OneSocket
<1>2. CASE t = s /\ status[s] = "open"
  <2>1. /\ written[s] \in Seq(Pkgs) /\ q \in Seq(Pkgs)
        /\ answered[s] = written[s] \o q
    BY <1>2, QueueType DEF OneSocket, TypeOK
  <2>2. answered'[s] = (written[s] \o q) \o rs
    <3>1. answered'[s] = answered[s] \o rs
      BY <1>2, RespondFacts
    <3> QED
      BY <2>1, <3>1
  <2>3. CASE BufferMsg
    <3>1. (written[s] \o q) \o rs = written[s] \o (q \o rs)
      BY <2>1, AnswersAppend
    <3>2. written'[s] = written[s] /\ QueueOf(s)' = q \o rs
      BY <1>2, <2>3, RespondFacts
    <3> QED
      BY <1>2, <2>2, <3>1, <3>2 DEF OneSocket
  <2>4. CASE ~BufferMsg
    <3>1. written'[s] = written[s] \o rs /\ msgQueues' = msgQueues
      BY <1>2, <2>4, RespondFacts
    <3>2. q = <<>> /\ QueueOf(s)' = <<>>
      BY <2>4, <3>1, NoQueue DEF QueuesIfBuffered, QueueOf
    <3>3. written[s] \o q = written[s] /\ written'[s] \o QueueOf(s)' = written'[s]
      BY <2>1, <3>1, <3>2, ConcatProperties, ConcatEmptySeq
    <3> QED
      BY <1>2, <2>2, <3>1, <3>3 DEF OneSocket
  <2> QED
    BY <2>3, <2>4
<1>3. CASE t = s /\ status[s] # "open"
  <2>1. answered'[s] = answered[s] /\ written'[s] = written[s]
    BY <1>3, RespondFacts
  <2> QED
    BY <1>3, <2>1 DEF OneSocket
<1> QED
  BY <1>1, <1>2, <1>3

\* Closing sockets keeps OneSocket: what was written is what the answers began with.
LEMMA CloseKeeps ==
  ASSUME TypeOK, NEW S, CloseSockets(S), UNCHANGED <<calls, answered, written>>,
         \A s \in S \cap Sockets : status[s] # "new",
         NEW t \in Sockets, OneSocket(t)
  PROVE  OneSocket(t)'
<1>1. /\ status'[t] = IF t \in S THEN "closed" ELSE status[t]
      /\ answered' = answered /\ written' = written /\ calls' = calls
      /\ written[t] \in Seq(Pkgs) /\ QueueOf(t) \in Seq(Pkgs)
  BY QueueType DEF CloseSockets, TypeOK
<1>2. CASE t \in S /\ status[t] = "open"
  <2>1. answered[t] = written[t] \o QueueOf(t)
    BY <1>2 DEF OneSocket
  <2>2. Len(written[t]) <= Len(answered[t]) /\ written[t] = SubSeq(answered[t], 1, Len(written[t]))
    BY <1>1, <2>1, PrefixOfConcat
  <2> QED
    BY <1>1, <1>2, <2>2 DEF OneSocket
<1>3. CASE t \in S /\ status[t] # "open"
  BY <1>1, <1>3 DEF OneSocket
<1>4. CASE t \notin S
  <2>1. /\ t \in DOMAIN msgQueues' <=> t \in DOMAIN msgQueues
        /\ QueueOf(t)' = QueueOf(t)
    BY <1>4 DEF CloseSockets, Restrict, QueueOf
  <2> QED
    BY <1>1, <1>4, <2>1 DEF OneSocket
<1> QED
  BY <1>2, <1>3, <1>4

\* The sockets registered are the open ones, and those that the whitelist
\* rejected too early to be listened to.
LEMMA RegisteredStep ==
  ASSUME TypeOK, RegisteredUntilClosed, [Next]_vars
  PROVE  RegisteredUntilClosed'
<1>1. ASSUME UNCHANGED <<status, sockets>> PROVE RegisteredUntilClosed'
  BY <1>1 DEF RegisteredUntilClosed
<1>2. ASSUME NEW S, CloseSockets(S) PROVE RegisteredUntilClosed'
  BY <1>2 DEF RegisteredUntilClosed, CloseSockets, TypeOK
<1>3. CASE Start \/ (\E p \in DOMAIN calls : Answer(p)) \/ Flush \/ UNCHANGED vars
  BY <1>1, <1>3 DEF Start, Answer, Flush, linkVars, vars
<1>4. CASE Stop
  BY <1>2, <1>4 DEF Stop
<1>5. ASSUME NEW s \in Sockets, OnConnection(s) PROVE RegisteredUntilClosed'
  BY <1>5 DEF RegisteredUntilClosed, OnConnection, TypeOK
<1>6. ASSUME NEW s \in Sockets, OnSocketClose(s) PROVE RegisteredUntilClosed'
  BY <1>2, <1>6 DEF OnSocketClose
<1>7. ASSUME NEW s \in Sockets, NEW allowed \in BOOLEAN, WhitelistAnswers(s, allowed)
      PROVE  RegisteredUntilClosed'
  BY <1>1, <1>2, <1>7 DEF WhitelistAnswers
<1>8. ASSUME NEW s \in Sockets, NEW batch, Message(s, batch) PROVE RegisteredUntilClosed'
  BY <1>1, <1>8 DEF Message, linkVars
<1> QED
  BY <1>3, <1>4, <1>5, <1>6, <1>7, <1>8 DEF Next

\* Without opts.bufferMsg there are no queues.
LEMMA QueuesStep ==
  ASSUME TypeOK, QueuesIfBuffered, [Next]_vars
  PROVE  QueuesIfBuffered'
<1> SUFFICES ASSUME ~BufferMsg PROVE DOMAIN msgQueues' = {}
  BY DEF QueuesIfBuffered
<1>1. DOMAIN msgQueues = {}
  BY DEF QueuesIfBuffered
<1>2. ASSUME NEW S, CloseSockets(S) PROVE DOMAIN msgQueues' = {}
  BY <1>1, <1>2 DEF CloseSockets, Restrict
<1>3. ASSUME NEW s, NEW rs, Respond(s, rs) PROVE DOMAIN msgQueues' = {}
  BY <1>1, <1>3 DEF Respond
<1>4. CASE Start \/ Stop \/ Flush \/ UNCHANGED vars
  BY <1>1, <1>2, <1>4 DEF Start, Stop, Flush, vars
<1>5. ASSUME NEW s \in Sockets, OnConnection(s) \/ OnSocketClose(s) PROVE DOMAIN msgQueues' = {}
  BY <1>1, <1>2, <1>5 DEF OnConnection, OnSocketClose
<1>6. ASSUME NEW s \in Sockets, NEW allowed \in BOOLEAN, WhitelistAnswers(s, allowed)
      PROVE  DOMAIN msgQueues' = {}
  BY <1>1, <1>2, <1>6 DEF WhitelistAnswers
<1>7. ASSUME NEW s \in Sockets, NEW batch, Message(s, batch) PROVE DOMAIN msgQueues' = {}
  BY <1>3, <1>7 DEF Message
<1>8. ASSUME NEW p \in DOMAIN calls, Answer(p) PROVE DOMAIN msgQueues' = {}
  BY <1>3, <1>8 DEF Answer
<1> QED
  BY <1>4, <1>5, <1>6, <1>7, <1>8 DEF Next

\* The invariant of the answers holds for any number of sockets, packages and
\* answers, for any transport, buffered or not, and for any whitelist.
THEOREM DeliveryCorrect == Spec => []Delivery
<1>1. Init => Delivery
  <2> SUFFICES ASSUME Init PROVE Delivery
    OBVIOUS
  <2>1. /\ \A s \in Sockets : /\ status[s] = "new"
                              /\ answered[s] = <<>> /\ written[s] = <<>>
        /\ sockets = {} /\ DOMAIN msgQueues = {} /\ DOMAIN calls = {}
    BY DEF Init
  <2>2. RegisteredUntilClosed /\ NothingBefore /\ QueuesIfBuffered
    BY <2>1 DEF RegisteredUntilClosed, NothingBefore, QueuesIfBuffered
  <2>3. EveryAnswerOnce
    <3>1. <<>> = SubSeq(<<>>, 1, Len(<<>>)) /\ Len(<<>>) <= Len(<<>>)
      OBVIOUS
    <3>2. \A s \in Sockets : status[s] # "open"
      BY <2>1
    <3> QED
      BY <2>1, <3>1, <3>2, Zenon DEF EveryAnswerOnce
  <2> QED
    BY <2>2, <2>3 DEF Delivery
<1>2. TypeOK /\ Delivery /\ [Next]_vars => Delivery'
  <2> SUFFICES ASSUME TypeOK, Delivery, [Next]_vars PROVE Delivery'
    OBVIOUS
  <2>1. /\ RegisteredUntilClosed' /\ QueuesIfBuffered'
        /\ RegisteredUntilClosed /\ QueuesIfBuffered
    BY RegisteredStep, QueuesStep DEF Delivery
  <2>2. \A t \in Sockets : OneSocket(t)
    BY Socketwise DEF Delivery
  <2>3. SUFFICES ASSUME NEW t \in Sockets PROVE OneSocket(t)'
    <3>1. ASSUME \A t \in Sockets : OneSocket(t)' PROVE EveryAnswerOnce' /\ NothingBefore'
      BY <3>1, Zenon DEF EveryAnswerOnce, NothingBefore, OneSocket
    <3> QED
      BY <2>1, <3>1 DEF Delivery
  <2>4. OneSocket(t)
    BY <2>2
  <2>5. ASSUME UNCHANGED <<status, msgQueues, calls, answered, written>> PROVE OneSocket(t)'
    BY <2>4, <2>5 DEF OneSocket, QueueOf
  <2>6. CASE Start \/ UNCHANGED vars
    BY <2>5, <2>6 DEF Start, linkVars, serviceVars, answerVars, vars
  <2>7. CASE Stop
    <3>1. CloseSockets(EndedByServer) /\ UNCHANGED <<calls, answered, written>>
      BY <2>7 DEF Stop, serviceVars, answerVars
    <3>2. \A s \in EndedByServer \cap Sockets : status[s] # "new"
      BY DEF EndedByServer
    <3> QED
      BY <2>4, <3>1, <3>2, CloseKeeps
  <2>8. ASSUME NEW s \in Sockets, OnConnection(s) PROVE OneSocket(t)'
    <3>1. /\ UNCHANGED <<msgQueues, calls, answered, written>>
          /\ status[s] = "new" /\ status'[s] # "new"
          /\ t # s => status'[t] = status[t]
      BY <2>8 DEF OnConnection, serviceVars, answerVars, TypeOK
    <3>2. CASE t = s
      <4>1. answered[s] = <<>> /\ written[s] = <<>> /\ QueueOf(s) = <<>> /\ QueueOf(s)' = <<>>
        BY <2>4, <3>1, <3>2 DEF OneSocket, QueueOf
      <4>2. <<>> \o <<>> = <<>> /\ <<>> = SubSeq(<<>>, 1, Len(<<>>)) /\ Len(<<>>) <= Len(<<>>)
        OBVIOUS
      <4> QED
        BY <3>1, <3>2, <4>1, <4>2 DEF OneSocket
    <3>3. CASE t # s
      BY <2>4, <3>1, <3>3 DEF OneSocket, QueueOf
    <3> QED
      BY <3>2, <3>3
  <2>9. ASSUME NEW s \in Sockets, OnSocketClose(s) PROVE OneSocket(t)'
    BY <2>4, <2>9, CloseKeeps DEF OnSocketClose, serviceVars, answerVars
  <2>10. ASSUME NEW s \in Sockets, NEW allowed \in BOOLEAN, WhitelistAnswers(s, allowed)
         PROVE  OneSocket(t)'
    <3>1. UNCHANGED <<calls, answered, written>>
      BY <2>10 DEF WhitelistAnswers, serviceVars, answerVars
    <3>2. CASE s \in sockets /\ CloseSockets({s})
      <4>1. status[s] # "new"
        BY <2>1, <3>2 DEF RegisteredUntilClosed
      <4> QED
        BY <2>4, <3>1, <3>2, <4>1, CloseKeeps
    <3>3. CASE UNCHANGED <<status, sockets, msgQueues>>
      BY <2>5, <3>1, <3>3
    <3> QED
      BY <2>10, <3>2, <3>3 DEF WhitelistAnswers
  <2>11. ASSUME NEW s \in Sockets, NEW batch \in Messages(Pkgs \ received), Message(s, batch)
         PROVE  OneSocket(t)'
    <3>1. batch \in Seq(Pkgs)
      BY MessageType
    <3>2. PICK rs \in Seq(Pkgs) : Respond(s, rs)
      BY <2>11, <3>1, MessageFacts
    <3>3. \A p \in DOMAIN calls' : calls'[p] = s \/ (p \in DOMAIN calls /\ calls'[p] = calls[p])
      BY <2>11, <3>1, MessageFacts
    <3>4. status' = status /\ status[s] # "new"
      BY <2>11 DEF Message, linkVars
    <3> QED
      BY <2>1, <2>4, <3>2, <3>3, <3>4, RespondKeeps
  <2>12. ASSUME NEW p \in DOMAIN calls, Answer(p) PROVE OneSocket(t)'
    <3>1. calls[p] \in Sockets /\ <<p>> \in Seq(Pkgs)
      BY DEF TypeOK
    <3>2. /\ Respond(calls[p], <<p>>) /\ status' = status /\ calls' = calls
      BY <2>12 DEF Answer, linkVars, serviceVars
    <3>3. status[calls[p]] # "new"
      BY <3>1 DEF Delivery, NothingBefore
    <3> QED
      BY <2>1, <2>4, <3>1, <3>2, <3>3, RespondKeeps
  <2>13. CASE Flush
    <3>1. /\ written'[t] = IF t \in sockets THEN Write(t, QueueOf(t)) ELSE written[t]
          /\ msgQueues' = [s \in DOMAIN msgQueues \cap sockets |-> <<>>]
          /\ UNCHANGED <<status, sockets, calls, answered>>
      BY <2>13 DEF Flush, linkVars, serviceVars
    <3>2. QueueOf(t)' = <<>>
      BY <3>1 DEF QueueOf
    <3>3. CASE status[t] = "open"
      <4>1. t \in sockets
        BY <2>1, <3>3 DEF RegisteredUntilClosed
      <4>2. written'[t] = answered[t]
        BY <2>4, <3>1, <3>3, <4>1 DEF OneSocket, Write
      <4>3. answered[t] \in Seq(Pkgs)
        BY DEF TypeOK
      <4>4. answered'[t] = written'[t] \o QueueOf(t)'
        BY <3>1, <3>2, <4>2, <4>3, ConcatEmptySeq
      <4> QED
        BY <3>1, <3>3, <4>4 DEF OneSocket
    <3>4. CASE status[t] # "open"
      <4>1. written'[t] = written[t] /\ DOMAIN msgQueues' \subseteq DOMAIN msgQueues
        BY <3>1, <3>4 DEF Write
      <4> QED
        BY <2>4, <3>1, <3>4, <4>1 DEF OneSocket
    <3> QED
      BY <3>3, <3>4
  <2> QED
    BY <2>6, <2>7, <2>8, <2>9, <2>10, <2>11, <2>12, <2>13 DEF Next
<1> QED
  BY <1>1, <1>2, TypeCorrect, PTL DEF Spec

\* Answers reach an open socket in order and once.
THEOREM AnswersCorrect == Spec => []EveryAnswerOnce
BY DeliveryCorrect, PTL DEF Delivery

-----------------------------------------------------------------------------
\* Over socket.io, where closing the server ends its connections, a stopped
\* acceptor takes no package any more.
THEOREM SioQuietAfterStop ==
  ASSUME Transport = "sio"
  PROVE  Spec => QuietAfterStop
<1> DEFINE Quiet == stopped => \A s \in Sockets : status[s] # "open"
<1>1. Init => Quiet
  BY DEF Init
<1>2. TypeOK /\ Quiet /\ [Next]_vars => Quiet'
  <2> SUFFICES ASSUME TypeOK, Quiet, [Next]_vars, stopped'
               PROVE  \A s \in Sockets : status'[s] # "open"
    OBVIOUS
  <2>1. ASSUME NEW S, CloseSockets(S), stopped
        PROVE  \A s \in Sockets : status'[s] # "open"
    BY <2>1 DEF CloseSockets
  <2>2. CASE Stop
    BY <2>2 DEF Stop, CloseSockets, EndedByServer
  <2>3. CASE Start \/ Flush \/ UNCHANGED vars
    BY <2>3 DEF Start, Flush, serverVars, linkVars, vars
  <2>4. ASSUME NEW s \in Sockets, OnConnection(s) \/ OnSocketClose(s)
        PROVE  \A t \in Sockets : status'[t] # "open"
    BY <2>1, <2>4 DEF OnConnection, OnSocketClose, serverVars
  <2>5. ASSUME NEW s \in Sockets, NEW allowed \in BOOLEAN, WhitelistAnswers(s, allowed)
        PROVE  \A t \in Sockets : status'[t] # "open"
    BY <2>1, <2>5 DEF WhitelistAnswers, serverVars
  <2>6. ASSUME NEW s \in Sockets, NEW batch, Message(s, batch)
        PROVE  \A t \in Sockets : status'[t] # "open"
    BY <2>6 DEF Message, serverVars, linkVars
  <2>7. ASSUME NEW p \in DOMAIN calls, Answer(p)
        PROVE  \A t \in Sockets : status'[t] # "open"
    BY <2>7 DEF Answer, serverVars, linkVars
  <2> QED
    BY <2>2, <2>3, <2>4, <2>5, <2>6, <2>7 DEF Next
<1>3. Quiet /\ [Next]_vars => [stopped => received' = received]_vars
  <2> SUFFICES ASSUME Quiet, Next, stopped PROVE received' = received
    OBVIOUS
  <2>1. ASSUME NEW s \in Sockets, NEW batch PROVE ~Message(s, batch)
    BY DEF Message
  <2> QED
    BY <2>1 DEF Next, Start, Stop, OnConnection, OnSocketClose, WhitelistAnswers, Answer, Flush,
                serviceVars
<1> QED
  BY <1>1, <1>2, <1>3, TypeCorrect, PTL DEF Spec, QuietAfterStop

=============================================================================
