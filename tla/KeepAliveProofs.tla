-------------------------- MODULE KeepAliveProofs --------------------------
(***************************************************************************)
(* Proofs about KeepAlive, for all intervals, timeouts and delays: types,  *)
(* NoFalseAlarm, DetectedInTime and ClosedIsForgotten.                     *)
(***************************************************************************)
EXTENDS KeepAlive, TLAPS

(* What holds of a mailbox x at time t, whoever else there is. *)
BoxOK(x, t) ==
  /\ x.connected => /\ ~x.closed /\ x.heard
                    /\ x.due # Never /\ x.due <= t + Interval /\ t <= x.due + Lag
  /\ x.heard => x.connectDue = Never
  /\ x.due # Never => x.heard
  /\ x.heard /\ ~x.closed => x.connected
  /\ x.sock \in {"none", "connecting"} =>
       /\ ~x.heard /\ ~x.closed /\ x.due = Never
       /\ x.ping = -1 /\ x.pong = -1 /\ x.silent = Never
  /\ x.sock = "open" => x.connected
  /\ x.silent <= t /\ x.ping <= t /\ x.pong <= t
  /\ ~x.closed /\ Unanswered(x) => x.silent # Never /\ x.silent <= x.ping

(* What the times of a mailbox that detects silence tell: an unanswered ping is *)
(* followed by a check in time, and was not sent long after the silence began.  *)
(* The third case is that of an answer in the millisecond of the ping.          *)
WatchOK(x) ==
  /\ x.silent # Never => x.pong <= x.silent
  /\ Unanswered(x) => /\ x.due <= x.ping + Timeout + Interval
                      /\ x.ping <= x.silent + Interval + Lag
  /\ x.silent # Never /\ ~Unanswered(x) =>
       x.ping = x.silent /\ x.due <= x.silent + Interval

Watched(b) == box[b].connected /\ (kind = "mqtt" => registered = b)

(* What holds of mailbox b in state x while the station has mailbox r.  Of the mqtt *)
(* mailboxes only that one is watched.                                             *)
Good(b, x, t, r) ==
  /\ x \in Boxes
  /\ BoxOK(x, t)
  /\ x.connected /\ (kind = "mqtt" => r = b) => WatchOK(x)
  /\ kind = "mqtt" => x.sock # "aborted" /\ (x.sock \in {"connecting", "open"} => r = b)

(* The station's mailbox is connecting, open, or about to report its end. *)
RegisteredOK ==
  registered # 0 => \/ box[registered].sock \in {"connecting", "open"}
                    \/ /\ box[registered].sock = "ending"
                       /\ box[registered].closed /\ box[registered].heard

IInv == /\ TypeOK /\ now >= 1
        /\ registered \in {0, created}
        /\ RegisteredOK
        /\ \A b \in Ids : Good(b, box[b], now, registered)
        /\ \A b \in Ids : b > created => box[b] = NewBox

-----------------------------------------------------------------------------
(* The numbers. *)

LEMMA Numbers ==
  ASSUME TypeOK
  PROVE  /\ Interval \in Nat /\ Interval > 0 /\ Timeout \in Nat /\ Lag \in Nat
         /\ ConnectTimeout \in Nat /\ ConnectTimeout > 0
         /\ kind \in {"ws", "mqtt"}
         /\ now \in Nat
         /\ registered \in Int /\ created \in Int /\ created >= 0
         /\ (registered # 0 => registered \in Ids)
<1>1. /\ WsInterval \in Nat /\ WsInterval > 0 /\ MqttInterval \in Nat /\ MqttInterval > 0
      /\ WsTimeout \in Nat /\ Lag \in Nat /\ ConnectTimeout \in Nat /\ ConnectTimeout > 0
      /\ MaxBoxes \in Nat
  BY KeepAliveAssumption
<1>2. kind \in {"ws", "mqtt"}
  BY KeepAliveAssumption DEF TypeOK
<1> QED
  BY <1>1, <1>2 DEF TypeOK, Interval, Timeout, Ids

(* A mailbox that was closed is not watched. *)
LEMMA GoodClosed ==
  ASSUME NEW b \in Ids, NEW x, NEW t \in Nat, NEW r2, TypeOK, t >= 1,
         x \in Boxes, BoxOK(x, t), x.sock # "none", kind = "mqtt" => x.sock # "aborted",
         NEW by \in {"nobody", "user", "socket", "keepalive"}
  PROVE  /\ Good(b, Closed(x, by), t, r2)
         /\ Closed(x, by).closed
         /\ Closed(x, by).heard = x.heard
         /\ Closed(x, by).sock # "none"
<1>1. CASE x.closed
  BY <1>1 DEF Closed, Good, BoxOK, Boxes
<1>2. CASE ~x.closed
  <2> DEFINE y == Closed(x, by)
  <2>1. x \in Boxes /\ BoxOK(x, t)
    OBVIOUS
  <2>2. y = [Lost(x, GivenUp(x.sock)) EXCEPT
                 !.closed = TRUE, !.connected = FALSE, !.closedBy = by,
                 !.due = IF kind = "ws" THEN Never ELSE @,
                 !.ping = IF kind = "ws" THEN -1 ELSE @,
                 !.pong = IF kind = "ws" THEN -1 ELSE @]
    BY <1>2 DEF Closed
  <2>3. /\ GivenUp(x.sock) \in {"aborted", "ending", "ended"}
        /\ kind = "mqtt" /\ x.sock # "aborted" => GivenUp(x.sock) # "aborted"
    BY <2>1 DEF GivenUp, Boxes
  <2>4. y \in Boxes
    <3> DEFINE z == Lost(x, GivenUp(x.sock))
    <3>1. z \in Boxes
      BY <2>1, <2>3 DEF Boxes, Lost
    <3>2. Never \in Int /\ -1 \in Int
      BY DEF Never
    <3> HIDE DEF z
    <3>3. /\ (IF kind = "ws" THEN Never ELSE z.due) \in Int
          /\ (IF kind = "ws" THEN -1 ELSE z.ping) \in Int
          /\ (IF kind = "ws" THEN -1 ELSE z.pong) \in Int
      BY <3>1, <3>2 DEF Boxes
    <3> QED
      BY <2>2, <3>1, <3>3 DEF Boxes, z
  <2>5. /\ y.closed /\ ~y.connected /\ y.heard = x.heard /\ y.sock = GivenUp(x.sock)
        /\ y.connectDue = x.connectDue /\ y.silent = x.silent
        /\ y.ping \in {x.ping, -1} /\ y.pong \in {x.pong, -1} /\ y.due \in {x.due, Never}
    BY <2>1, <2>2 DEF Boxes, Lost
  <2> QED
    BY <2>1, <2>3, <2>4, <2>5 DEF Good, BoxOK
<1> QED
  BY <1>1, <1>2 DEF Good, Boxes

(* The station may forget or replace a mailbox it does not have. *)
LEMMA GoodForget ==
  ASSUME NEW b \in Ids, NEW x, NEW t, NEW r, NEW r2, Good(b, x, t, r),
         r2 = r \/ r # b \/ kind # "mqtt" \/ x.sock \notin {"connecting", "open"},
         r2 = r \/ r2 # b
  PROVE  Good(b, x, t, r2)
BY DEF Good

(* Time passes while no timer is overdue. *)
LEMMA GoodTime ==
  ASSUME NEW b \in Ids, NEW x, NEW t \in Nat, NEW r, Good(b, x, t, r), TypeOK,
         InTime(x.due), t = now
  PROVE  Good(b, x, t + 1, r)
<1>1. x \in Boxes /\ BoxOK(x, t)
  BY DEF Good
<1>2. Interval \in Nat /\ Lag \in Nat
  BY Numbers
<1>3. /\ x.due \in Int /\ x.silent \in Int /\ x.ping \in Int /\ x.pong \in Int
  BY <1>1 DEF Boxes
<1>4. x.connected => x.due <= t + 1 + Interval /\ t + 1 <= x.due + Lag
  BY <1>1, <1>2, <1>3 DEF BoxOK, InTime
<1>5. x.silent <= t + 1 /\ x.ping <= t + 1 /\ x.pong <= t + 1
  BY <1>1, <1>3 DEF BoxOK
<1>6. BoxOK(x, t + 1)
  BY <1>1, <1>4, <1>5 DEF BoxOK
<1> QED
  BY <1>1, <1>6 DEF Good

(* The socket of a mailbox is lost. *)
LEMMA GoodLost ==
  ASSUME NEW b \in Ids, NEW x, NEW t \in Nat, NEW r, NEW r2, TypeOK, Good(b, x, t, r),
         x.sock # "none",
         NEW sock \in {"ending", "ended"}, r2 \in {r, 0}
  PROVE  /\ Good(b, Lost(x, sock), t, r2)
         /\ Lost(x, sock).heard = x.heard
         /\ Lost(x, sock).sock = sock
         /\ Lost(x, sock).closed = x.closed
         /\ Lost(x, sock).silent = x.silent
         /\ Lost(x, sock).closedBy = x.closedBy
<1> DEFINE y == Lost(x, sock)
<1>1. x \in Boxes /\ BoxOK(x, t)
  BY DEF Good
<1>2. /\ y \in Boxes /\ y.sock = sock
      /\ y.connected = x.connected /\ y.closed = x.closed /\ y.heard = x.heard
      /\ y.due = x.due /\ y.connectDue = x.connectDue /\ y.closedBy = x.closedBy
      /\ y.ping = x.ping /\ y.pong = x.pong /\ y.silent = x.silent
  BY <1>1 DEF Boxes, Lost
<1> HIDE DEF y
<1>3. BoxOK(y, t)
  BY <1>1, <1>2 DEF BoxOK, Unanswered
<1>4. x.connected /\ (kind = "mqtt" => r = b) => WatchOK(x)
  BY DEF Good
<1>5. x.connected /\ (kind = "mqtt" => r2 = b) => WatchOK(x)
  <2>1. b # 0
    BY DEF Ids
  <2> QED
    BY <1>4, <2>1
<1>6. WatchOK(x) => WatchOK(y)
  BY <1>2 DEF WatchOK, Unanswered
<1> QED
  BY <1>2, <1>3, <1>5, <1>6 DEF Good, y

(* What an event 'close' does to every mailbox. *)
LEMMA EmitCloseEffect ==
  ASSUME TypeOK, NEW b \in Ids, NEW x, NEW by, EmitClose(b, x, by)
  PROVE  /\ \A c \in Ids :
              LET y == IF c = b THEN x ELSE box[c]
              IN box'[c] = IF x.heard /\ registered = c THEN Closed(y, by) ELSE y
         /\ registered' = IF x.heard THEN 0 ELSE registered
         /\ DOMAIN box' = Ids
         /\ box' = [c \in Ids |-> box'[c]]
<1>1. box \in [Ids -> Boxes] /\ (registered # 0 => registered \in Ids)
  BY Numbers DEF TypeOK
<1>2. \A c \in Ids : c # 0
  BY DEF Ids
<1>3. CASE x.heard /\ registered # 0
  BY <1>1, <1>2, <1>3 DEF EmitClose
<1>4. CASE ~(x.heard /\ registered # 0)
  BY <1>1, <1>2, <1>4 DEF EmitClose
<1> QED
  BY <1>3, <1>4

(* Good mailboxes, and what the station knows, make up the invariant. *)
LEMMA Assemble ==
  ASSUME TypeOK, kind' = kind, now' \in Nat, now' >= 1,
         created' \in 0..MaxBoxes, registered' \in {0, created'},
         box' = [c \in Ids |-> box'[c]],
         \A c \in Ids : Good(c, box'[c], now', registered'),
         \A c \in Ids : c > created' => box'[c] = NewBox,
         RegisteredOK'
  PROVE  IInv'
<1>1. \A c \in Ids : box'[c] \in Boxes
  BY DEF Good
<1>2. box' \in [Ids -> Boxes]
  BY <1>1
<1>3. TypeOK'
  BY <1>2 DEF TypeOK, Ids
<1>4. Interval' = Interval /\ Timeout' = Timeout
  BY DEF Interval, Timeout
<1>5. \A c \in Ids : Good(c, box[c], now, registered)'
  BY <1>4 DEF Good, BoxOK, WatchOK
<1> QED
  BY <1>3, <1>5 DEF IInv

-----------------------------------------------------------------------------
(* Every action preserves the invariant. *)

LEMMA Basics ==
  ASSUME IInv
  PROVE  /\ TypeOK /\ now \in Nat /\ now >= 1 /\ now + 1 \in Nat /\ now + 1 >= 1
         /\ created \in 0..MaxBoxes /\ registered \in {0, created}
         /\ RegisteredOK
         /\ box = [c \in Ids |-> box[c]]
         /\ \A c \in Ids : c # 0 /\ Good(c, box[c], now, registered)
         /\ \A c \in Ids : c > created => box[c] = NewBox
         /\ \A c \in Ids : box[c].sock # "none" => ~(c > created)
         /\ (registered # 0 => registered \in Ids /\ box[registered].sock # "none")
<1>1. TypeOK
  BY DEF IInv
<1>2. \A c \in Ids : c # 0
  BY DEF Ids
<1>3. registered # 0 => registered \in Ids
  BY <1>1, Numbers
<1>4. now + 1 \in Nat /\ now + 1 >= 1
  BY <1>1 DEF TypeOK
<1>5. registered # 0 => box[registered].sock # "none"
  BY DEF IInv, RegisteredOK
<1>6. box = [c \in Ids |-> box[c]]
  BY <1>1 DEF TypeOK
<1>7. NewBox.sock = "none"
  BY DEF NewBox
<1> QED
  BY <1>1, <1>2, <1>3, <1>4, <1>5, <1>6, <1>7 DEF IInv, TypeOK

LEMMA TickStep ==
  ASSUME IInv, Tick
  PROVE  IInv'
<1> USE Basics
<1>1. \A c \in Ids : Good(c, box'[c], now', registered')
  <2> TAKE c \in Ids
  <2> QED
    BY GoodTime DEF Tick
<1>2. RegisteredOK'
  BY DEF Tick, RegisteredOK
<1> QED
  BY <1>1, <1>2, Assemble DEF Tick

LEMMA CloseStep ==
  ASSUME IInv, Close
  PROVE  IInv'
<1> USE Basics
<1>1. \A c \in Ids : box'[c] = IF c = registered THEN Closed(box[c], "user") ELSE box[c]
  BY DEF Close, TypeOK
<1>2. box' = [c \in Ids |-> box'[c]]
  BY DEF Close, TypeOK
<1>3. \A c \in Ids : Good(c, box'[c], now', registered')
  <2> TAKE c \in Ids
  <2>1. CASE c = registered
    <3>1. Good(c, Closed(box[c], "user"), now, 0)
      BY <2>1, GoodClosed DEF Close, Good
    <3> QED
      BY <2>1, <3>1, <1>1 DEF Close
  <2>2. CASE c # registered
    <3>1. Good(c, box[c], now, 0)
      BY <2>2, GoodForget
    <3> QED
      BY <2>2, <3>1, <1>1 DEF Close
  <2> QED
    BY <2>1, <2>2
<1>4. \A c \in Ids : c > created => box'[c] = NewBox
  BY <1>1 DEF Close
<1>5. RegisteredOK' /\ kind' = kind /\ now' = now /\ created' = created /\ registered' = 0
  BY DEF Close, RegisteredOK
<1> QED
  BY <1>2, <1>3, <1>4, <1>5, Assemble

LEMMA ConnectStep ==
  ASSUME IInv, Connect
  PROVE  IInv'
<1> USE Basics
<1> DEFINE b == created + 1
           y == [NewBox EXCEPT !.sock = "connecting",
                               !.connectDue = IF kind = "mqtt" THEN now + ConnectTimeout
                                              ELSE Never]
<1>1. /\ registered = 0 /\ created < MaxBoxes /\ created' = b /\ registered' = b
      /\ kind' = kind /\ now' = now
  BY DEF Connect
<1>2. MaxBoxes \in Nat
  BY KeepAliveAssumption
<1>3. b \in Ids /\ b \in 0..MaxBoxes /\ b > created
  BY <1>1, <1>2 DEF Ids
<1>4. box[b] = NewBox
  BY <1>3
<1>5. /\ box'[b] = y
      /\ \A c \in Ids : c # b => box'[c] = box[c]
      /\ box' = [c \in Ids |-> box'[c]]
  BY <1>3, <1>4 DEF Connect, TypeOK
<1>6. y.sock = "connecting" /\ y \in Boxes /\ y.connected = FALSE /\ y.closed = FALSE
      /\ y.heard = FALSE /\ y.due = Never /\ y.ping = -1 /\ y.pong = -1 /\ y.silent = Never
  <2>1. (IF kind = "mqtt" THEN now + ConnectTimeout ELSE Never) \in Int
    BY Numbers DEF Never
  <2>2. NewBox \in Boxes
    BY DEF NewBox, Boxes, Never
  <2> QED
    BY <2>1, <2>2 DEF NewBox, Boxes
<1> HIDE DEF y
<1>7. Good(b, y, now, b)
  BY <1>6 DEF Good, BoxOK, Unanswered, Never
<1>8. \A c \in Ids : Good(c, box'[c], now', registered')
  <2> TAKE c \in Ids
  <2>1. CASE c = b
    BY <2>1, <1>1, <1>5, <1>7
  <2>2. CASE c # b
    <3>1. Good(c, box[c], now, b)
      BY <2>2, <1>1, GoodForget
    <3> QED
      BY <2>2, <3>1, <1>1, <1>5
  <2> QED
    BY <2>1, <2>2
<1>9. \A c \in Ids : c > created' => box'[c] = NewBox
  <2> TAKE c \in Ids
  <2>1. c > b => c > created /\ c # b
    BY DEF Ids
  <2> QED
    BY <2>1, <1>1, <1>5
<1>10. RegisteredOK'
  BY <1>1, <1>5, <1>6 DEF RegisteredOK
<1> HIDE DEF b
<1> QED
  BY <1>1, <1>3, <1>5, <1>8, <1>9, <1>10, Assemble

(* An event that changes mailbox b only, and not what the station knows. *)
LEMMA LocalStep ==
  ASSUME IInv, NEW b \in Ids, NEW y,
         box' = [box EXCEPT ![b] = y],
         kind' = kind, now' = now, created' = created, registered' = registered,
         Good(b, y, now, registered),
         ~(b > created),
         registered = b => \/ y.sock \in {"connecting", "open"}
                           \/ y.sock = "ending" /\ y.closed /\ y.heard
  PROVE  IInv'
<1> USE Basics
<1>1. /\ box'[b] = y
      /\ \A c \in Ids : c # b => box'[c] = box[c]
      /\ box' = [c \in Ids |-> box'[c]]
  OBVIOUS
<1>2. \A c \in Ids : Good(c, box'[c], now', registered')
  BY <1>1
<1>3. \A c \in Ids : c > created' => box'[c] = NewBox
  BY <1>1
<1>4. RegisteredOK'
  BY <1>1 DEF RegisteredOK
<1> QED
  BY <1>1, <1>2, <1>3, <1>4, Assemble

LEMMA ConnectionStep ==
  ASSUME IInv, NEW b \in Ids, OnConnection(b)
  PROVE  IInv'
<1> USE Basics
<1> DEFINE x == box[b]
           y == [x EXCEPT !.sock = "open", !.connected = TRUE, !.heard = TRUE,
                          !.connectDue = Never, !.due = now + Interval]
<1>1. x.sock = "connecting" /\ x \in Boxes /\ BoxOK(x, now)
  BY DEF OnConnection, Good
<1>2. Interval \in Nat /\ Interval > 0 /\ Lag \in Nat
  BY Numbers
<1>3. ~x.closed /\ x.ping = -1 /\ x.pong = -1 /\ x.silent = Never
  BY <1>1 DEF BoxOK
<1>4. now + Interval \in Int /\ Never \in Int
  BY <1>2 DEF Never
<1>5. /\ y \in Boxes
      /\ y.sock = "open" /\ y.connected = TRUE /\ y.heard = TRUE /\ y.closed = FALSE
      /\ y.connectDue = Never /\ y.due = now + Interval
      /\ y.ping = -1 /\ y.pong = -1 /\ y.silent = Never
  BY <1>1, <1>3, <1>4 DEF Boxes
<1>6. /\ box' = [box EXCEPT ![b] = y]
      /\ kind' = kind /\ now' = now /\ created' = created /\ registered' = registered
  BY DEF OnConnection, TypeOK
<1>7. kind = "mqtt" => registered = b
  BY <1>1 DEF Good
<1> HIDE DEF y
<1>8. Good(b, y, now, registered)
  BY <1>2, <1>5, <1>7 DEF Good, BoxOK, WatchOK, Unanswered, Never
<1> QED
  BY <1>1, <1>5, <1>6, <1>8, LocalStep

LEMMA AnswerStep ==
  ASSUME IInv, NEW b \in Ids, PeerAnswers(b)
  PROVE  IInv'
<1> USE Basics
<1> DEFINE x == box[b]
           y == [x EXCEPT !.asked = @ - 1, !.answers = @ + 1]
<1>1. x.sock = "open" /\ x.asked > 0 /\ x \in Boxes /\ Good(b, x, now, registered)
  BY DEF PeerAnswers, Good
<1>2. x.asked \in Nat /\ x.answers \in Nat
  BY <1>1 DEF Boxes
<1>3. x.asked - 1 \in Nat /\ x.answers + 1 \in Nat
  BY <1>1, <1>2
<1>4. /\ y \in Boxes
      /\ y.sock = x.sock /\ y.connected = x.connected /\ y.closed = x.closed
      /\ y.heard = x.heard /\ y.due = x.due /\ y.connectDue = x.connectDue
      /\ y.ping = x.ping /\ y.pong = x.pong /\ y.silent = x.silent
  BY <1>1, <1>3 DEF Boxes
<1>5. /\ box' = [box EXCEPT ![b] = y]
      /\ kind' = kind /\ now' = now /\ created' = created /\ registered' = registered
  BY DEF PeerAnswers, TypeOK
<1> HIDE DEF y
<1>6. Good(b, y, now, registered)
  BY <1>1, <1>4 DEF Good, BoxOK, WatchOK, Unanswered
<1> QED
  BY <1>1, <1>4, <1>5, <1>6, LocalStep

LEMMA PongStep ==
  ASSUME IInv, NEW b \in Ids, OnPong(b)
  PROVE  IInv'
<1> USE Basics
<1> DEFINE x == box[b]
           y == [x EXCEPT !.answers = @ - 1, !.pong = now, !.silent = Never]
<1>1. x.sock = "open" /\ x.answers > 0 /\ x \in Boxes /\ Good(b, x, now, registered)
  BY DEF OnPong, Good
<1>2. x.answers - 1 \in Nat /\ now \in Int /\ Never \in Int
  BY <1>1 DEF Boxes, Never
<1>3. /\ y \in Boxes
      /\ y.sock = x.sock /\ y.connected = x.connected /\ y.closed = x.closed
      /\ y.heard = x.heard /\ y.due = x.due /\ y.connectDue = x.connectDue
      /\ y.ping = x.ping /\ y.pong = now /\ y.silent = Never
  BY <1>1, <1>2 DEF Boxes
<1>4. /\ box' = [box EXCEPT ![b] = y]
      /\ kind' = kind /\ now' = now /\ created' = created /\ registered' = registered
  BY DEF OnPong, TypeOK
<1> HIDE DEF y
<1>5. x.ping <= now /\ x.ping \in Int
  BY <1>1 DEF Good, BoxOK, Boxes
<1>6. ~Unanswered(y)
  BY <1>3, <1>5 DEF Unanswered
<1>7. BoxOK(y, now)
  BY <1>1, <1>3, <1>5, <1>6 DEF Good, BoxOK, Never
<1>8. WatchOK(y)
  BY <1>3, <1>6 DEF WatchOK
<1>9. Good(b, y, now, registered)
  BY <1>1, <1>3, <1>7, <1>8 DEF Good
<1> QED
  BY <1>1, <1>3, <1>4, <1>9, LocalStep

LEMMA ConnectTimeoutStep ==
  ASSUME IInv, NEW b \in Ids, OnConnectTimeout(b)
  PROVE  IInv'
<1> USE Basics
<1> DEFINE x == box[b]
           y == [x EXCEPT !.connectDue = Never]
<1>1. x.connectDue # Never /\ x \in Boxes /\ Good(b, x, now, registered)
  BY DEF OnConnectTimeout, Good
<1>2. ~x.heard
  BY <1>1 DEF Good, BoxOK
<1>3. /\ y \in Boxes
      /\ y.sock = x.sock /\ y.connected = x.connected /\ y.closed = x.closed
      /\ y.heard = x.heard /\ y.due = x.due /\ y.connectDue = Never
      /\ y.ping = x.ping /\ y.pong = x.pong /\ y.silent = x.silent
  BY <1>1 DEF Boxes, Never
<1>4. /\ box' = [box EXCEPT ![b] = y]
      /\ kind' = kind /\ now' = now /\ created' = created /\ registered' = registered
  BY <1>2, <1>3 DEF OnConnectTimeout, EmitClose
<1> HIDE DEF y
<1>5. Good(b, y, now, registered)
  BY <1>1, <1>3 DEF Good, BoxOK, WatchOK, Unanswered
<1>6. ~(b > created)
  BY <1>1 DEF NewBox
<1>7. registered = b => \/ y.sock \in {"connecting", "open"}
                        \/ y.sock = "ending" /\ y.closed /\ y.heard
  BY <1>3 DEF RegisteredOK
<1> QED
  BY <1>4, <1>5, <1>6, <1>7, LocalStep

(* An event after which the station has closed or forgotten its mailbox: none but *)
(* mailbox b, where it happened, and the one that is closed changes.             *)
LEMMA ForgetStep ==
  ASSUME IInv, NEW b \in Ids, NEW by \in {"nobody", "user", "socket", "keepalive"},
         kind' = kind, now' = now, created' = created, registered' = 0,
         box' = [c \in Ids |-> box'[c]],
         ~(b > created),
         Good(b, box'[b], now, 0),
         \A c \in Ids : c # b =>
           \/ box'[c] = box[c] /\ (c = registered =>
                kind # "mqtt" \/ box[c].sock \notin {"connecting", "open"})
           \/ c = registered /\ box'[c] = Closed(box[c], by)
  PROVE  IInv'
<1> USE Basics
<1>1. \A c \in Ids : Good(c, box'[c], now', registered')
  <2> TAKE c \in Ids
  <2>1. CASE c = b
    BY <2>1
  <2>2. CASE c # b /\ box'[c] = box[c]
                   /\ (c = registered =>
                         kind # "mqtt" \/ box[c].sock \notin {"connecting", "open"})
    <3>1. Good(c, box[c], now, 0)
      BY <2>2, GoodForget
    <3> QED
      BY <2>2, <3>1
  <2>3. CASE c # b /\ c = registered /\ box'[c] = Closed(box[c], by)
    <3>1. box[c] \in Boxes /\ BoxOK(box[c], now) /\ (kind = "mqtt" => box[c].sock # "aborted")
      BY DEF Good
    <3>2. Good(c, Closed(box[c], by), now, 0)
      BY <2>3, <3>1, GoodClosed
    <3> QED
      BY <2>3, <3>2
  <2> QED
    BY <2>1, <2>2, <2>3
<1>2. \A c \in Ids : c > created' => box'[c] = NewBox
  <2> TAKE c \in Ids
  <2>1. ASSUME c > created PROVE c # b /\ c # registered
    BY <2>1
  <2> QED
    BY <2>1
<1>3. RegisteredOK'
  BY DEF RegisteredOK
<1> QED
  BY <1>1, <1>2, <1>3, Assemble

LEMMA ErrorStep ==
  ASSUME IInv, NEW b \in Ids, OnError(b)
  PROVE  IInv'
<1> USE Basics
<1> DEFINE x == Lost(box[b], "ending")
<1>1. box[b].sock \in {"connecting", "open", "aborted"} /\ Good(b, box[b], now, registered)
  BY DEF OnError
<1>2. Good(b, x, now, 0) /\ x.sock = "ending"
  BY <1>1, GoodLost
<1>3. Good(b, Closed(x, "socket"), now, 0)
  <2>1. x \in Boxes /\ BoxOK(x, now)
    BY <1>2 DEF Good
  <2> HIDE DEF x
  <2> QED
    BY <1>2, <2>1, GoodClosed
<1>4. /\ box' = [box EXCEPT ![b] = IF kind = "ws" THEN Closed(x, "socket") ELSE x]
      /\ kind' = kind /\ now' = now /\ created' = created /\ registered' = 0
  BY DEF OnError
<1> HIDE DEF x
<1>5. /\ box'[b] \in {x, Closed(x, "socket")}
      /\ \A c \in Ids : c # b => box'[c] = box[c]
      /\ box' = [c \in Ids |-> box'[c]]
  BY <1>4
<1>6. Good(b, box'[b], now, 0)
  BY <1>2, <1>3, <1>5
<1>7. kind = "mqtt" => registered = b
  BY <1>1 DEF Good
<1>8. \A c \in Ids : c # b => box'[c] = box[c] /\ (c = registered => kind # "mqtt")
  BY <1>5, <1>7
<1>9. ~(b > created)
  BY <1>1
<1> QED
  BY <1>4, <1>5, <1>6, <1>8, <1>9, ForgetStep

(* Both events that make the station close its mailbox. *)
LEMMA EmitCloseStep ==
  ASSUME IInv, NEW b \in Ids, NEW x, NEW by \in {"nobody", "user", "socket", "keepalive"},
         EmitClose(b, x, by), kind' = kind, now' = now, created' = created,
         Good(b, IF x.heard /\ registered = b THEN Closed(x, by) ELSE x, now,
              IF x.heard THEN 0 ELSE registered),
         box[b].sock # "none",
         registered = b => x.heard
  PROVE  IInv'
<1> USE Basics
<1>1. /\ \A c \in Ids :
           LET y == IF c = b THEN x ELSE box[c]
           IN box'[c] = IF x.heard /\ registered = c THEN Closed(y, by) ELSE y
      /\ registered' = IF x.heard THEN 0 ELSE registered
      /\ box' = [c \in Ids |-> box'[c]]
  BY EmitCloseEffect
<1>2. ~(b > created)
  OBVIOUS
<1>3. CASE x.heard
  <2>1. Good(b, box'[b], now, 0)
    BY <1>1, <1>3
  <2>2. \A c \in Ids : c # b =>
           \/ box'[c] = box[c] /\ c # registered
           \/ c = registered /\ box'[c] = Closed(box[c], by)
    BY <1>1, <1>3
  <2>3. registered' = 0
    BY <1>1, <1>3
  <2> QED
    BY <1>1, <1>2, <2>1, <2>2, <2>3, ForgetStep
<1>4. CASE ~x.heard
  <2>1. /\ box'[b] = x /\ registered' = registered /\ registered # b
        /\ \A c \in Ids : c # b => box'[c] = box[c]
        /\ Good(b, x, now, registered)
    BY <1>1, <1>4
  <2>2. box' = [box EXCEPT ![b] = x]
    BY <1>1, <2>1
  <2> QED
    BY <1>2, <2>1, <2>2, LocalStep
<1> QED
  BY <1>3, <1>4

LEMMA OnCloseStep ==
  ASSUME IInv, NEW b \in Ids, OnClose(b)
  PROVE  IInv'
<1> USE Basics
<1> DEFINE x == Lost(box[b], "ended")
<1>1. box[b].sock \in {"open", "ending"} /\ Good(b, box[b], now, registered)
  BY DEF OnClose
<1>2. \A r2 \in {registered, 0} : Good(b, x, now, r2)
  BY <1>1, GoodLost
<1>3. x.sock = "ended" /\ x.heard = box[b].heard
  BY <1>1, GoodLost
<1>4. registered = b => box[b].heard
  <2>1. box[b].sock = "open" => box[b].heard
    BY <1>1 DEF Good, BoxOK
  <2> QED
    BY <1>1, <2>1 DEF RegisteredOK
<1>5. EmitClose(b, x, "socket") /\ kind' = kind /\ now' = now /\ created' = created
  BY DEF OnClose
<1>6. Good(b, Closed(x, "socket"), now, 0)
  BY <1>2, <1>3, GoodClosed DEF Good
<1> HIDE DEF x
<1>7. Good(b, IF x.heard /\ registered = b THEN Closed(x, "socket") ELSE x, now,
           IF x.heard THEN 0 ELSE registered)
  BY <1>2, <1>6
<1> QED
  BY <1>1, <1>3, <1>4, <1>5, <1>7, EmitCloseStep

(* The timer of a mailbox is set anew, without a ping and without an alarm. *)
LEMMA GoodWait ==
  ASSUME IInv, NEW b \in Ids, box[b].due # Never,
         box[b].closed \/ (Unanswered(box[b]) /\ now - box[b].ping <= Timeout)
  PROVE  LET y == [box[b] EXCEPT !.due = now + Interval]
         IN /\ Good(b, y, now, registered)
            /\ y.sock = box[b].sock /\ y.closed = box[b].closed /\ y.heard = box[b].heard
<1> USE Basics
<1> DEFINE x == box[b]
           y == [x EXCEPT !.due = now + Interval]
<1>1. x \in Boxes /\ Good(b, x, now, registered) /\ BoxOK(x, now)
  BY DEF Good
<1>2. Interval \in Nat /\ Interval > 0 /\ Lag \in Nat /\ Timeout \in Nat
  BY Numbers
<1>3. now + Interval \in Int /\ now + Interval # Never
  BY <1>2 DEF Never
<1>4. /\ y \in Boxes
      /\ y.sock = x.sock /\ y.connected = x.connected /\ y.closed = x.closed
      /\ y.heard = x.heard /\ y.due = now + Interval /\ y.connectDue = x.connectDue
      /\ y.ping = x.ping /\ y.pong = x.pong /\ y.silent = x.silent
  BY <1>1, <1>3 DEF Boxes
<1>5. /\ x.ping \in Int /\ x.pong \in Int /\ x.silent \in Int /\ x.due \in Int
      /\ x.closed \in BOOLEAN /\ x.connected \in BOOLEAN
  BY <1>1 DEF Boxes
<1>6. x.sock \notin {"none", "connecting"}
  BY <1>1 DEF BoxOK
<1> HIDE DEF y
<1>7. BoxOK(y, now)
  BY <1>1, <1>2, <1>3, <1>4, <1>6 DEF BoxOK, Unanswered
<1>8. WatchOK(x) /\ x.connected => WatchOK(y)
  <2>1. x.connected => Unanswered(x) /\ now - x.ping <= Timeout
    BY <1>1, <1>5 DEF BoxOK
  <2> SUFFICES ASSUME WatchOK(x), Unanswered(x), now - x.ping <= Timeout
               PROVE  WatchOK(y)
    BY <2>1
  <2>2. now + Interval <= x.ping + Timeout + Interval
    BY <1>2, <1>5
  <2>3. Unanswered(y)
    BY <1>4 DEF Unanswered
  <2> QED
    BY <1>4, <2>2, <2>3 DEF WatchOK
<1>9. Good(b, y, now, registered)
  BY <1>1, <1>4, <1>7, <1>8 DEF Good
<1> QED
  BY <1>4, <1>9 DEF y

(* A ping is sent: the heart of DetectedInTime. *)
LEMMA GoodPing ==
  ASSUME IInv, NEW b \in Ids, box[b].due # Never, ~box[b].closed, ~Unanswered(box[b])
  PROVE  LET y == Pinged([box[b] EXCEPT !.due = now + Interval])
         IN /\ Good(b, y, now, registered)
            /\ y.sock = box[b].sock /\ y.closed = box[b].closed /\ y.heard = box[b].heard
<1> USE Basics
<1> DEFINE x == box[b]
           z == [x EXCEPT !.due = now + Interval]
           y == Pinged(z)
<1>1. x \in Boxes /\ Good(b, x, now, registered) /\ BoxOK(x, now)
  BY DEF Good
<1>2. Interval \in Nat /\ Interval > 0 /\ Lag \in Nat /\ Timeout \in Nat
  BY Numbers
<1>3. now + Interval \in Int /\ now + Interval # Never /\ now \in Int
  BY <1>2 DEF Never
<1>4. /\ z \in Boxes
      /\ z.sock = x.sock /\ z.connected = x.connected /\ z.closed = x.closed
      /\ z.heard = x.heard /\ z.due = now + Interval /\ z.connectDue = x.connectDue
      /\ z.ping = x.ping /\ z.pong = x.pong /\ z.silent = x.silent
  BY <1>1, <1>3 DEF Boxes
<1> HIDE DEF z
<1>5. /\ (IF z.sock = "open" THEN z.asked + 1 ELSE z.asked) \in Nat
      /\ (IF z.silent = Never THEN now ELSE z.silent) \in Int
  BY <1>3, <1>4 DEF Boxes
<1>6. /\ y \in Boxes
      /\ y.sock = x.sock /\ y.connected = x.connected /\ y.closed = x.closed
      /\ y.heard = x.heard /\ y.due = now + Interval /\ y.connectDue = x.connectDue
      /\ y.ping = now /\ y.pong = x.pong
      /\ y.silent = IF x.silent = Never THEN now ELSE x.silent
  BY <1>3, <1>4, <1>5 DEF Boxes, Pinged
<1> HIDE DEF y
<1>7. /\ x.ping \in Int /\ x.pong \in Int /\ x.silent \in Int /\ x.due \in Int
      /\ x.silent <= now /\ x.pong <= now
  BY <1>1 DEF Boxes, BoxOK
<1>8. x.sock \notin {"none", "connecting"}
  BY <1>1 DEF BoxOK
<1>9. y.silent \in Int /\ y.silent <= now /\ y.silent # Never
  BY <1>3, <1>6, <1>7 DEF Never
<1>10. BoxOK(y, now)
  BY <1>1, <1>2, <1>3, <1>6, <1>7, <1>8, <1>9 DEF BoxOK
<1>11. WatchOK(x) /\ x.connected => WatchOK(y)
  <2> SUFFICES ASSUME WatchOK(x), x.connected
               PROVE  WatchOK(y)
    OBVIOUS
  <2>1. now <= x.due + Lag
    BY <1>1 DEF BoxOK
  <2>2. x.silent # Never => /\ x.pong <= x.silent
                            /\ x.ping = x.silent /\ x.due <= x.silent + Interval
    BY DEF WatchOK
  <2>3. y.pong <= y.silent
    BY <1>6, <1>7, <2>2
  <2>4. y.ping <= y.silent + Interval + Lag
    BY <1>2, <1>6, <1>7, <1>9, <2>1, <2>2
  <2>5. y.due <= y.ping + Timeout + Interval
    BY <1>2, <1>6
  <2>6. ~Unanswered(y) => y.ping = y.silent /\ y.due <= y.silent + Interval
    <3>1. ~Unanswered(y) => y.pong >= now
      BY <1>6, <1>7 DEF Unanswered
    <3> QED
      BY <1>2, <1>6, <1>7, <1>9, <2>3, <3>1
  <2> QED
    BY <2>3, <2>4, <2>5, <2>6 DEF WatchOK
<1>12. Good(b, y, now, registered)
  BY <1>1, <1>6, <1>10, <1>11 DEF Good
<1> QED
  BY <1>6, <1>12 DEF y, z

(* Who an alarm is about. *)
LEMMA Alarm ==
  ASSUME IInv, NEW b \in Ids, ~box[b].closed, Unanswered(box[b]), now - box[b].ping > Timeout
  PROVE  SilentFor(b, Timeout)
<1> USE Basics
<1>1. box[b] \in Boxes /\ BoxOK(box[b], now)
  BY DEF Good
<1>2. /\ box[b].ping \in Int /\ box[b].silent \in Int
      /\ box[b].silent # Never /\ box[b].silent <= box[b].ping
  BY <1>1 DEF Boxes, BoxOK
<1>3. Timeout \in Nat
  BY Numbers
<1> QED
  BY <1>2, <1>3 DEF SilentFor

(* What checkKeepAlive() does, with the mailbox as it was before. *)
LEMMA CheckCases ==
  ASSUME IInv, NEW b \in Ids, CheckKeepAlive(b)
  PROVE  LET x == [box[b] EXCEPT !.due = now + Interval]
         IN /\ box[b].due # Never /\ kind' = kind /\ now' = now /\ created' = created
            /\ \/ /\ ~box[b].closed /\ ~Unanswered(box[b])
                  /\ box' = [box EXCEPT ![b] = Pinged(x)] /\ registered' = registered
               \/ /\ box[b].closed \/ (Unanswered(box[b]) /\ now - box[b].ping <= Timeout)
                  /\ box' = [box EXCEPT ![b] = x] /\ registered' = registered
               \/ /\ kind = "ws" /\ ~box[b].closed
                  /\ Unanswered(box[b]) /\ now - box[b].ping > Timeout
                  /\ box' = [box EXCEPT ![b] = Closed(x, "keepalive")]
                  /\ registered' = registered
               \/ /\ kind = "mqtt" /\ ~box[b].closed
                  /\ Unanswered(box[b]) /\ now - box[b].ping > Timeout
                  /\ EmitClose(b, [x EXCEPT !.ping = -1], "keepalive")
<1> DEFINE x == [box[b] EXCEPT !.due = now + Interval]
<1>1. box[b] \in Boxes
  BY Basics DEF Good
<1>2. x.closed = box[b].closed /\ x.ping = box[b].ping /\ x.pong = box[b].pong
  BY <1>1 DEF Boxes
<1>3. Unanswered(x) = Unanswered(box[b])
  BY <1>2 DEF Unanswered
<1>4. CheckKeepAlive(b)
  OBVIOUS
<1> QED
  BY <1>2, <1>3, <1>4 DEF CheckKeepAlive

(* The mqtt mailbox forgets the time of its ping with the alarm. *)
LEMMA AlarmedBox ==
  ASSUME IInv, NEW b \in Ids, box[b].due # Never, ~box[b].closed
  PROVE  LET y == [[box[b] EXCEPT !.due = now + Interval] EXCEPT !.ping = -1]
         IN /\ y \in Boxes /\ BoxOK(y, now)
            /\ y.sock = box[b].sock /\ y.heard
<1> USE Basics
<1> DEFINE x == box[b]
           y == [[box[b] EXCEPT !.due = now + Interval] EXCEPT !.ping = -1]
<1>1. x \in Boxes /\ BoxOK(x, now)
  BY DEF Good
<1>2. Interval \in Nat /\ Interval > 0 /\ Lag \in Nat
  BY Numbers
<1>3. now + Interval \in Int /\ now + Interval # Never /\ -1 \in Int
  BY <1>2 DEF Never
<1>4. /\ y \in Boxes
      /\ y.sock = x.sock /\ y.connected = x.connected /\ y.closed = x.closed
      /\ y.heard = x.heard /\ y.due = now + Interval /\ y.connectDue = x.connectDue
      /\ y.ping = -1 /\ y.pong = x.pong /\ y.silent = x.silent
  BY <1>1, <1>3 DEF Boxes
<1>5. x.sock \notin {"none", "connecting"} /\ x.heard
  BY <1>1 DEF BoxOK
<1> HIDE DEF y
<1>6. ~Unanswered(y)
  BY <1>4 DEF Unanswered
<1>7. BoxOK(y, now)
  BY <1>1, <1>2, <1>3, <1>4, <1>5, <1>6 DEF BoxOK
<1> QED
  BY <1>4, <1>5, <1>7 DEF y

LEMMA CheckStep ==
  ASSUME IInv, NEW b \in Ids, CheckKeepAlive(b)
  PROVE  IInv'
<1> USE Basics
<1> DEFINE x == [box[b] EXCEPT !.due = now + Interval]
<1>1. box[b].due # Never /\ kind' = kind /\ now' = now /\ created' = created
  BY CheckCases
<1>2. box[b] \in Boxes /\ BoxOK(box[b], now)
  BY DEF Good
<1>3. box[b].sock \notin {"none", "connecting"} /\ box[b].heard /\ ~(b > created)
  BY <1>1, <1>2 DEF BoxOK
<1>4. registered = b => \/ box[b].sock \in {"connecting", "open"}
                        \/ box[b].sock = "ending" /\ box[b].closed /\ box[b].heard
  BY DEF RegisteredOK
<1>5. CASE /\ ~box[b].closed /\ ~Unanswered(box[b])
           /\ box' = [box EXCEPT ![b] = Pinged(x)] /\ registered' = registered
  <2>1. /\ Good(b, Pinged(x), now, registered) /\ Pinged(x).sock = box[b].sock
        /\ Pinged(x).closed = box[b].closed /\ Pinged(x).heard = box[b].heard
    BY <1>1, <1>5, GoodPing
  <2> QED
    BY <1>1, <1>3, <1>4, <1>5, <2>1, LocalStep
<1>6. CASE /\ box[b].closed \/ (Unanswered(box[b]) /\ now - box[b].ping <= Timeout)
           /\ box' = [box EXCEPT ![b] = x] /\ registered' = registered
  <2>1. /\ Good(b, x, now, registered) /\ x.sock = box[b].sock
        /\ x.closed = box[b].closed /\ x.heard = box[b].heard
    BY <1>1, <1>6, GoodWait
  <2> HIDE DEF x
  <2> QED
    BY <1>1, <1>3, <1>4, <1>6, <2>1, LocalStep
<1>7. CASE /\ kind = "ws" /\ ~box[b].closed
           /\ box' = [box EXCEPT ![b] = Closed(x, "keepalive")] /\ registered' = registered
  <2> DEFINE y == Closed(x, "keepalive")
  <2>1. x \in Boxes /\ x.sock = box[b].sock /\ x.closed = FALSE /\ x.heard = box[b].heard
        /\ x.due = now + Interval /\ x.connected = box[b].connected
        /\ x.connectDue = box[b].connectDue /\ x.ping = box[b].ping
        /\ x.pong = box[b].pong /\ x.silent = box[b].silent
    <3>1. now + Interval \in Int
      BY Numbers
    <3> QED
      BY <1>2, <1>7, <3>1 DEF Boxes
  <2>2. BoxOK(x, now)
    <3>1. Interval \in Nat /\ Interval > 0 /\ Lag \in Nat /\ now + Interval # Never
      BY Numbers DEF Never
    <3> HIDE DEF x
    <3> QED
      BY <1>2, <1>3, <1>7, <2>1, <3>1 DEF BoxOK, Unanswered
  <2> HIDE DEF x
  <2>3. Good(b, y, now, registered) /\ y.closed /\ y.heard = x.heard
    BY <1>3, <1>7, <2>1, <2>2, GoodClosed
  <2>4. box[b].sock = "open" => y.sock = "ending"
    BY <2>1 DEF Closed, GivenUp, Lost, Boxes
  <2>5. registered = b => y.sock = "ending"
    BY <1>3, <1>4, <1>7, <2>4
  <2> HIDE DEF y
  <2>6. box' = [box EXCEPT ![b] = y]
    BY <1>7 DEF y
  <2> QED
    BY <1>1, <1>3, <1>7, <2>1, <2>3, <2>5, <2>6, LocalStep
<1>8. CASE /\ kind = "mqtt" /\ ~box[b].closed
           /\ EmitClose(b, [x EXCEPT !.ping = -1], "keepalive")
  <2> DEFINE y == [x EXCEPT !.ping = -1]
  <2>1. y \in Boxes /\ BoxOK(y, now) /\ y.sock = box[b].sock /\ y.heard
    BY <1>1, <1>8, AlarmedBox
  <2>2. EmitClose(b, y, "keepalive")
    BY <1>8
  <2> HIDE DEF y, x
  <2>3. box[b].sock # "aborted" /\ (box[b].sock = "open" => registered = b)
    BY <1>8 DEF Good
  <2>4. Good(b, Closed(y, "keepalive"), now, 0)
    BY <1>3, <2>1, <2>3, GoodClosed
  <2>5. registered # b => Good(b, y, now, 0)
    BY <1>3, <1>8, <2>1, <2>3 DEF Good
  <2>6. Good(b, IF y.heard /\ registered = b THEN Closed(y, "keepalive") ELSE y, now,
             IF y.heard THEN 0 ELSE registered)
    BY <2>1, <2>4, <2>5
  <2> QED
    BY <1>1, <1>3, <2>1, <2>2, <2>6, EmitCloseStep
<1> HIDE DEF x
<1>9. \/ /\ ~box[b].closed /\ ~Unanswered(box[b])
         /\ box' = [box EXCEPT ![b] = Pinged(x)] /\ registered' = registered
      \/ /\ box[b].closed \/ (Unanswered(box[b]) /\ now - box[b].ping <= Timeout)
         /\ box' = [box EXCEPT ![b] = x] /\ registered' = registered
      \/ /\ kind = "ws" /\ ~box[b].closed
         /\ box' = [box EXCEPT ![b] = Closed(x, "keepalive")] /\ registered' = registered
      \/ /\ kind = "mqtt" /\ ~box[b].closed
         /\ EmitClose(b, [x EXCEPT !.ping = -1], "keepalive")
  BY CheckCases DEF x
<1> QED
  BY <1>5, <1>6, <1>7, <1>8, <1>9

-----------------------------------------------------------------------------
(* The theorems. *)

LEMMA Inductive == IInv /\ [Next]_vars => IInv'
<1> SUFFICES ASSUME IInv, [Next]_vars
             PROVE  IInv'
  OBVIOUS
<1>1. CASE Tick
  BY <1>1, TickStep
<1>2. CASE Connect
  BY <1>2, ConnectStep
<1>3. CASE Close
  BY <1>3, CloseStep
<1>4. ASSUME NEW b \in Ids, OnConnection(b)
      PROVE  IInv'
  BY <1>4, ConnectionStep
<1>5. ASSUME NEW b \in Ids, OnError(b)
      PROVE  IInv'
  BY <1>5, ErrorStep
<1>6. ASSUME NEW b \in Ids, OnClose(b)
      PROVE  IInv'
  BY <1>6, OnCloseStep
<1>7. ASSUME NEW b \in Ids, OnConnectTimeout(b)
      PROVE  IInv'
  BY <1>7, ConnectTimeoutStep
<1>8. ASSUME NEW b \in Ids, CheckKeepAlive(b)
      PROVE  IInv'
  BY <1>8, CheckStep
<1>9. ASSUME NEW b \in Ids, PeerAnswers(b)
      PROVE  IInv'
  BY <1>9, AnswerStep
<1>10. ASSUME NEW b \in Ids, OnPong(b)
       PROVE  IInv'
  BY <1>10, PongStep
<1>11. CASE UNCHANGED vars
  BY <1>11 DEF IInv, TypeOK, RegisteredOK, Good, BoxOK, WatchOK, Unanswered, Interval,
               Timeout, vars
<1> QED
  BY <1>1, <1>2, <1>3, <1>4, <1>5, <1>6, <1>7, <1>8, <1>9, <1>10, <1>11 DEF Next

LEMMA Initial == Init => IInv
<1> SUFFICES ASSUME Init
             PROVE  IInv
  OBVIOUS
<1>1. NewBox \in Boxes
  BY DEF NewBox, Boxes, Never
<1>2. MaxBoxes \in Nat
  BY KeepAliveAssumption
<1>3. TypeOK
  BY <1>1, <1>2 DEF Init, TypeOK
<1>4. \A b \in Ids : Good(b, NewBox, 1, 0)
  BY <1>1 DEF Good, BoxOK, Unanswered, NewBox, Never
<1> QED
  BY <1>3, <1>4 DEF Init, IInv, RegisteredOK

\* The invariant behind the other results: see Good, BoxOK and WatchOK.
THEOREM Invariant == Spec => []IInv
BY Initial, Inductive, PTL DEF Spec

\* The variables of KeepAlive keep their types.
THEOREM TypeCorrect == Spec => []TypeOK
<1>1. IInv => TypeOK
  BY DEF IInv
<1> QED
  BY <1>1, Invariant, PTL

\* For any intervals, timeout and delay of timers, the ws and the mqtt mailbox give
\* up a silent connection within the timeout, two intervals and two delays.
THEOREM DetectionCorrect == Spec => []DetectedInTime
<1>1. IInv => DetectedInTime
  <2> SUFFICES ASSUME IInv, NEW b \in Ids, Watched(b), SilentFor(b, Timeout + 2 * Interval + 2 * Lag)
               PROVE  FALSE
    BY DEF DetectedInTime, Watched
  <2>1. /\ box[b] \in Boxes /\ BoxOK(box[b], now) /\ WatchOK(box[b]) /\ box[b].connected
    BY DEF IInv, Good, Watched
  <2>2. /\ Interval \in Nat /\ Timeout \in Nat /\ Lag \in Nat /\ now \in Nat
    BY Numbers DEF IInv
  <2>3. /\ box[b].due \in Int /\ box[b].ping \in Int /\ box[b].silent \in Int
    BY <2>1 DEF Boxes
  <2>4. now <= box[b].due + Lag
    BY <2>1 DEF BoxOK
  <2>5. box[b].silent # Never /\ now - box[b].silent > Timeout + 2 * Interval + 2 * Lag
    BY DEF SilentFor
  <2>6. CASE Unanswered(box[b])
    <3>1. /\ box[b].due <= box[b].ping + Timeout + Interval
          /\ box[b].ping <= box[b].silent + Interval + Lag
      BY <2>1, <2>6 DEF WatchOK
    <3> QED
      BY <2>2, <2>3, <2>4, <2>5, <3>1
  <2>7. CASE ~Unanswered(box[b])
    <3>1. box[b].due <= box[b].silent + Interval
      BY <2>1, <2>5, <2>7 DEF WatchOK
    <3> QED
      BY <2>2, <2>3, <2>4, <2>5, <3>1
  <2> QED
    BY <2>6, <2>7
<1> QED
  BY <1>1, Invariant, PTL

\* A closed mailbox stays with the station at most until its 'close' event.
THEOREM ForgottenInTheEnd == Spec => []ClosedIsForgotten
<1>1. IInv => ClosedIsForgotten
  <2> SUFFICES ASSUME IInv, registered # 0, box[registered].closed
               PROVE  box[registered].sock = "ending" /\ box[registered].heard
    BY DEF ClosedIsForgotten
  <2>1. registered \in Ids /\ BoxOK(box[registered], now)
    BY Basics DEF Good
  <2>2. box[registered].sock \notin {"connecting", "open"}
    BY <2>1 DEF BoxOK
  <2> QED
    BY <2>2 DEF IInv, RegisteredOK
<1> QED
  BY <1>1, Invariant, PTL

(* Closing records the reason it is given. *)
LEMMA ClosedReason ==
  ASSUME NEW x \in Boxes, NEW by
  PROVE  Closed(x, by).closedBy \in {x.closedBy, by}
BY DEF Closed, Lost, Boxes

(* A step that closes mailbox b on behalf of the keep-alive. *)
LEMMA KeepAliveCloses ==
  ASSUME IInv, Next, NEW b \in Ids,
         box[b].closedBy # "keepalive", box'[b].closedBy = "keepalive"
  PROVE  \/ SilentFor(b, Timeout)
         \/ \E a \in 1..(b - 1) : Stray(a) /\ SilentFor(a, Timeout)
<1> USE Basics
<1>1. \A c \in Ids : box[c] \in Boxes
  BY DEF Good
<1>2. box \in [Ids -> Boxes]
  BY DEF TypeOK
<1>3. ASSUME Tick
      PROVE  FALSE
  BY <1>3 DEF Tick
<1>4. ASSUME Connect
      PROVE  FALSE
  <2>1. created + 1 \in Ids
    BY <1>4, KeepAliveAssumption DEF Connect, Ids
  <2> QED
    BY <1>1, <1>2, <1>4, <2>1 DEF Connect, Boxes
<1>5. ASSUME Close
      PROVE  FALSE
  <2>1. box'[b] \in {box[b], Closed(box[b], "user")}
    BY <1>2, <1>5 DEF Close
  <2> QED
    BY <1>1, <2>1, ClosedReason
<1>6. ASSUME NEW a \in Ids, OnConnection(a) \/ PeerAnswers(a) \/ OnPong(a)
      PROVE  FALSE
  BY <1>1, <1>2, <1>6 DEF OnConnection, PeerAnswers, OnPong, Boxes
<1>7. ASSUME NEW a \in Ids, OnError(a)
      PROVE  FALSE
  <2> DEFINE x == Lost(box[a], "ending")
  <2>1. x \in Boxes /\ x.closedBy = box[a].closedBy
    BY <1>1 DEF Lost, Boxes
  <2>2. \/ box'[b] = box[b]
        \/ b = a /\ box'[b] \in {x, Closed(x, "socket")}
    BY <1>2, <1>7 DEF OnError
  <2> HIDE DEF x
  <2> QED
    BY <2>1, <2>2, ClosedReason
<1>8. ASSUME NEW a \in Ids, OnClose(a)
      PROVE  FALSE
  <2> DEFINE x == Lost(box[a], "ended")
  <2>1. x \in Boxes /\ x.closedBy = box[a].closedBy
    BY <1>1 DEF Lost, Boxes
  <2>2. EmitClose(a, x, "socket")
    BY <1>8 DEF OnClose
  <2> HIDE DEF x
  <2>3. \/ b = a /\ box'[b] \in {x, Closed(x, "socket")}
        \/ b # a /\ box'[b] \in {box[b], Closed(box[b], "socket")}
    BY <2>2, EmitCloseEffect
  <2> QED
    BY <1>1, <2>1, <2>3, ClosedReason
<1>9. ASSUME NEW a \in Ids, OnConnectTimeout(a)
      PROVE  FALSE
  <2> DEFINE x == [box[a] EXCEPT !.connectDue = Never]
  <2>1. box[a].connectDue # Never /\ BoxOK(box[a], now)
    BY <1>9 DEF OnConnectTimeout, Good
  <2>2. ~box[a].heard
    BY <2>1 DEF BoxOK
  <2>3. x.closedBy = box[a].closedBy /\ x.heard = box[a].heard
    BY <1>1 DEF Boxes
  <2>4. EmitClose(a, x, "keepalive")
    BY <1>9 DEF OnConnectTimeout
  <2> HIDE DEF x
  <2>5. (b = a /\ box'[b] = x) \/ (b # a /\ box'[b] = box[b])
    BY <2>2, <2>3, <2>4, EmitCloseEffect
  <2> QED
    BY <2>3, <2>5
<1>10. ASSUME NEW a \in Ids, CheckKeepAlive(a)
       PROVE  \/ SilentFor(b, Timeout)
              \/ \E c \in 1..(b - 1) : Stray(c) /\ SilentFor(c, Timeout)
  <2> DEFINE x == [box[a] EXCEPT !.due = now + Interval]
  <2>1. /\ x.closedBy = box[a].closedBy /\ Pinged(x).closedBy = box[a].closedBy
        /\ [x EXCEPT !.ping = -1].closedBy = box[a].closedBy
    BY <1>1 DEF Boxes, Pinged
  <2>2. box[a].due # Never /\ BoxOK(box[a], now)
    BY <1>10, CheckCases DEF Good
  <2>3. \/ box' = [box EXCEPT ![a] = Pinged(x)]
        \/ box' = [box EXCEPT ![a] = x]
        \/ /\ ~box[a].closed /\ Unanswered(box[a]) /\ now - box[a].ping > Timeout
           /\ box' = [box EXCEPT ![a] = Closed(x, "keepalive")]
        \/ /\ kind = "mqtt" /\ ~box[a].closed /\ Unanswered(box[a])
           /\ now - box[a].ping > Timeout
           /\ EmitClose(a, [x EXCEPT !.ping = -1], "keepalive")
    BY <1>10, CheckCases
  <2> HIDE DEF x
  <2>4. CASE box' = [box EXCEPT ![a] = Pinged(x)] \/ box' = [box EXCEPT ![a] = x]
    BY <1>2, <2>1, <2>4
  <2>5. CASE /\ ~box[a].closed /\ Unanswered(box[a]) /\ now - box[a].ping > Timeout
             /\ box' = [box EXCEPT ![a] = Closed(x, "keepalive")]
    <3>1. b = a
      BY <1>2, <2>5
    <3> QED
      BY <2>5, <3>1, Alarm
  <2>6. CASE /\ kind = "mqtt" /\ ~box[a].closed /\ Unanswered(box[a])
             /\ now - box[a].ping > Timeout
             /\ EmitClose(a, [x EXCEPT !.ping = -1], "keepalive")
    <3>1. SilentFor(a, Timeout)
      BY <2>6, Alarm
    <3>2. CASE b # a
      <4>1. b = registered
        BY <1>2, <2>6, <3>2, EmitCloseEffect
      <4>2. ~(a > created)
        BY <2>2 DEF NewBox
      <4>3. a \in 1..(b - 1)
        BY <3>2, <4>1, <4>2 DEF Ids
      <4>4. box[a].sock \in {"ending", "ended"}
        <5>1. box[a].sock \notin {"none", "connecting"}
          BY <2>2 DEF BoxOK
        <5>2. box[a].sock \notin {"open", "aborted"}
          BY <2>6, <3>2, <4>1 DEF Good
        <5> QED
          BY <1>1, <5>1, <5>2 DEF Boxes
      <4> QED
        BY <2>6, <3>1, <4>3, <4>4 DEF Stray
    <3> QED
      BY <3>1, <3>2
  <2> QED
    BY <2>3, <2>4, <2>5, <2>6
<1> QED
  BY <1>3, <1>4, <1>5, <1>6, <1>7, <1>8, <1>9, <1>10 DEF Next

\* For any intervals, timeout and delay of timers, the keep-alive closes a mailbox only
\* if its server, or that of a stray mqtt mailbox before it, has been silent for longer
\* than the timeout.
THEOREM AlarmsCorrect == Spec => NoFalseAlarm
<1>1. IInv /\ [Next]_vars =>
        [\A b \in Ids : box[b].closedBy # "keepalive" /\ box'[b].closedBy = "keepalive" =>
           \/ SilentFor(b, Timeout)
           \/ \E a \in 1..(b - 1) : Stray(a) /\ SilentFor(a, Timeout)]_vars
  <2> SUFFICES ASSUME IInv, [Next]_vars, vars' # vars, NEW b \in Ids,
                      box[b].closedBy # "keepalive", box'[b].closedBy = "keepalive"
               PROVE  \/ SilentFor(b, Timeout)
                      \/ \E a \in 1..(b - 1) : Stray(a) /\ SilentFor(a, Timeout)
    OBVIOUS
  <2> QED
    BY KeepAliveCloses
<1> QED
  BY <1>1, Invariant, PTL DEF Spec, NoFalseAlarm

=============================================================================
