----------------------------- MODULE KeepAlive -----------------------------
(***************************************************************************)
(* The keep-alive of ws-mailbox.js and mqtt-mailbox.js: a timer that pings *)
(* the server, and gives the connection up when the answer stays out.      *)
(* The mailboxes are those a station creates, one after another, for one   *)
(* server; what the station does about their events (mailstation.js) is    *)
(* part of the handlers.                                                   *)
(*                                                                         *)
(* Time is discrete.  A timer fires when it is due or, since the JavaScript *)
(* thread may be busy, up to Lag later.                                    *)
(***************************************************************************)
EXTENDS Integers

CONSTANTS WsInterval,      \* KEEP_ALIVE_INTERVAL of the ws mailbox
          WsTimeout,       \* KEEP_ALIVE_TIMEOUT of the ws mailbox
          MqttInterval,    \* opts.keepalive of the mqtt mailbox
          ConnectTimeout,  \* CONNECT_TIMEOUT of the mqtt mailbox
          Lag,             \* the longest delay of a timer
          Kinds,           \* the kinds of mailbox to choose from
          MaxBoxes,        \* bound: number of mailboxes created
          MaxTime          \* bound: the time at which the clock stops

ASSUME KeepAliveAssumption ==
  /\ {WsInterval, MqttInterval, ConnectTimeout} \subseteq Nat \ {0}
  /\ {WsTimeout, Lag, MaxBoxes, MaxTime} \subseteq Nat
  /\ Kinds \subseteq {"ws", "mqtt"}

VARIABLES
  kind,        \* the kind of the mailboxes
  now,         \* Date.now()
  created,     \* number of mailboxes created
  registered,  \* the mailbox the station has for the server, or 0
  box          \* the mailboxes

vars == <<kind, now, created, registered, box>>

Never == -1

\* sock: "aborted" is a connection attempt that close() gave up, "ending" a socket
\* whose 'close' event is still to come.  heard: the station listens to 'close'
\* events.  due and connectDue: when the timers fire next, or Never.  asked and
\* answers: pings on the way to the server, and their answers on the way back,
\* while the socket is open.  silent: since when the server owes an answer, or
\* Never; closedBy: what closed the mailbox; both are histories.
Boxes == [sock : {"none", "connecting", "open", "aborted", "ending", "ended"},
          connected : BOOLEAN, closed : BOOLEAN, heard : BOOLEAN,
          due : Int, connectDue : Int, ping : Int, pong : Int,
          asked : Nat, answers : Nat, silent : Int,
          closedBy : {"nobody", "user", "socket", "keepalive"}]
Ids == 1..MaxBoxes

NewBox == [sock |-> "none", connected |-> FALSE, closed |-> FALSE, heard |-> FALSE,
           due |-> Never, connectDue |-> Never, ping |-> -1, pong |-> -1,
           asked |-> 0, answers |-> 0, silent |-> Never, closedBy |-> "nobody"]

Init ==
  /\ kind \in Kinds
  /\ now = 1 /\ created = 0 /\ registered = 0
  /\ box = [b \in Ids |-> NewBox]

Interval == IF kind = "ws" THEN WsInterval ELSE MqttInterval
Timeout == IF kind = "ws" THEN WsTimeout ELSE 2 * MqttInterval

-----------------------------------------------------------------------------
(* The clock. *)

InTime(due) == due # Never => now < due + Lag

Tick ==
  /\ now < MaxTime
  /\ \A b \in Ids : InTime(box[b].due) /\ InTime(box[b].connectDue)
  /\ now' = now + 1
  /\ UNCHANGED <<kind, created, registered, box>>

-----------------------------------------------------------------------------
(* Closing. *)

\* The socket is not open any more.
Lost(x, sock) == [x EXCEPT !.sock = sock, !.asked = 0, !.answers = 0]

\* What becomes of a socket that close() gives up.
GivenUp(sock) == CASE sock = "connecting" -> IF kind = "ws" THEN "aborted" ELSE "ending"
                   [] sock = "open" -> "ending"
                   [] OTHER -> sock

\* close(): the ws mailbox stops its timer and forgets the times, the mqtt mailbox
\* does neither.
Closed(x, by) ==
  IF x.closed THEN x
  ELSE [Lost(x, GivenUp(x.sock)) EXCEPT
                 !.closed = TRUE, !.connected = FALSE, !.closedBy = by,
                 !.due = IF kind = "ws" THEN Never ELSE @,
                 !.ping = IF kind = "ws" THEN -1 ELSE @,
                 !.pong = IF kind = "ws" THEN -1 ELSE @]

\* EmitClose() with a station that closes its mailbox without forgetting it.
BugEmitClose(b, x, by) ==
  /\ box' = IF x.heard /\ registered # 0
            THEN [box EXCEPT ![b] = IF registered = b THEN Closed(x, by) ELSE x,
                             ![registered] = Closed(IF registered = b THEN x ELSE @, by)]
            ELSE [box EXCEPT ![b] = x]
  /\ UNCHANGED registered

\* Mailbox b, which has become x, emits 'close': the station, if it listens, closes
\* and forgets the mailbox it has for the server, whichever that is.
EmitClose(b, x, by) ==
  IF x.heard /\ registered # 0
  THEN /\ box' = [box EXCEPT ![b] = IF registered = b THEN Closed(x, by) ELSE x,
                             ![registered] = Closed(IF registered = b THEN x ELSE @, by)]
       /\ registered' = 0
  ELSE /\ box' = [box EXCEPT ![b] = x]
       /\ UNCHANGED registered

\* The station closes its mailbox: removeServer(), stop().
Close ==
  /\ registered # 0
  /\ box' = [box EXCEPT ![registered] = Closed(@, "user")]
  /\ registered' = 0
  /\ UNCHANGED <<kind, now, created>>

-----------------------------------------------------------------------------
(* The socket. *)

\* connect() of a new mailbox.
Connect ==
  LET b == created + 1
  IN /\ registered = 0 /\ created < MaxBoxes
     /\ created' = b /\ registered' = b
     /\ box' = [box EXCEPT ![b].sock = "connecting",
                           ![b].connectDue = IF kind = "mqtt" THEN now + ConnectTimeout
                                             ELSE Never]
     /\ UNCHANGED <<kind, now>>

\* onConnection(): the station starts listening, and the timer to ping.
OnConnection(b) ==
  /\ box[b].sock = "connecting"
  /\ box' = [box EXCEPT ![b].sock = "open", ![b].connected = TRUE, ![b].heard = TRUE,
                        ![b].connectDue = Never, ![b].due = now + Interval]
  /\ UNCHANGED <<kind, now, created, registered>>

\* onError(): the station forgets the mailbox it has for the server.  The ws mailbox
\* closes itself, the mqtt mailbox goes on.
OnError(b) ==
  LET x == Lost(box[b], "ending")
  IN /\ box[b].sock \in {"connecting", "open", "aborted"}
     /\ box' = [box EXCEPT ![b] = IF kind = "ws" THEN Closed(x, "socket") ELSE x]
     /\ registered' = 0
     /\ UNCHANGED <<kind, now, created>>

\* onClose().
OnClose(b) ==
  /\ box[b].sock \in {"open", "ending"}
  /\ EmitClose(b, Lost(box[b], "ended"), "socket")
  /\ UNCHANGED <<kind, now, created>>

\* The timer connect() set: it has no effect, as the station does not listen yet.
OnConnectTimeout(b) ==
  /\ box[b].connectDue # Never /\ now >= box[b].connectDue
  /\ EmitClose(b, [box[b] EXCEPT !.connectDue = Never], "keepalive")
  /\ UNCHANGED <<kind, now, created>>

-----------------------------------------------------------------------------
(* Pings. *)

\* A ping is sent, and noted.  And one that is noted only if it is the first.
BugPinged(x) == [x EXCEPT !.ping = IF @ > 0 THEN @ ELSE now,
                          !.asked = IF x.sock = "open" THEN @ + 1 ELSE @,
                          !.silent = IF @ = Never THEN now ELSE @]
Pinged(x) == [x EXCEPT !.ping = now,
                       !.asked = IF x.sock = "open" THEN @ + 1 ELSE @,
                       !.silent = IF @ = Never THEN now ELSE @]

\* The last ping has no answer yet.  And a test for one that takes an answer in the
\* millisecond of the ping for none.
BugUnanswered(x) == x.ping > 0 /\ x.pong <= x.ping
Unanswered(x) == x.ping > 0 /\ x.pong < x.ping

\* checkKeepAlive(), every Interval.  The ws mailbox closes itself, without a word to
\* the station; the mqtt mailbox leaves that to the station.
CheckKeepAlive(b) ==
  LET x == [box[b] EXCEPT !.due = now + Interval]
  IN /\ box[b].due # Never /\ now >= box[b].due
     /\ \/ /\ ~x.closed /\ ~Unanswered(x)
           /\ box' = [box EXCEPT ![b] = Pinged(x)]
           /\ UNCHANGED registered
        \/ /\ x.closed \/ (Unanswered(x) /\ now - x.ping <= Timeout)
           /\ box' = [box EXCEPT ![b] = x]
           /\ UNCHANGED registered
        \/ /\ kind = "ws" /\ ~x.closed /\ Unanswered(x) /\ now - x.ping > Timeout
           /\ box' = [box EXCEPT ![b] = Closed(x, "keepalive")]
           /\ UNCHANGED registered
        \/ /\ kind = "mqtt" /\ ~x.closed /\ Unanswered(x) /\ now - x.ping > Timeout
           /\ EmitClose(b, [x EXCEPT !.ping = -1], "keepalive")
     /\ UNCHANGED <<kind, now, created>>

\* The server answers a ping: at once, late, or never.
PeerAnswers(b) ==
  /\ box[b].sock = "open" /\ box[b].asked > 0
  /\ box' = [box EXCEPT ![b].asked = @ - 1, ![b].answers = @ + 1]
  /\ UNCHANGED <<kind, now, created, registered>>

\* The answer arrives.  After close() a ws socket may still read answers, but nothing
\* reads the time that they leave.
OnPong(b) ==
  /\ box[b].sock = "open" /\ box[b].answers > 0
  /\ box' = [box EXCEPT ![b].answers = @ - 1, ![b].pong = now, ![b].silent = Never]
  /\ UNCHANGED <<kind, now, created, registered>>

-----------------------------------------------------------------------------
Next ==
  \/ Tick
  \/ Connect \/ Close
  \/ \E b \in Ids : \/ OnConnection(b) \/ OnError(b) \/ OnClose(b) \/ OnConnectTimeout(b)
                    \/ CheckKeepAlive(b) \/ PeerAnswers(b) \/ OnPong(b)

Spec == Init /\ [][Next]_vars

-----------------------------------------------------------------------------
(* Properties. *)

\* The variables have the types their comments give, and the station's mailbox is one
\* that was created.
TypeOK ==
  /\ kind \in Kinds /\ now \in Nat
  /\ created \in 0..MaxBoxes /\ registered \in 0..created
  /\ box \in [Ids -> Boxes]

SilentFor(b, t) == box[b].silent # Never /\ now - box[b].silent > t

\* A mqtt mailbox whose socket failed, which the station forgot without closing it.
Stray(b) == kind = "mqtt" /\ ~box[b].closed /\ box[b].sock \in {"ending", "ended"}

\* The keep-alive closes no connection whose server answers: the server has owed an
\* answer for more than the timeout, whatever pings, answers and timers have crossed.
\* Or there is a stray mailbox of the same server: its alarm closes the successor.
NoFalseAlarm ==
  [][\A b \in Ids : box[b].closedBy # "keepalive" /\ box'[b].closedBy = "keepalive" =>
       \/ SilentFor(b, Timeout)
       \/ \E a \in 1..(b - 1) : Stray(a) /\ SilentFor(a, Timeout)]_vars

\* A connection whose server stopped answering is given up in the end: two intervals
\* after the timeout at the latest, as an answer in the millisecond of the next ping
\* passes for the answer to that one.  A mqtt mailbox the station has forgotten is not.
DetectedInTime ==
  \A b \in Ids : box[b].connected /\ (kind = "mqtt" => registered = b)
                 => ~SilentFor(b, Timeout + 2 * Interval + 2 * Lag)

\* The station holds on to a closed mailbox, and so refuses requests for the server, at
\* most until the 'close' event of its socket, which it listens to.
ClosedIsForgotten ==
  registered # 0 /\ box[registered].closed =>
    box[registered].sock = "ending" /\ box[registered].heard

=============================================================================
