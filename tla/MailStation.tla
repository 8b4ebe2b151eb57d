----------------------------- MODULE MailStation -----------------------------
(***************************************************************************)
(* The mail station of lib/rpc-client/mailstation.js: it knows the remote  *)
(* servers, creates a mailbox for a server when the first request for it   *)
(* is dispatched, keeps requests pending while the mailbox connects, and   *)
(* hands them to the mailbox.  Mailboxes are seen through what they do to  *)
(* the station: they connect, fail, end, and complete the requests sent    *)
(* through them (module RpcCall).  Errors go to the failfast (or failback) *)
(* process of failureProcess.js, which calls the callback if it is given   *)
(* one.                                                                    *)
(*                                                                         *)
(* A request r of Reqs stands for one call of dispatch().  Servers have a  *)
(* single server type.                                                     *)
(***************************************************************************)
EXTENDS Integers, Sequences, FiniteSets, Functions, Transports

CONSTANTS Servers, Reqs,
          PendingSize,    \* opts.pendingSize
          AsyncFilter,    \* there is a before filter that calls next() later
          FilterTargets,  \* servers the filter may redirect a request to
          MaxBoxes,       \* bound: number of mailboxes created
          MaxStarts       \* bound: number of calls of start() before the first tick

ASSUME MailStationAssumption ==
  /\ PendingSize \in Nat \ {0}
  /\ AsyncFilter \in BOOLEAN
  /\ FilterTargets \subseteq Servers
  /\ MaxBoxes \in Nat
  /\ MaxStarts \in Nat

VARIABLES
  state,       \* "inited", "started" or "closed"
  ticks,       \* calls of start() whose nextTick is still to come
  starts,      \* number of calls of start(), for the bound
  grace,       \* number of closeAll() timers armed by stop()
  servers,     \* ids in this.servers
  onlines,     \* ids with this.onlines[id] = 1
  serversMap,  \* the ids of the server type, in the order of the array
  boxes,       \* the mailboxes ever created
  mailboxes,   \* the registered mailbox of each server, or NoBox
  connecting,  \* ids in this.connecting
  pendings,    \* the pending requests of each server
  filtering,   \* requests in the hands of the before filters, with their server
  dispatched,  \* requests handed to dispatch()
  called,      \* requests whose callback has been called
  sent,        \* number of times each request was handed to a mailbox
  thrown       \* requests for which addToPending() threw

vars == <<state, ticks, starts, grace, servers, onlines, serversMap, boxes, mailboxes,
          connecting, pendings, filtering, dispatched, called, sent, thrown>>
lifeVars == <<state, ticks, starts, grace>>
infoVars == <<servers, onlines, serversMap>>
waitVars == <<connecting, pendings, filtering>>

NoBox == 0

\* What the station can tell about a mailbox: the state of its socket (see
\* Transports), the two flags, whether its 'close' event is listened to, the
\* request whose callback connect() was given, and the requests it holds.
Boxes == [server : Servers, sock : SocketStates, connected : BOOLEAN, closed : BOOLEAN,
          listening : BOOLEAN, first : Reqs, inflight : SUBSET Reqs]

NewBox(s, r) == [server |-> s, sock |-> "connecting", connected |-> FALSE, closed |-> FALSE,
                 listening |-> FALSE, first |-> r, inflight |-> {}]

Init ==
  /\ state = "inited" /\ ticks = 0 /\ starts = 0 /\ grace = 0
  /\ servers = {} /\ onlines = {} /\ serversMap = <<>>
  /\ boxes = <<>>
  /\ mailboxes = [s \in Servers |-> NoBox]
  /\ connecting = {}
  /\ pendings = [s \in Servers |-> <<>>]
  /\ filtering = {}
  /\ dispatched = {} /\ called = {} /\ thrown = {}
  /\ sent = [r \in Reqs |-> 0]

-----------------------------------------------------------------------------
(* Closing mailboxes. *)

\* close() of a mailbox, and one that would drop its timers and callbacks.
BugShutForgets(b) == IF b.closed THEN b
                     ELSE [b EXCEPT !.closed = TRUE, !.connected = FALSE, !.inflight = {},
                                    !.sock = AfterSocketClose(b.sock)]
Shut(b) == IF b.closed THEN b
           ELSE [b EXCEPT !.closed = TRUE, !.connected = FALSE,
                          !.sock = AfterSocketClose(b.sock)]

\* The mailboxes of set S that report their end before close() returns.
EndWithin(S) == {b \in S : EndsAtOnce /\ ~boxes[b].closed /\ boxes[b].sock = "open"}

\* close() for each mailbox of S: those that end at once tell their requests and
\* the listener of their 'close' event unregisters them.
CloseBoxes(S) ==
  /\ boxes' = [b \in DOMAIN boxes |-> IF b \in S THEN Shut(boxes[b]) ELSE boxes[b]]
  /\ called' = called \cup UNION {boxes[b].inflight : b \in EndWithin(S)}

Registered == Range(mailboxes) \ {NoBox}

\* delete this.mailboxes[id]; delete station.pendings[serverId].
BugForgetNoPending(s) == pendings
ForgetPending(s) == [pendings EXCEPT ![s] = <<>>]

Unregister(s) == [mailboxes EXCEPT ![s] = NoBox]

-----------------------------------------------------------------------------
(* start() and stop(). *)

Start ==
  /\ state = "inited"
  /\ starts < MaxStarts
  /\ ticks' = ticks + 1
  /\ starts' = starts + 1
  /\ UNCHANGED <<state, grace, infoVars, boxes, mailboxes, waitVars, dispatched, called,
                 sent, thrown>>

\* The tick of start() does not look at the state again.
StartTick ==
  /\ ticks > 0
  /\ ticks' = ticks - 1
  /\ state' = "started"
  /\ UNCHANGED <<starts, grace, infoVars, boxes, mailboxes, waitVars, dispatched, called,
                 sent, thrown>>

\* closeAll() that passes over the mailboxes still connecting.
BugCloseConnected ==
  /\ CloseBoxes({b \in Registered : boxes[b].connected})
  /\ mailboxes' = [s \in Servers |->
       IF mailboxes[s] \in EndWithin(Registered) THEN NoBox ELSE mailboxes[s]]

\* closeAll(): the mailboxes whose end is reported later stay registered.
CloseAll ==
  /\ CloseBoxes(Registered)
  /\ mailboxes' = [s \in Servers |->
       IF mailboxes[s] \in EndWithin(Registered) THEN NoBox ELSE mailboxes[s]]

StopForced ==
  /\ state = "started"
  /\ state' = "closed"
  /\ CloseAll
  /\ UNCHANGED <<ticks, starts, grace, infoVars, waitVars, dispatched, sent, thrown>>

StopGracefully ==
  /\ state = "started"
  /\ state' = "closed"
  /\ grace' = grace + 1
  /\ UNCHANGED <<ticks, starts, infoVars, boxes, mailboxes, waitVars, dispatched, called,
                 sent, thrown>>

GraceTimeout ==
  /\ grace > 0
  /\ grace' = grace - 1
  /\ CloseAll
  /\ UNCHANGED <<state, ticks, starts, infoVars, waitVars, dispatched, sent, thrown>>

-----------------------------------------------------------------------------
(* The table of servers. *)

\* list.splice(list.indexOf(s), 1), if s is in the list, which names no server
\* twice (RoutingTableConsistent).
Splice(list, s) ==
  IF s \in Range(list)
  THEN LET index == CHOOSE i \in DOMAIN list : list[i] = s
       IN SubSeq(list, 1, index - 1) \o SubSeq(list, index + 1, Len(list))
  ELSE list

\* addServer() that does not look for the id in the array.
BugAddServerAgain(s) ==
  /\ Len(serversMap) <= Cardinality(Servers)
  /\ servers' = servers \cup {s}
  /\ onlines' = onlines \cup {s}
  /\ serversMap' = Append(serversMap, s)
  /\ UNCHANGED <<lifeVars, boxes, mailboxes, waitVars, dispatched, called, sent, thrown>>

AddServer(s) ==
  /\ servers' = servers \cup {s}
  /\ onlines' = onlines \cup {s}
  /\ serversMap' = IF s \in Range(serversMap) THEN serversMap ELSE Append(serversMap, s)
  /\ UNCHANGED <<lifeVars, boxes, mailboxes, waitVars, dispatched, called, sent, thrown>>

\* removeServer() that forgets to close the mailbox.
BugRemoveServerOpen(s) ==
  /\ servers' = servers \ {s}
  /\ onlines' = onlines \ {s}
  /\ serversMap' = Splice(serversMap, s)
  /\ mailboxes' = Unregister(s)
  /\ UNCHANGED <<lifeVars, boxes, waitVars, dispatched, called, sent, thrown>>

\* removeServer(): neither the connecting mark nor the pending requests of the
\* server are touched.
RemoveServer(s) ==
  /\ servers' = servers \ {s}
  /\ onlines' = onlines \ {s}
  /\ serversMap' = Splice(serversMap, s)
  /\ CloseBoxes({mailboxes[s]} \ {NoBox})
  /\ mailboxes' = Unregister(s)
  /\ UNCHANGED <<lifeVars, waitVars, dispatched, sent, thrown>>

\* replaceServers(): the mailboxes of servers that are gone stay registered.
ReplaceServers(list) ==
  /\ servers' = Range(list)
  /\ onlines' = Range(list)
  /\ serversMap' = list
  /\ UNCHANGED <<lifeVars, boxes, mailboxes, waitVars, dispatched, called, sent, thrown>>

-----------------------------------------------------------------------------
(* dispatch(). *)

CanConnect(s) == s \in servers /\ s \in onlines

\* The station is not running, or the server is unknown: failfast calls back.
DispatchRefused(r, s) ==
  /\ \/ state # "started"
     \/ mailboxes[s] = NoBox /\ ~CanConnect(s)
  /\ called' = called \cup {r}
  /\ UNCHANGED <<lifeVars, infoVars, boxes, mailboxes, waitVars, sent, thrown>>

\* addToPending().  Past the limit it calls an array instead of the callback.
BugAddOneMore(r, s) ==
  IF Len(pendings[s]) > PendingSize + 1
  THEN thrown' = thrown \cup {r} /\ UNCHANGED pendings
  ELSE pendings' = [pendings EXCEPT ![s] = Append(@, r)] /\ UNCHANGED thrown

AddToPending(r, s) ==
  IF Len(pendings[s]) > PendingSize
  THEN thrown' = thrown \cup {r} /\ UNCHANGED pendings
  ELSE pendings' = [pendings EXCEPT ![s] = Append(@, r)] /\ UNCHANGED thrown

\* lazyConnect(): create, mark and register the mailbox of a server.
BugLazyConnectUnmarked(r, s) ==
  /\ Len(boxes) < MaxBoxes
  /\ boxes' = Append(boxes, NewBox(s, r))
  /\ mailboxes' = [mailboxes EXCEPT ![s] = Len(boxes) + 1]
  /\ UNCHANGED connecting

\* One that registers the mailbox although the factory made none.
BugLazyConnectEmpty(r, s) ==
  /\ Len(boxes) < MaxBoxes
  /\ mailboxes' = [mailboxes EXCEPT ![s] = Len(boxes) + 1]
  /\ connecting' = connecting \cup {s}
  /\ UNCHANGED boxes

LazyConnect(r, s) ==
  /\ Len(boxes) < MaxBoxes
  /\ boxes' = Append(boxes, NewBox(s, r))
  /\ mailboxes' = [mailboxes EXCEPT ![s] = Len(boxes) + 1]
  /\ connecting' = connecting \cup {s}

DispatchFirst(r, s) ==
  /\ state = "started"
  /\ mailboxes[s] = NoBox /\ CanConnect(s)
  /\ LazyConnect(r, s)
  /\ AddToPending(r, s)
  /\ UNCHANGED <<lifeVars, infoVars, filtering, called, sent>>

DispatchPending(r, s) ==
  /\ state = "started"
  /\ mailboxes[s] # NoBox /\ s \in connecting
  /\ AddToPending(r, s)
  /\ UNCHANGED <<lifeVars, infoVars, boxes, mailboxes, connecting, filtering, called, sent>>

Usable(b) == b.connected /\ ~b.closed

\* Mailbox b with the requests rs kept as well, and with request r completed.
Holding(b, rs) == [b EXCEPT !.inflight = @ \cup rs]
Without(b, r) == [b EXCEPT !.inflight = @ \ {r}]

\* send() of mailbox b, in the state bxs of the mailboxes, for the requests of
\* queue: kept by the mailbox, or called back with an error.
SendAll(queue, b, bxs) ==
  /\ sent' = [r \in Reqs |-> sent[r] + Cardinality({i \in DOMAIN queue : queue[i] = r})]
  /\ IF Usable(bxs[b])
     THEN /\ boxes' = [bxs EXCEPT ![b] = Holding(@, Range(queue))]
          /\ UNCHANGED called
     ELSE /\ boxes' = bxs
          /\ called' = called \cup Range(queue)

\* No filters: the request goes straight to the mailbox.
DispatchSend(r, s) ==
  /\ state = "started"
  /\ mailboxes[s] # NoBox /\ s \notin connecting
  /\ ~AsyncFilter
  /\ SendAll(<<r>>, mailboxes[s], boxes)
  /\ UNCHANGED <<lifeVars, infoVars, mailboxes, waitVars, thrown>>

DispatchFilter(r, s) ==
  /\ state = "started"
  /\ mailboxes[s] # NoBox /\ s \notin connecting
  /\ AsyncFilter
  /\ filtering' = filtering \cup {<<r, s>>}
  /\ UNCHANGED <<lifeVars, infoVars, boxes, mailboxes, connecting, pendings, called, sent,
                 thrown>>

Dispatch(r, s) ==
  /\ r \notin dispatched
  /\ dispatched' = dispatched \cup {r}
  /\ \/ DispatchRefused(r, s)
     \/ DispatchFirst(r, s)
     \/ DispatchPending(r, s)
     \/ DispatchSend(r, s)
     \/ DispatchFilter(r, s)

\* send() that trusts the check dispatch() made before the filters.
BugFilterDoneSilent(r, s, target) ==
  /\ <<r, s>> \in filtering
  /\ filtering' = filtering \ {<<r, s>>}
  /\ IF mailboxes[target] = NoBox
     THEN UNCHANGED <<called, boxes, sent>>
     ELSE SendAll(<<r>>, mailboxes[target], boxes)
  /\ UNCHANGED <<lifeVars, infoVars, mailboxes, connecting, pendings, dispatched, thrown>>

\* The before filters are done: send() looks the mailbox up again, now for the
\* server the filter asked for.
FilterDone(r, s, target) ==
  /\ <<r, s>> \in filtering
  /\ filtering' = filtering \ {<<r, s>>}
  /\ IF mailboxes[target] = NoBox
     THEN called' = called \cup {r} /\ UNCHANGED <<boxes, sent>>
     ELSE SendAll(<<r>>, mailboxes[target], boxes)
  /\ UNCHANGED <<lifeVars, infoVars, mailboxes, connecting, pendings, dispatched, thrown>>

\* The filter passed an error.
FilterError(r, s) ==
  /\ <<r, s>> \in filtering
  /\ filtering' = filtering \ {<<r, s>>}
  /\ called' = called \cup {r}
  /\ UNCHANGED <<lifeVars, infoVars, boxes, mailboxes, connecting, pendings, dispatched,
                 sent, thrown>>

-----------------------------------------------------------------------------
(* Events of the mailboxes. *)

\* A mailbox after its socket connected, failed, or ended.
Opened(b) == [b EXCEPT !.connected = TRUE, !.listening = TRUE,
                       !.sock = IF b.closed THEN "closing" ELSE "open"]
Failed(b) == IF ErrorCloses
             THEN [b EXCEPT !.sock = AfterSocketError, !.closed = TRUE, !.connected = FALSE]
             ELSE [b EXCEPT !.sock = AfterSocketError]
Ended(b) == [b EXCEPT !.sock = "dead"]

(* flushPending(), in the state bxs of the mailboxes and with s no longer      *)
(* connecting: dispatch() for each pending request, then forget the array.     *)
FlushNothing(s, bxs) ==
  /\ pendings[s] = <<>>
  /\ boxes' = bxs
  /\ connecting' = connecting \ {s}
  /\ UNCHANGED <<mailboxes, pendings, filtering, called, sent, thrown>>

\* The station was stopped, or the server removed, in the meantime.
FlushRefused(s, bxs) ==
  /\ pendings[s] # <<>>
  /\ \/ state # "started"
     \/ mailboxes[s] = NoBox /\ ~CanConnect(s)
  /\ boxes' = bxs
  /\ connecting' = connecting \ {s}
  /\ pendings' = ForgetPending(s)
  /\ called' = called \cup Range(pendings[s])
  /\ UNCHANGED <<mailboxes, filtering, sent, thrown>>

FlushSend(s, bxs) ==
  /\ pendings[s] # <<>>
  /\ state = "started" /\ mailboxes[s] # NoBox
  /\ connecting' = connecting \ {s}
  /\ pendings' = ForgetPending(s)
  /\ IF AsyncFilter
     THEN /\ boxes' = bxs
          /\ filtering' = filtering \cup (Range(pendings[s]) \X {s})
          /\ UNCHANGED <<called, sent>>
     ELSE /\ SendAll(pendings[s], mailboxes[s], bxs)
          /\ UNCHANGED filtering
  /\ UNCHANGED <<mailboxes, thrown>>

\* The mailbox is no longer registered: the first of these calls connects again,
\* and they all append to the array that is about to be forgotten, or throw when
\* it is full.
FlushReconnect(s, bxs) ==
  LET queue == pendings[s]
      room == PendingSize + 1 - Len(queue)
  IN /\ queue # <<>>
     /\ state = "started" /\ mailboxes[s] = NoBox /\ CanConnect(s)
     /\ Len(bxs) < MaxBoxes
     /\ boxes' = Append(bxs, NewBox(s, Head(queue)))
     /\ mailboxes' = [mailboxes EXCEPT ![s] = Len(bxs) + 1]
     /\ connecting' = connecting \cup {s}
     /\ IF Len(queue) <= room
        THEN pendings' = ForgetPending(s) /\ UNCHANGED thrown
        ELSE /\ pendings' = [pendings EXCEPT ![s] = queue \o SubSeq(queue, 1, room)]
             /\ thrown' = thrown \cup {queue[room + 1]}
     /\ UNCHANGED <<filtering, called, sent>>

FlushPending(s, bxs) ==
  FlushNothing(s, bxs) \/ FlushRefused(s, bxs) \/ FlushSend(s, bxs) \/ FlushReconnect(s, bxs)

\* The mailbox connected: the callback of connect() listens to its 'close'
\* event and flushes the pending requests of the server.
MailboxConnected(b) ==
  /\ boxes[b].sock = "connecting"
  /\ FlushPending(boxes[b].server, [boxes EXCEPT ![b] = Opened(@)])
  /\ UNCHANGED <<lifeVars, infoVars, dispatched>>

\* The mailbox reports an error: the callback of connect() forgets whichever
\* mailbox is registered for the server, and failfast calls back the request
\* that made it connect.  The connecting mark and the pending requests stay.
MailboxFailed(b) ==
  /\ MayFail(boxes[b].sock)
  /\ boxes' = [boxes EXCEPT ![b] = Failed(@)]
  /\ mailboxes' = Unregister(boxes[b].server)
  /\ called' = called \cup {boxes[b].first}
  /\ UNCHANGED <<lifeVars, infoVars, waitVars, dispatched, sent, thrown>>

\* The mailbox reports its end: it tells its requests, and the listener of its
\* 'close' event closes and forgets whichever mailbox is registered.
MailboxEnded(b) ==
  LET s == boxes[b].server
      other == IF boxes[b].listening THEN {mailboxes[s]} \ {NoBox} ELSE {}
      ended == [boxes EXCEPT ![b] = Ended(@)]
  IN /\ MayEnd(boxes[b].sock)
     /\ boxes' = [c \in DOMAIN boxes |-> IF c \in other THEN Shut(ended[c]) ELSE ended[c]]
     /\ called' = called \cup boxes[b].inflight
                         \cup UNION {boxes[c].inflight : c \in EndWithin(other \ {b})}
     /\ mailboxes' = IF boxes[b].listening THEN Unregister(s) ELSE mailboxes
     /\ UNCHANGED <<lifeVars, infoVars, waitVars, dispatched, sent, thrown>>

\* A response arrives, or the timer of the request fires: see Mailbox.
Complete(b, r) ==
  /\ r \in boxes[b].inflight
  /\ boxes' = [boxes EXCEPT ![b] = Without(@, r)]
  /\ called' = called \cup {r}
  /\ UNCHANGED <<lifeVars, infoVars, mailboxes, waitVars, dispatched, sent, thrown>>

-----------------------------------------------------------------------------
\* The lists replaceServers() may be given: no server twice.
Lists == UNION {{q \in [1..n -> Servers] : IsInjective(q)} : n \in 0..Cardinality(Servers)}

Next ==
  \/ Start \/ StartTick \/ StopForced \/ StopGracefully \/ GraceTimeout
  \/ \E s \in Servers : AddServer(s) \/ RemoveServer(s)
  \/ \E list \in Lists : ReplaceServers(list)
  \/ \E r \in Reqs, s \in Servers : Dispatch(r, s)
  \/ \E f \in filtering : \E target \in {f[2]} \cup FilterTargets : FilterDone(f[1], f[2], target)
  \/ \E f \in filtering : FilterError(f[1], f[2])
  \/ \E b \in DOMAIN boxes : MailboxConnected(b) \/ MailboxFailed(b) \/ MailboxEnded(b)
  \/ \E b \in DOMAIN boxes, r \in Reqs : Complete(b, r)

Spec == Init /\ [][Next]_vars

\* The mailboxes call back every request they hold: see Mailbox.
Fairness == \A b \in 1..MaxBoxes, r \in Reqs : WF_vars(b \in DOMAIN boxes /\ Complete(b, r))
FairSpec == Spec /\ Fairness

-----------------------------------------------------------------------------
(* Properties. *)

\* The variables have the types their comments give.
TypeOK ==
  /\ state \in {"inited", "started", "closed"}
  /\ ticks \in Nat /\ starts \in Nat /\ grace \in Nat
  /\ servers \subseteq Servers /\ onlines \subseteq Servers /\ serversMap \in Seq(Servers)
  /\ boxes \in Seq(Boxes)
  /\ mailboxes \in [Servers -> 0..Len(boxes)]
  /\ connecting \subseteq Servers
  /\ pendings \in [Servers -> Seq(Reqs)]
  /\ filtering \subseteq Reqs \X Servers
  /\ dispatched \subseteq Reqs /\ called \subseteq Reqs /\ thrown \subseteq Reqs
  /\ sent \in [Reqs -> Nat]

\* The routers pick servers from serversMap, dispatch() looks them up in servers
\* and onlines: after any mix of addServer(), removeServer() and
\* replaceServers() the three agree and the array names no server twice.
RoutingTableConsistent ==
  /\ servers = onlines
  /\ Range(serversMap) = servers
  /\ IsInjective(serversMap)

\* addToPending() bounds the pending requests of a server (by one more than
\* pendingSize), also when flushPending() appends to the array it reads.
PendingBounded == \A s \in Servers : Len(pendings[s]) <= PendingSize + 1

\* Requests are pending only for servers marked as connecting: otherwise later
\* requests would overtake them and nothing would ever flush them.
PendingOnlyWhileConnecting ==
  \A s \in Servers : pendings[s] # <<>> => s \in connecting

\* A request is handed to a mailbox at most once, so it is never executed twice
\* by the remote server: flushPending() and dispatch() do not overlap.
SentAtMostOnce == \A r \in Reqs : sent[r] <= 1

\* dispatch() hands requests only to mailboxes that finished connecting: a
\* registered mailbox whose server is not marked as connecting is ready, or was
\* closed by stop().
ReadyUnlessConnecting ==
  \A s \in Servers \ connecting : mailboxes[s] # NoBox =>
    LET b == boxes[mailboxes[s]] IN b.listening /\ (b.connected \/ b.closed)

\* No mailbox with a live socket is lost from sight: removeServer(), stop() and
\* the events of the mailboxes close a mailbox before they forget it, so that
\* what is open can still be closed.
LiveMailboxRegistered ==
  \A b \in DOMAIN boxes : boxes[b].sock \in {"connecting", "open"} =>
    mailboxes[boxes[b].server] = b

\* LiveMailboxRegistered is inductive, for socket.io, together with: a socket is
\* never half closed, and a mailbox is registered under its own server.
SocketsTracked ==
  /\ \A b \in DOMAIN boxes : /\ boxes[b].sock \in {"connecting", "open", "dead"}
                             /\ boxes[b].closed => boxes[b].sock = "dead"
  /\ \A s \in Servers : mailboxes[s] # NoBox => boxes[mailboxes[s]].server = s
  /\ LiveMailboxRegistered

\* "Stop station and all its mailboxes": once stop() and its timer are through,
\* no mailbox of the station has a live socket.
StopClosesAll ==
  state = "closed" /\ grace = 0 =>
    \A b \in DOMAIN boxes : boxes[b].sock \notin {"connecting", "open"}

\* dispatch() may hand requests to the mailbox of server s, which is not ready.
Unready(s) ==
  /\ s \notin connecting /\ mailboxes[s] # NoBox
  /\ LET b == boxes[mailboxes[s]] IN ~(b.listening /\ (b.connected \/ b.closed))

\* Mailbox b connects, although a later one is registered for its server s; and
\* although none is.
Connects(b) ==
  boxes[b].sock = "connecting" /\ boxes'[b].sock # "connecting" /\ boxes'[b].listening
ConnectsOver(b, s) == Connects(b) /\ boxes[b].server = s /\ b < mailboxes[s]
ConnectsLate(b) == Connects(b) /\ mailboxes[boxes[b].server] = NoBox

\* Over every transport: that comes about only when an earlier mailbox of the
\* server connects, whose callback clears the connecting mark of its successor.
\* No other event, removal or return of a server does it.
UnreadyOnlyByLate ==
  [][\A s \in Servers : Unready(s)' /\ ~Unready(s) =>
       \E b \in DOMAIN boxes : ConnectsOver(b, s)]_vars

\* Where a request can be: in the hands of the filters, pending, in a mailbox.
Filtering(r) == \E s \in Servers : <<r, s>> \in filtering
Pending(r) == \E s \in Servers : r \in Range(pendings[s])
InFlight(r) == \E b \in DOMAIN boxes : r \in boxes[b].inflight

\* A request that was dispatched and not called back, and is in none of these
\* places, nor did its dispatch() throw.
Lost(r) ==
  r \in dispatched \ called /\ ~Filtering(r) /\ ~Pending(r) /\ ~InFlight(r) /\ r \notin thrown

\* Every request that was dispatched and not called back is still somewhere.
NoRequestVanishes == \A r \in Reqs : ~Lost(r)

\* Over every transport: requests are lost only when a mailbox connects that is
\* not registered any more, and then only those pending for its server, which
\* flushPending() appends to the array that it forgets.
LostOnlyToLate ==
  [][\A r \in Reqs : Lost(r)' /\ ~Lost(r) =>
       \E b \in DOMAIN boxes : ConnectsLate(b) /\ r \in Range(pendings[boxes[b].server])]_vars

\* A station that is not running connects to nobody: late connections, filters
\* and pending requests do not make a stopped station create a mailbox.
NothingConnectsWhenStopped == [][state # "started" => Len(boxes') = Len(boxes)]_vars

\* A request that a mailbox holds is called back in the end, whatever is removed
\* or stopped meanwhile.
InFlightCalled == \A r \in Reqs : InFlight(r) ~> r \in called

\* "clear the blackhole associated with the server id if any before": once
\* addServer() is through, the server is not left marked as connecting while
\* nothing connects to it.  addServer() breaks this: it leaves alone the mark and
\* the pending requests that a failed attempt left behind.
Blackhole(s) ==
  /\ s \in connecting
  /\ \A b \in DOMAIN boxes : boxes[b].server = s => boxes[b].sock # "connecting"
AddServerClearsBlackhole == [][\A s \in Servers : AddServer(s) => ~Blackhole(s)']_vars

=============================================================================
