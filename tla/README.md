# Formal models of pofresh-rpc

pofresh-rpc is an RPC layer for Node.js: a client keeps one *mailbox* per remote
server, a *mail station* routes requests to the mailboxes, and on the server side
an *acceptor* takes packages off the sockets and hands them to the services.
This directory holds TLA+ models of the parts that carry state and concurrency,
TLC configurations that check them on small instances, and TLAPS proofs of their
main properties for every instance.

    tlc -config Mailbox.cfg MCMailbox.tla         # model-check one run
    tlapm MailboxProofs.tla                       # check the proofs of a module

All paths below are relative to the repository's root.

## 1. Inventory

Everything runs on one JavaScript thread. A handler (the body of a method, of a
timer, of a socket event) runs to completion; the interleavings are those of
handlers: socket events, timers, ticks, filter continuations and calls by the user.

| component | state | operations | interacts with |
|---|---|---|---|
| **Mailbox** `lib/rpc-client/mailboxes/base-mailbox.js`, `sio-`, `ws-`, `tcp-mailbox.js` | `curId`, `requests` (callback per number), `timeout` (timer per number), `queue`, `_interval`, `connected`, `closed`, socket | `connect`, `close`, `send`, flush tick, `onConnection`, `onMessage`, `onError`, `onClose`, callback timeout | its socket; the station through the callback of `connect()`, the `close` event and the callbacks of `send()` |
| **Mail station** `lib/rpc-client/mailstation.js` | `state`, `servers`, `onlines`, `serversMap`, `mailboxes`, `connecting`, `pendings`, filters | `start`, `stop`, `addServer`, `removeServer`, `replaceServers`, `dispatch`, `connect`, `flushPending` | mailboxes, filters, the failure process (`error` event), routers (read `serversMap`) |
| **Failure process** `lib/rpc-client/failureProcess.js` | retry count and remaining servers, kept on the tracer | `failfast`, `failback`, `failover`, `failsafe` | calls the callback, or `dispatch()`/`connect()` of the station again |
| **Client** `lib/rpc-client/client.js`, `lib/util/proxy.js` | `state`, proxies, router parameters | `start`, `stop`, `addServer`, `removeServer`, `rpcInvoke`, proxies, `rpcToSpecifiedServer` | station, failure process, routers |
| **Routers** `lib/rpc-client/router.js`, `lib/util/consistentHash.js` | `rrParam`, `wrrParam`, `laParam`, the ring | one pick per call | `serversMap`, `servers` |
| **Acceptor** `lib/rpc-server/acceptors/*` | `sockets`, `msgQueues`, `_interval`, `closed` | connection, message, response, flush tick, socket close, `close`, whitelist | sockets, dispatcher |
| **Gateway, dispatcher, server** `lib/rpc-server/*.js` | `started`, `stoped`, service table | `start`, `stop`, `route`, reload | acceptor, services |
| **mqtt mailbox/acceptor, ws keep-alive** `lib/rpc-client/mailboxes/mqtt-`, `ws-mailbox.js` | `lastPing`, `lastPong`, `keepaliveTimer`, connect timeout | connect, keep-alive tick, pong, connect timeout, close | its socket, the station through the `close` event |
| **Reload** `lib/rpc-client/client.js` (`generateProxy`), `lib/util/proxy.js`, `lib/rpc-server/server.js`, `gateway.js`, `dispatcher.js` | `proxies`, `watchers`, the services of the dispatcher | `addProxy`, `create`, the callbacks of `fs.watch`, a call through a proxy, `route` | the files of the services, pofresh-loader, `fs.watch` |
| **mqtt2 transport, codec** `mqtt2-mailbox.js`, `mqtt2-acceptor.js`, `lib/util/coder.js`, `lib/util/buffer/*` | offsets, counts, the services map | encode and decode a request and a response | nothing: it cannot be loaded (section 6) |
| **Tracer, utilities, constants** | trace ids | logging | all |

What makes each of them hard, and what makes it correct:

* *Mailbox*: responses may come late, twice, batched, after the timeout, after
  `close()`; the timer races the response; the flush timer races `send()` and
  `close()`; the socket may connect or fail after it was closed. Correct if every
  accepted request gets one verdict, its own, in the end; if packages are written
  once and in order; if no timer is left behind.
* *Station*: a mailbox connects while requests pend; servers are removed, added and
  replaced, and the station stopped, in the middle of it; events of an old mailbox
  arrive when its successor is registered; filters take time and redirect. Correct
  if no request is dropped or sent twice, queues stay bounded, the three views of
  the routing table agree, and no live mailbox is lost.
* *Failure process*: retries reach a station that has changed; `failover` shares the
  routing table's own array. Correct if retries are bounded and end in a callback.
* *Client*: the state changes one tick after `start()`; a broadcast collects the callbacks of
  requests that may be retried, time out, or be called back twice. Correct if the user
  is told once, truly, and no exception escapes.
* *Keep-alive*: two timers and two clocks that cross on the wire, in mailboxes that replace
  each other under one server id. Correct if a dead server is noticed in a bounded time
  and a live one is never given up.
* *Reload*: proxies and services are two copies of the same files, made at different times,
  told of changes by different events, and merged by different rules; calls are under way
  meanwhile. Correct if both follow the files, and if a call to what did not change is served.
* *Routers*: indices and counts outlive the lists they were made for. Correct if a
  pick is always a known server and the load is shared as the name says.
* *Acceptor*: a service answers zero or more times, possibly after the socket is
  gone or the acceptor closed. Correct if answers go to the asking socket, in
  order, and queues are freed.

`PROJECT.json` lists the hazards line by line, with the properties that cover them.

## 2. Modules

| module | what it is |
|---|---|
| `Transports` | what socket.io-client, ws and net may still do to a mailbox in each state of its socket. External code: read off the listeners the mailboxes install (`Listeners`) and the calls they make. `Transport` is a constant. |
| `RpcCall` | the abstract promise of one side of an RPC: a request waits, then has exactly one verdict, and has it in the end. |
| `Mailbox` | one mailbox with its socket and what it can observe of the peer. Implements `RpcCall`. |
| `MailStation` | the station, its routing table and all mailboxes it ever created, each seen through what it does to the station. |
| `Acceptor` | the server side of all connections: acceptor with its four bindings, gateway, dispatcher and the services behind them. |
| `Rpc` | one mailbox and the acceptor it is connected to: instances of `Mailbox` and `Acceptor`, with the network between them. Implements `Mailbox`, whose peer is now the real acceptor. |
| `Routers` | the routers that remember something between calls: rr, wrr, la. |
| `HashRing` | the ring of the consistent-hash router. |
| `Routing` | the two together, over the list that the station's operations change. |
| `Client` | the client and the failure process over a station reduced to what its errors depend on. |
| `KeepAlive` | the keep-alive of the ws and mqtt mailboxes of one server, in discrete time. |
| `Reload` | proxies and services that follow their files while these change, and the calls between them. |
| `MCMailbox`, `MCMailStation`, `MCAcceptor`, `MCRpc`, `MCRouting`, `MCClient`, `MCKeepAlive`, `MCReload` | instances for TLC: symmetry, the hash functions, the paths and files. |
| `MailboxProofs`, `MailStationProofs`, `AcceptorProofs`, `RpcProofs`, `ClientProofs`, `ClientCallProofs`, `KeepAliveProofs`, `RoutingProofs` | theorems and their proofs. |

### Mailbox

The variables are the fields of the class, plus the socket and the two directions of
the wire. `requests` and `timeout` are functions from numbers to the request whose
callback they hold. A request of `Reqs` stands for a call of `send()`: its message
and its callback. `verdicts[r]` records the calls of the callback with a response, a
timeout or a refusal; `notices[r]` counts the calls `onClose()` makes, which are
kept apart because they break the one-call rule (section 5).

Each action is a whole handler: `OnMessage` processes the whole batch of a message;
`Close` includes `onClose()` where `disconnect()` reports the end before it returns
(socket.io); `OnError` includes the `close()` the ws mailbox calls. `SendAccepted`
numbers, stores, arms and queues or writes. `PeerReceives` and `PeerReplies` are the
other end: it answers any packages it received, in any order and number, late or twice
(`MaxReplies` answers in all), in one message or in a message each. That real acceptors
do no more than this is what `Rpc` shows.

Abstracted: the content of messages (a package is its number and its request),
tracing, logging, JSON. Callbacks of users return and do not throw.

### MailStation

The variables are the station's fields. `boxes` holds every mailbox ever created, so
that events of forgotten mailboxes can still arrive: its server, the state of its
socket, `connected`, `closed`, whether the station listens to its `close` event, the
request whose callback `connect()` was given, and the requests it holds. `mailboxes`
maps a server to its registered mailbox. `connecting`, `pendings`, `servers`,
`onlines`, `serversMap` are as in the code.

`Dispatch` is `dispatch()` with one disjunct per early return. `MailboxConnected` is
the success branch of the callback of `connect()`, `flushPending()` and the
`dispatch()` calls it makes included: the four `Flush...` operators are the cases
these calls can meet (nothing pending, refused, sent, reconnecting). `MailboxFailed`
is the error branch, `MailboxEnded` the `close` listener. `CloseAll` is the loop of
`stop()`. The error event goes to `failfast`, which calls the callback if it has one.
`StopGracefully` and `GraceTimeout` are `stop()` without force; `StartTick` is the tick
in which `start()` takes effect, whatever happened since.

Abstracted: one server type; with `AsyncFilter` the chain of before filters is one
continuation that may pass an error or redirect to `FilterTargets`, called once; after
filters belong to `Complete`. The tcp mailbox needs a tracer to connect (it calls
`tracer.info` unconditionally); the model assumes it has one.

### Acceptor

`sockets`, `msgQueues`, `interval` are fields of the acceptor, `inited` and `stopped` the
flags that `listen()`/`start()` and `close()`/`stop()` test. `status` is the state of each
socket as far as the acceptor's listeners go; `calls` holds the callbacks in the hands of
services, with the socket each answers to; `answered` and `written` record what services
answered while the socket was open and what was written to it, `errors` the errors the
acceptor sent on behalf of a service that threw.

The constant `Transport` chooses the `Binding`, that is what `onConnection()` of
`sio-acceptor.js`, `ws-acceptor.js`, `tcp-acceptor.js` or `mqtt-acceptor.js` makes of a
connection: whether it emits the `connection` event by which the whitelist is asked, whether
its sockets have a `disconnect()`, and whether what a service throws is sent to the client.

`Message` is a message event: `processMsg()` or `processMsgs()` over the batch, the routing
of each package and the answers services give before they return. A batch ends early if a
service throws. An unknown service or method is answered by the dispatcher, once.
`Answer` is a service calling back later or again. `Flush` is a tick of the flush timer,
`Stop` is `close()` with what the transport's server does to its sockets: socket.io ends
them, ws and net (which mqtt uses) leave them open. `WhitelistAnswers` is the callback of
`ipFilter()`. `Rpc` has this module at its other end over the transports of `Mailbox`.

Abstracted: the content of packages and responses (a package stands for both), writes
that fail, the frame decoder of tcp; over tcp, where nothing catches what a service throws,
the process is taken to survive it.

### Rpc

The variables of both ends, and `inbox`: messages that reached the server and wait for its
event loop. `Transmit` carries what a step of the acceptor wrote (`Sent`) to the mailbox: a
flushed queue as one message, an unbuffered response in its own. Messages keep their
order, as these transports promise, and are lost when the connection no longer delivers;
each end may see the end of the connection at its own time. `MailboxSpec` substitutes
what arrived at the server for `received` and checks that every step is a step of
`Mailbox` or leaves its variables alone, so the theorems about `Mailbox` apply.

### Routers, HashRing, Routing

`Routers` keeps `list` (`serversMap[type]`) and the weights, changed by the station's
operations, and the parameters each router stores on the client. `RouteRR` includes the
calls that the callback of a call makes before it returns: they meet the old index.
`RouteWRR` runs the `while` loop of `wrrRoute()` as the iteration `Turns` of its body
`Turn`, up to the first round that `Fits`. `laParam` has no entry where the code has
`undefined` or `NaN`. `picks` is the history since the list last changed, `uses` the total
per server.

`HashRing` keeps `keys` and `ring` of the ring and the servers of other types. The hash
function is chosen by `Init` from `Hashes`, of which only the order of the values matters,
and `Fields` lie on, between and beyond the keys. `Sorted` is `keys.sort()`, stated by the rank of
each key; what is left after a removal is still in order, so that `Sorted` only closes the gaps.
`Position` is the binary search
of `getNodePosition()`. `strayed` records that the ring missed `replaceServers()` or took
in a server of another type.

`Routing` is `getRouteTarget()`: the client's `routerType` is chosen at the start, each
operation of the station changes the list and then the ring, and the first call of
`chRoute()` builds the ring from the list. That station is `MailStation` reduced to its
list and weights. `df` and `rd` remember nothing and are not modelled.

### Client

`calls` is what the user asked for and was told, `attempts` the calls of `dispatch()`; a retry
is an attempt of its own and carries the tracer on which the failure process counts
(`tracers`). One handler of the code may emit several errors and call back several times
before it returns. It is split into the tasks of its `agenda`: while the agenda is not empty
only `Continue` is possible, so that nothing comes between them, as in JavaScript. `thrown`
is the exception that ended the process: nothing in the library catches what a listener or a
callback throws out of a socket event or a timer.

`Start`, `StartTick` and `Stop` are the life cycle with the ticks in between; `listeners` counts
how often `station.on('error', ...)` ran. `RpcInvoke`, `RpcToAll` (with `async.each()` in
`EachNext` and `RunCallback`), `ProxyIgnored` and `RpcRejected` are the ways a call begins.
`RunDispatch` is `dispatch()`; `MailboxConnected`, `MailboxFailed`, `MailboxEnded`, `FilterDone`,
`FilterFailed`, `Answer` and `CbTimeout` are the handlers that lead to an error event or a
callback. `FailFast`, `FailOver` and `FailSafe` are the failure process, `RetryConnect` and
`RetryDispatch` the timers of failsafe. The order of the callbacks that the end of a
mailbox makes is left open.

Abstracted: the default transport, socket.io; one server type; the limit of the pending queue
(`MailStation` has it); the client's `state` and the station's, which change in one step, are one
variable; a custom `handleError` is not set; before filters always take time; the two delays
of failsafe and the grace time of `stop()` end at any moment. A failsafe retry that meets a
mailbox which is still connecting would open a second socket inside it and is left out.

### KeepAlive

All mailboxes of one server, one after another, of one `kind`. `now` is the time in units of the
timers, and `Lag` the longest a due timer may wait for the event loop; `Tick` cannot pass a
timer that is overdue by more. `box[b]` holds the fields of a mailbox (`connected`, `closed`,
`lastPing`, `lastPong`, the time of the next check and of the connect timeout), the
state of its socket, the pings on their way and unanswered, and for the properties
`silent`, since when the server has owed an answer, and `closedBy`. `CheckKeepAlive` is a tick
of the interval; `Pinged` the branches that send a ping; `Unanswered` the condition of the
alarm; `EmitClose` the station's `close` listener, which acts on the mailbox registered for the
server by then. The server may answer a ping late or never (`PeerAnswers`), and the socket may
fail or end at any time.

Abstracted: milliseconds (`WsInterval`, `WsTimeout`, `MqttInterval`, `ConnectTimeout` are any
numbers, and the mqtt timeout is twice its interval as in the code); requests; the station
around the one server.

### Reload

`disk` is what is in the files: a file is a path and the name of a service, its content the set
of its methods. `Write`, `Move` and `Remove` change it and send the events this makes, which
`ClientWatch` and `ServerWatch` receive later: the client's watchers act on every event
(`clientEvents`, by file), those of the server on a `change` only (`serverEvents`, by path).
What appears without a `change` after the server loaded a path is `unseen`.

`proxies` are the objects users find, by namespace, and `watchers[p]` says whether the object
the watcher of `p` updates is the one users find: `addProxy()` makes it so for the first
record of a namespace, and copies the proxies of later ones. `Created` is `Proxy.create()`,
which returns null for a module that is gone. `services` is the table of the dispatcher,
`Loaded` what `loadRemoteServices()` makes of the paths, `Reloaded` the listener to `reload`.
A call (`Call`) is in flight until the dispatcher looks for its method (`Route`); it is
`touched` if it was made while its service was not `Settled`, or its file changed since.

Abstracted: `opts.reload` is set on both sides, which read the same directories; records of one
server type; the files of a path are its modules, and reading one does not fail. A call is
delivered once: what the mailbox and the acceptor may do to it is in `Rpc`.

## 3. Runs

One run for each component, or two where the transport matters to what holds, and one for
each disagreement between the code and its documentation.

| run | module, cfg | shows |
|---|---|---|
| `mailbox` | `MCMailbox`, `Mailbox.cfg`: tcp, buffered, fair timers, 3 requests, 2 answers | `TimerPerRequest`, `OneVerdict`, `RepliesMatch`, `WireInOrder`, `ClosedTakesNothing`, `CallSpec` (refinement of `RpcCall`, liveness included) |
| `mailbox_twice` | `MailboxTwice.cfg` | *violation* of `AtMostOneCallback` |
| `station_sio` | `MCMailStation`, `StationSio.cfg`: socket.io, 2 servers, 3 requests, slow filters, double start | `TypeOK`, `RoutingTableConsistent`, `NoRequestVanishes`, `LiveMailboxRegistered`, `StopClosesAll`, `ReadyUnlessConnecting`, `SentAtMostOnce` |
| `station_ws` | `StationWs.cfg`: ws, 1 server, 3 requests, no filters, fair mailboxes | `PendingBounded`, `PendingOnlyWhileConnecting`, `InFlightCalled`, `UnreadyOnlyByLate`, `LostOnlyToLate` |
| `station_blackhole` | `StationBlackhole.cfg` | *violation* of `AddServerClearsBlackhole` |
| `acceptor` | `MCAcceptor`, `Acceptor.cfg`: socket.io, buffered, whitelist, fair flush timer, 2 sockets, 3 packages, 3 answers | `EveryAnswerOnce`, `QuietAfterStop`, `OrphansFreed`, `AnswersWritten` |
| `rpc` | `MCRpc`, `Rpc.cfg`: socket.io, both ends buffer, 2 requests, 2 answers | `HandledAtMostOnce`, `MailboxSpec` (refinement of `Mailbox`) |
| `routing` | `MCRouting`, `Routing.cfg`: 3 servers and one of another type, weights up to 2, 7 calls, 2 replicas | `EveryTurn`, `WeightedShare`, `LoopEnds`, `LookupCorrect`, `BalancedFromStart`, `MovesAreNeeded` |
| `client` | `MCClient`, `Client.cfg`: failfast, failover and failsafe, 2 servers, double start, 1 call, 4 attempts, 2 mailboxes | `RetriesBounded`, `BroadcastComplete`, `NoCallVanishes`, `OnlyKnownThrows` |
| `client_failover` | `ClientFailover.cfg`: failover | *violation* of `FailoverSurvives` |
| `keepalive` | `MCKeepAlive`, `KeepAlive.cfg`: ws and mqtt, 2 mailboxes, 11 units of time | `DetectedInTime`, `ClosedIsForgotten`, `NoFalseAlarm` |
| `reload` | `MCReload`, `Reload.cfg`: 3 paths, two with one namespace, 4 files, 3 changes, 1 call at a time | `ProxiesFollowFiles`, `ServicesFollowFiles`, `UntouchedCallsServed` |

Bounds. *Mailbox*: three requests let one be answered, one time out and one still be
queued; two answers include a duplicate, and a batch of two. *Station*: with
`PendingSize = 1` two requests fill the queue of a server and the third overflows it;
`MaxBoxes = 3` lets a mailbox be replaced twice, so that an old one's events meet its
successor and flushing may connect again; over ws there are four, because
`NoRequestVanishes` fails only with the fourth (`ReadyUnlessConnecting` does with three):
with fewer `LostOnlyToLate` would be about nothing. Two servers let a filter redirect
between them; `MaxStarts = 2` is the double start. *Acceptor*: two sockets let one close
while the other is served; three packages fill a batch of two and leave one for later; three answers
include a repeated one. *Routing*: seven calls are one more than a full round of three
servers of weight 2; eight keys on even numbers, fields on all numbers around them, and a
server that may be on the ring twice. The first replicas lie in any order and the second
ones next to them, shifted by one, or in reverse. *Client*: one call is a broadcast to two
servers or a single request; with `RetryTimes = 1` a retry is made and the next one refused;
four attempts are two requests and a retry of each. *KeepAlive*: two mailboxes let the
alarm or the late end of the first meet the second; `WsTimeout < WsInterval` and the mqtt
timeout of two intervals are the code's proportions (10 s against 30 s, 20 s against 10 s);
eleven units leave room for the longest silence `DetectedInTime` allows, 7 for ws and 6 for
mqtt, and for connecting before it. *Reload*: a second path in the
namespace of the first is merged by the client; the third path has two files, so that one
changes while the other is called. Three changes let a file go, come back and change again, or
a directory empty itself while an event is under way; one method suffices, as a
service with none is a content of its own. Requests, packages and servers are interchangeable,
and TLC is told so where no liveness is checked. Deadlock is not checked where a system
whose requests are all done stops.

Fairness: `Mailbox` assumes that armed callback timers fire (weak fairness of
`CbTimeout`): the event loop runs every `setTimeout` that is not cleared. Nothing is
assumed of the peer, the network or the user. `MailStation` assumes in turn that a
mailbox completes each request it holds, which is the liveness in `CallSpec` of `Mailbox`.
`Acceptor` assumes that the flush timer ticks while it is armed (weak fairness of `Flush`),
as `setInterval` does; nothing of services and sockets.

## 4. Proofs

Every theorem is for any set of requests and servers, any bounds, any buffering; the
only assumptions are the named ones on the constants (`TransportAssumption`,
`MailboxAssumption`, `MailStationAssumption`, `AcceptorAssumption` (which allows mqtt
too), `RpcAssumption`, `RouterAssumption`, `RingAssumption`, `ClientAssumption`,
`KeepAliveAssumption`).

`MailboxProofs`
* `TypeCorrect`: `Spec => []TypeOK`, for every instance, so that no run repeats it.
* `BookkeepingCorrect`: `OneVerdict` and `RepliesMatch` are not inductive. A response
  on its way must be known to carry a number that was given out and, if that number
  still waits, the message it waits for (`PackagesKnown`); a waiting callback must
  have no verdict yet (`WaitingHasNoVerdict`) and wait under one number only
  (`OneNumberEach`), and its timer must be the one armed with it (`TimerPerRequest`).
  `Bookkeeping` is the conjunction; `TimersCorrect`, `OneVerdictOnly` and
  `RepliesCorrect` follow.
* `ClosedTakesNothingAtAll`: the action property, from the guard of `send()` and the
  flush tick, over every transport.
* `MailboxImplementsCall`: `Spec => Call!Spec` under the mapping `Phase`; the liveness
  half of the refinement (`CallSpec`) is model-checked.
* `WireOrderCorrect`: `WireInOrder` is about what was written; inductive is that the
  queue goes on where the wire ends, in the order of the numbers, up to `curId`.
* `PackagesCorrect`: a request is at one place at a time (in the queue, on its way, at the
  peer, answered). `Rpc` needs it to know that what arrives has not arrived before.

`MailStationProofs`
* `TypeCorrect`, `PendingsBounded`: proved together (`TypesAndBound`), because
  flushing indexes into the queue by the room that is left in it.
* `RoutingTableCorrect`, `PendingsMarked`, `NothingConnects`: over every transport.
* `SioMailboxesTracked`: over socket.io, `SocketsTracked` (a closed mailbox's socket is
  dead, mailboxes are registered under their own server, live ones are registered),
  `StopClosesAll` and `ReadyUnlessConnecting` are inductive together. The event of a
  mailbox always meets that mailbox itself as the registered one, which is what the
  code's look-up by server id relies on and what ws and tcp break. `SioReady` and
  `SioLiveRegistered` are parts of it.
* `SioSentAtMostOnce`: `OnePlace`, that a request is in one position of one pending queue, or with
  the filters for one server, or was handed to a mailbox once, or none of these.
* `MarkClearedByPredecessor`: over every transport, the action property `UnreadyOnlyByLate`, which
  says what is left of `ReadyUnlessConnecting` where late events meet a successor: only the
  connection of an earlier mailbox exposes an unready one to `dispatch()`. It follows from the
  invariant `NewestRegistered`, that the registered mailbox is the newest of its server: a mailbox
  whose callback clears the mark and which is not the registered one is an earlier one.
* `LostOnlyToLateMailbox`: over every transport, the action property `LostOnlyToLate`, from
  `LostStep`: each handler keeps every request where it is, passes it on or calls it back, except
  `FlushReconnect`. `SioNoRequestVanishes` follows: over socket.io `LiveMailboxRegistered` excludes
  a mailbox that connects while it is not registered.

`AcceptorProofs`
* `TypeCorrect`: `Spec => []TypeOK`, for every instance, so that no run repeats it.
* `DeliveryCorrect`: `EveryAnswerOnce` relates what was answered to what is written and
  queued. It is inductive with the facts that open sockets are registered
  (otherwise `flush()` would throw a queue away; the other registered ones are those
  rejected before anything listened to them), that nothing exists for a socket before
  it connects, and that without buffering there are no queues. `AnswersCorrect` follows. These
  theorems hold for every binding, that of mqtt included, which no run is over.
* `SioQuietAfterStop`: with the assumption that the transport is socket.io; over the
  others the property fails (section 5). The invariant behind it: after `Stop` no socket is
  open.

`RpcProofs`
* `JointCorrect`: the invariant `Joint` of the composition. The theorems on `Acceptor` are cited
  for the acceptor's steps; what `Joint` adds is a count: answers queued and answers sent
  are together no more than the services gave, which is the bound `Mailbox` puts on its peer.
* `AcceptorIsPeer`: `Spec => MailboxSpec`. A step of the acceptor is a `PeerReplies` of `Mailbox`,
  a batch that arrives a `PeerReceives`, anything else a stutter. `MailboxTheorems`
  states what follows for the mailbox of the composition from the theorems above.
* `NoneHandledTwice`: `HandledAtMostOnce` is inductive with `InboxFresh`: what waits for the
  handler has not been handled and is not there twice. It holds because the wire is in
  order and a request is at one place, which `MailboxTheorems` provides.

`RoutingProofs`
* `LoopAlwaysEnds`: `Turns` is a recursive function; that it exists and satisfies its equation
  is proved (`Recursion`), and induction is over the set of the numbers for which a
  statement holds (`Induct`, from the well-foundedness of the numbers), as the library's
  induction theorem cannot be used. The index comes round within a pass of the list, the
  current weight falls with every pass and starts at the greatest weight again.
* `WeightsRespected`: a turn is an index and a current weight, and `Place` is its position in a
  pass over all weights. The invariant `Traces` gives every call in the history its turn and says
  that from one call to a later one the turns move away, by a place at least for each call,
  from every turn not taken in between. A server fits at as many turns as its weight
  (`FittingSize`), so that as many calls as the weights add up to (`SumIsSize`) take each
  turn that fits once.
* `EveryServerHasItsTurn`: the invariant `InTurn`: the last call went to the place before the index,
  and the places of successive calls move away from every place not called in between. A callback
  that calls again meets the old index and gets the same place, which is no step back.
* `LeastActiveBalanced`: `Counted`, that the count of a server which has been there since the first
  call is the number of its picks.
* `TypeCorrect`: with it, that a server is in the list once, which `EveryTurn` needs.
* `LookupAlwaysCorrect`: the invariant `RingAgrees` relates `keys`, `ring` and the list: the keys are
  the hashes that have a server, each belongs to its server, and a ring that has not `strayed` holds
  the hashes of the list and no others. TLC checked it on `Routing.cfg`'s instance first.
  The rest is about the search: that a function exists which satisfies its equation
  (`SearchExists`, by induction on the number of keys that are `Left`), that it ends among the first
  `Size` keys whatever it compares (`SearchInside`), and where, in keys that ascend (`SearchFinds`: the keys
  before `lower` are below the hash, those behind `upper` above it). A server on the ring twice makes
  `keys` longer than what is searched; the former still holds, the latter does not.
* `MovesOnlyAsNeeded`: before and after a step that the ring hears of, the place of a hash is its
  `IsTarget`; two rings that each hold the other's place have the same (`TargetKept`).
* `RingTypeCorrect`: the type invariant of `HashRing`. `SortedFacts` is what `sort()` is
  relied on for: the values in ascending order, none added and none lost.

`ClientProofs`
* `TypeCorrect`: `Types` adds to `TypeOK` what the numbers of attempts, tracers and mailboxes
  refer to, without which nothing can be said of a task's attempt.
* `RetriesCorrect`: `RetriesBounded` with `Counting`: a retry that is planned or made has a number
  that its tracer has passed.
* `BroadcastCorrect`: `Executed` follows a success from the server that executed the call through
  the tasks of the agenda to the count of the broadcast. It needs `Heard`: the station of a client
  that is running has a listener for errors.

`ClientCallProofs`
* `CallsCorrect`: `Owed` says of each target of a call that has not been reported which attempt
  will call back for it: one that is alive, or that a task on the agenda is about.
  `NoCallVanishes` speaks of states with an empty agenda, where only the former is left; the tasks
  between make it inductive. Errors that carry no callback and retries without one are shown
  not to be the last hope of a call.
* `ThrowsCorrect`: `Heard` covers the errors without a listener and the exceptions of failfast
  and failback. For `async.each()`, `OneCallbackEach` says what holds until a connection is lost
  or a second listener comes: each part of a call is in the hands of one attempt, which no
  two tasks are about, nor a task and a mailbox, and no part that still has such an attempt has
  been called back (`OneEach`, `Orderly`, `NotYet`). The places of an attempt make it inductive: what
  a task will call back for has left its mailbox, unless it is about to be dispatched again.
  TLC checked it on `Client.cfg`'s instance before it was proved.

`KeepAliveProofs`
* `Invariant`: each mailbox satisfies `Good`, which relates its timers and its ping and pong
  times to the clock and to `silent`. `BoxOK` holds of every mailbox: while it is connected its
  check is due within an interval and late by at most `Lag`, and an unanswered ping means that
  the server has owed an answer since the ping or longer. `WatchOK` holds of those that can
  detect silence: an unanswered ping was sent at most an interval and a lag after the
  silence began, and the check that acts on it comes within the timeout and an interval
  of the ping. Neither property is inductive without these times. A step changes one
  mailbox; a lemma for each handler shows it good again, and `Assemble` puts the mailboxes
  together with the registered one.
* `TypeCorrect`, `DetectionCorrect`, `ForgottenInTheEnd` and `AlarmsCorrect` follow, for any
  intervals, timeouts, lag, and number of mailboxes: how long a dead server goes unnoticed,
  and that an alarm means silence.

Only model-checked: the liveness properties (`CallSpec`'s liveness half, `InFlightCalled`,
`OrphansFreed`, `AnswersWritten`), which are out of the prover's reach, and the invariants of
`Reload`, which have not been proved.
`Bookkeeping`, `Delivery`, `SocketsTracked` and `NothingConnectsWhenStopped` are
proved and no longer run: they are strengthenings, or follow from what is run.

## 5. What the models show about the code

Shown by a run, with the line it contradicts in `PROJECT.json`:

* `mailbox_twice`: `onClose()` calls the waiting callbacks, keeps them and leaves their
  timers armed: each is called again when its timer fires.
* `station_blackhole`: `addServer()` does not clear what a failed connection left
  behind, although its comment says so; it takes a further `dispatch()` that connects.
* `client_failover`: under failover a failed connection throws out of an event handler, as
  the station emits that error without the message `failover()` reads.

Seen while modelling, and built into the models:

* Station. The handlers of a mailbox's events act on whichever mailbox is registered for the
  server. Over ws the late error of an old, closed mailbox deletes its successor from the
  map, and `stop()` does not close it: `StopClosesAll`, `ReadyUnlessConnecting` and
  `LiveMailboxRegistered` fail over ws and tcp, and with larger bounds so do `SentAtMostOnce` and
  `NoRequestVanishes`. They are therefore checked, and proved, over socket.io; what goes wrong over
  ws and tcp is narrowed down by `UnreadyOnlyByLate` and `LostOnlyToLate`: it takes a mailbox that
  connects when it is no longer the registered one.
* Acceptor. Over ws, tcp and mqtt `server.stop()` leaves connections open and served
  (`QuietAfterStop` fails there); with buffering the answers are queued for a flush timer that
  has been cleared. A whitelist that answers at once rejects a socket before its listeners
  are installed: it stays registered for good (status `deaf`) and its end goes unnoticed; no
  property is about that. Over ws and tcp sockets have no `disconnect()`, so that a rejection
  throws, and over mqtt the whitelist is never asked. The mqtt acceptor means to report errors
  for single packages only, but sets `isArray` after `processMsgs()` has returned
  (`mqtt-acceptor.js:31-32`): when a batch throws, an error without an id goes out.
* Routers. The least-active router starts the count of a server that came later under a
  wrong key; its count becomes `NaN`, is taken for 0, and the server is preferred to all that
  have been called: `BalancedFromStart` speaks of the others. The ring takes in servers of every
  type and does not hear of `replaceServers()`, which is why `RoutedIsKnown` and `MovesAreNeeded`
  speak of rings that have not `strayed`; a server that is added again has its keys on the ring
  twice while the search looks at as many keys as there are distinct ones, which is why
  `SearchCorrect` and `MovesAreNeeded` speak of rings without duplicates. `rrRoute()` moves its index
  after the callback: a caller that retries from within the callback gets the same server
  again. `EveryTurn` allows for that.
* Failure process. failover strikes a failed server off the station's routing table, for every
  later call, and hands the part of an unknown server in a broadcast to another one
  (`BroadcastComplete` leaves failover out). failsafe, after a failed connection, calls
  `connect()` on a mailbox that was just deleted, which throws, or on a connected successor,
  whose "already connected" error makes the station forget it while it is open. Where retries
  are exhausted after `FAIL_FIND_MAILBOX` or `FAIL_SEND_MESSAGE`, and for `FILTER_ERROR`, failover and
  failsafe call a callback that was not passed on. A caller may be told of a failure while a
  retry still executes the call.
* Client. Two `start()` calls in a tick register the failure process twice, and every error
  calls back twice. A broadcast that loses a connection calls `next()` of `async.each()` twice,
  which throws, under failfast too. A proxy called before `start()` never calls back.
  `client.js:430` requires `./mailboxes/TCP-mailbox`, a name that is not there on a case-sensitive
  file system. `tracer.js` calls `uuid.v5()` without its arguments.
* Keep-alive. The alarm of an mqtt mailbox does not stop its timer: a stray one goes on and
  closes its successors (`NoFalseAlarm` names the exception). Nobody listens to the `close` event
  of a mailbox that has not connected, so that the connect timeout of mqtt goes unheard and the
  mailbox stays registered. A pong in the millisecond of the next ping counts for that one
  too, which costs `DetectedInTime` an interval. A ws mailbox closed by its keep-alive stays
  registered until its socket reports the end, and refuses requests until then.
* Reload. The server acts on `change` events only: a file that is moved in, as many editors and
  deployments do, reaches the proxies but not the services (`unseen`). Of two paths with one
  namespace the server keeps the services of the path it loaded last, while the client merges the
  proxies of both and goes on updating only those of the first (`OwnNamespace`, `watchers`). The
  proxy of a file that was removed becomes null, so that calling it throws; if it was the
  last of its directory it stays, and calls are refused by the server. The properties speak of
  files that are there, and of watchers that update what users find.

## 6. Not modelled, and the plan

* Logging and tracing: I/O. What a service computes, and what pofresh-loader does beyond reading
  the modules of a directory.
* Registering filters (`before()`, `after()`, `filter()`) while requests are in the middle of them,
  and a filter that calls `next()` twice: `MailStation` has the chain as one continuation.
* `df` and `rd` routing: a hash or a random number modulo the length, without state. `Client`
  lets `DefRoute` answer any server.
* User callbacks and responses that throw (`base-mailbox.js:164`, `base-acceptor.js:184`): payloads
  and user code are not modelled; the two hazards are listed without a property.
* The frame decoder of the tcp transport: the package stream-pkg does the work.
* mqtt2 and the binary codec. `mqtt2-mailbox.js:6` requires `base-mailbox`, which is neither a
  package nor a file beside it, and cannot be loaded. `lib/util/buffer/` is loaded by nothing:
  `coder.js:4-6` takes the buffers of bearcat-buffer, and `outputBuffer.js:15` throws when loaded.
  Were they loaded, the two sides would not understand each other: `sendMessage()`
  (`mqtt2-mailbox.js:30-35`) turns the encoded Buffer into JSON text, which the acceptor decodes as
  binary, and the callbacks of `mqtt2-acceptor.js` (19-57, 73-104) are plain functions whose `this`
  is the server or undefined. There is no behaviour to state a property of.
* `Acceptor` over mqtt has theorems and no run; `Mailbox` and `Rpc` are over socket.io, ws and tcp.
* `Client` over ws, tcp and mqtt: the errors that differ there are those of `MailStation`.
* Samples and tests.
