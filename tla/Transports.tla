----------------------------- MODULE Transports -----------------------------
(***************************************************************************)
(* What the socket libraries below the mailboxes (socket.io-client, ws and *)
(* net) may still do to a mailbox in each state of its socket.  The        *)
(* libraries are not part of the repository: most operators are read off   *)
(* the listeners that lib/rpc-client/mailboxes/*-mailbox.js install and    *)
(* the calls they make.                                                    *)
(***************************************************************************)
CONSTANT Transport

ASSUME TransportAssumption == Transport \in {"sio", "ws", "tcp"}

(***************************************************************************)
(* "none"       connect() has not been called                              *)
(* "connecting" neither connected nor failed yet                           *)
(* "open"       data flows in both directions                              *)
(* "aborting"   closed while connecting; the library will report an error  *)
(* "closing"    the end of the connection is still to be reported          *)
(* "dead"       no event will be delivered any more                        *)
(***************************************************************************)
SocketStates == {"none", "connecting", "open", "aborting", "closing", "dead"}

\* The events of its library that each mailbox listens to after connect().
SioListeners == {"message", "connect", "error", "disconnect", "connect_error"}
WsListeners == {"message", "open", "error", "close", "pong"}
TcpListeners == {"data", "connect", "error", "end"}
Listeners == CASE Transport = "sio" -> SioListeners
               [] Transport = "ws" -> WsListeners
               [] OTHER -> TcpListeners

\* disconnect() of socket.io-client reports the end before it returns.
EndsAtOnce == Transport = "sio"

\* ws is the one mailbox whose onError() closes the mailbox.
ErrorCloses == Transport = "ws"

\* The socket after the mailbox closed it.  end() on a net socket that is
\* still connecting takes effect only once it is connected.
AfterSocketClose(sock) ==
  IF sock = "connecting"
  THEN IF Transport = "ws" THEN "aborting"
       ELSE IF Transport = "tcp" THEN "connecting" ELSE "dead"
  ELSE IF sock = "open"
       THEN IF EndsAtOnce THEN "dead" ELSE "closing"
       ELSE sock

\* The socket states in which the library may report an error.
MayFail(sock) ==
  \/ sock \in {"connecting", "aborting"}
  \/ Transport = "ws" /\ sock = "open"
  \/ Transport = "tcp" /\ sock \in {"open", "closing"}

\* ws and net report "close" after an error, but not "end", and socket.io-client
\* nothing: the mailbox of tcp does not hear of it.
AfterSocketError == IF "close" \in Listeners THEN "closing" ELSE "dead"

\* The end of a connection is reported when the peer closes it or as the
\* answer to the mailbox's own close.
MayEnd(sock) == sock \in {"open", "closing"}

\* A socket that is closing locally still delivers what the peer sent.
Delivers(sock) == sock \in {"open", "closing"}

=============================================================================
