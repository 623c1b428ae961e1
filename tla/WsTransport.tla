------------------------------- MODULE WsTransport -------------------------------
(***************************************************************************)
(* The client's end of the connection                                      *)
(* (packages/client-core/src/wsTransport.ts): requests that wait for their *)
(* response, an outbound queue for the time the socket is not open, and a  *)
(* new socket some time after one closed.                                  *)
(*                                                                         *)
(* The operators are functions of the state, because one event of a socket *)
(* both settles requests and lets their callers send new ones; the actions *)
(* are put together in TuiClient.  A network connection is a record of     *)
(* both ends and the messages under way; when it breaks these are lost,    *)
(* and each end is told in its own time.                                   *)
(***************************************************************************)
EXTENDS Integers, Sequences, SequencesExt, FiniteSets

VARIABLES
    transport,     \* the fields of WsTransport
    connections    \* every socket the client made, oldest first

\* requests holds all requests ever made; the pending ones are those that wait.
InitTransport ==
    [ws |-> 0, outboundQueue |-> <<>>, requests |-> <<>>, reconnectTimer |-> FALSE,
     latestWelcome |-> FALSE]

Connection == [client |-> "connecting", server |-> "none", broken |-> FALSE,
               up |-> {}, down |-> <<>>, welcomed |-> FALSE]

InitWsTransport ==
    /\ transport = [InitTransport EXCEPT !.ws = 1]
    /\ connections = <<Connection>>

pending(t) == {id \in DOMAIN t.requests : t.requests[id].state = "waiting"}

IsOpen(t, conns) == t.ws # 0 /\ conns[t.ws].client = "open"

\* What is put on a broken connection never arrives.  The server executes requests
\* concurrently, so those on the way to it are a set.
SendUp(conns, c, ids) == [conns EXCEPT ![c].up = IF conns[c].broken THEN @ ELSE @ \cup ids]
SendDown(conns, c, m) ==
    [conns EXCEPT ![c].down = IF conns[c].broken THEN @ ELSE Append(@, m)]

-----------------------------------------------------------------------------
\* request: the new transport and connections.
request(t, conns, kind) ==
    LET id == Len(t.requests) + 1
        t1 == [t EXCEPT !.requests = Append(@, [kind |-> kind, state |-> "waiting"])]
    IN  IF IsOpen(t, conns)
          THEN <<t1, SendUp(conns, t.ws, {id})>>
          ELSE <<[t1 EXCEPT !.outboundQueue = Append(@, id)], conns>>

\* What became of a snapshot request is not remembered, that of a command is.
Settle(t, ids, state) ==
    [t EXCEPT !.requests = [id \in DOMAIN @ |->
        IF id \notin ids THEN @[id]
        ELSE [@[id] EXCEPT !.state = IF t.requests[id].kind = "snapshot" THEN "settled" ELSE state]]]

\* connect, when the reconnect timer fires
CanConnect(t) == t.reconnectTimer
connect(t, conns) ==
    <<[t EXCEPT !.reconnectTimer = FALSE, !.ws = Len(conns) + 1], Append(conns, Connection)>>

\* handleOpen with flushQueue
CanOpen(t, conns, c) ==
    t.ws = c /\ conns[c].client = "connecting" /\ ~conns[c].broken
handleOpen(t, conns, c) ==
    <<[t EXCEPT !.outboundQueue = <<>>],
      SendUp([conns EXCEPT ![c].client = "open", ![c].server = "open"], c, ToSet(t.outboundQueue))>>

\* Mutant: what is queued waits for the next connection.
CloseKeepsQueue(t) ==
    [Settle(Settle(t, pending(t), "closed"), ToSet(t.outboundQueue) \cap pending(t), "unsent")
        EXCEPT !.ws = 0, !.reconnectTimer = TRUE]

\* handleClose of the current socket: queued and pending requests are rejected.
\* The state unsent, of requests that were still queued, is told apart here only.
handleClose(t) ==
    LET unsent == ToSet(t.outboundQueue) \cap pending(t)
    IN  [Settle(Settle(t, pending(t), "closed"), unsent, "unsent")
            EXCEPT !.ws = 0, !.outboundQueue = <<>>, !.reconnectTimer = TRUE]

\* The timeout of a request: what is in the outbound queue stays there.
TimeOut(t, id) == Settle(t, {id}, "timedOut")

\* Mutant: every response is given to whoever asks.
AnyResponse(t, m) == TRUE

\* handleMessage of a response: one that nobody waits for is ignored.
IsAwaited(t, m) == m.id \in pending(t)
SettleResponse(t, m) == Settle(t, {m.id}, IF m.ok THEN "resolved" ELSE "rejected")
=============================================================================
