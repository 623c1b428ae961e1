-------------------------------- MODULE TuiClient --------------------------------
(***************************************************************************)
(* The terminal user interface and the server it is connected to: what the *)
(* interface shows is the last snapshot it got                             *)
(* (apps/tui/src/ui.tsx with snapshotRefresh.ts); it asks for another on   *)
(* every welcome, on every domain event and a second after a failure.  One *)
(* refresh runs at a time, further reasons are remembered as one.          *)
(*                                                                         *)
(* The server is reduced to the log of its commands: each entry is the     *)
(* request that dispatched it, or 0 for those of others.  A snapshot is    *)
(* the length of the log it was read from.  Connections break, requests    *)
(* time out, snapshots fail and the server crashes, up to MaxFaults times. *)
(***************************************************************************)
EXTENDS PushBus

CONSTANTS MaxCommands,   \* bounds of the runs
          MaxFaults

VARIABLES
    ui,         \* the effect in ui.tsx and the state of its refresh runner
    log, streamed,   \* the domain events, and how many the subscription has seen
    handling,   \* requests executed but not answered: [connection, id, result]
    faults

vars == <<transport, connections, pushVars, ui, log, streamed, handling, faults>>
server == <<pushVars, log, streamed, handling>>

\* The transport is constructed and refresh("initial") called.
Init ==
    /\ LET first == request([InitTransport EXCEPT !.ws = 1], <<Connection>>, "snapshot")
       IN  transport = first[1] /\ connections = first[2]
    /\ InitPushBus
    /\ ui = [running |-> TRUE, pendingReason |-> FALSE, refreshTimer |-> FALSE,
             subscribed |-> FALSE, snapshot |-> 0]
    /\ log = <<>>
    /\ streamed = 0
    /\ handling = {}
    /\ faults = 0

-----------------------------------------------------------------------------
(* The refresh runner, as functions of the interface's state *)

\* The client ends a step with interface u, which sends a snapshot request if
\* asks holds.
Ends(t, conns, u, asks) ==
    LET after == IF asks THEN request(t, conns, "snapshot") ELSE <<t, conns>>
    IN  transport' = after[1] /\ connections' = after[2] /\ ui' = u

\* Mutant: a reason that comes while a refresh runs is dropped.
RefreshUnlessRunning(t, conns, u) ==
    IF u.running THEN Ends(t, conns, u, FALSE)
                 ELSE Ends(t, conns, [u EXCEPT !.running = TRUE], TRUE)

\* refresh: run, or remember that there is a reason to.
Refresh(t, conns, u) ==
    IF u.running THEN Ends(t, conns, [u EXCEPT !.pendingReason = TRUE], FALSE)
                 ELSE Ends(t, conns, [u EXCEPT !.running = TRUE], TRUE)

\* After runRefresh: again if there was a reason meanwhile.  The first time the
\* runner ends, the interface subscribes; the latest welcome is replayed to it.
RunnerGoesOn(t, conns, u) ==
    CASE u.pendingReason -> Ends(t, conns, [u EXCEPT !.pendingReason = FALSE], TRUE)
      [] ~u.pendingReason /\ ~u.subscribed ->
            Ends(t, conns, [u EXCEPT !.subscribed = TRUE, !.running = t.latestWelcome],
                 t.latestWelcome)
      [] OTHER -> Ends(t, conns, [u EXCEPT !.running = FALSE], FALSE)

WaitsForSnapshot(t) == \E id \in pending(t) : t.requests[id].kind = "snapshot"

\* The snapshot request failed: a retry is scheduled.
RefreshFails(t, conns, u) == RunnerGoesOn(t, conns, [u EXCEPT !.refreshTimer = TRUE])

\* The requests that waited in transport were settled as in t, none successfully.
Rejected(t, conns) ==
    IF WaitsForSnapshot(transport) /\ ~WaitsForSnapshot(t)
      THEN RefreshFails(t, conns, ui)
      ELSE Ends(t, conns, ui, FALSE)

-----------------------------------------------------------------------------
(* The client *)

Connect ==
    /\ CanConnect(transport)
    /\ LET after == connect(transport, connections)
       IN  transport' = after[1] /\ connections' = after[2]
    /\ UNCHANGED <<ui, server, faults>>

\* The client learns that its socket is closed.
ClientClose(c) ==
    /\ transport.ws = c
    /\ connections[c].broken
    /\ Rejected(handleClose(transport), [connections EXCEPT ![c].client = "closed"])
    /\ UNCHANGED <<server, faults>>

Receive(c) ==
    LET m == Head(connections[c].down)
        conns == [connections EXCEPT ![c].down = Tail(@)]
        t == SettleResponse(transport, m)
        u == IF m.ok THEN [ui EXCEPT !.snapshot = m.result]
                     ELSE [ui EXCEPT !.refreshTimer = TRUE]
    IN  /\ transport.ws = c
        /\ connections[c].client = "open"
        /\ connections[c].down # <<>>
        /\ CASE m.type = "serverWelcome" ->
                  LET welcomed == [transport EXCEPT !.latestWelcome = TRUE]
                  IN  IF ui.subscribed THEN Refresh(welcomed, conns, ui)
                                       ELSE Ends(welcomed, conns, ui, FALSE)
             [] m.type = "domainEvent" ->
                  IF ui.subscribed THEN Refresh(transport, conns, ui)
                                   ELSE Ends(transport, conns, ui, FALSE)
             [] m.type = "response" ->
                  CASE ~IsAwaited(transport, m) -> Ends(transport, conns, ui, FALSE)
                    [] IsAwaited(transport, m) /\ t.requests[m.id].kind = "snapshot" ->
                         RunnerGoesOn(t, conns, u)
                    [] OTHER -> Ends(t, conns, ui, FALSE)
        /\ UNCHANGED <<server, faults>>

\* scheduleRefreshRetry, a second later
Retry ==
    /\ ui.refreshTimer
    /\ Refresh(transport, connections, [ui EXCEPT !.refreshTimer = FALSE])
    /\ UNCHANGED <<server, faults>>

\* The user's command
Dispatch ==
    /\ Cardinality({id \in DOMAIN transport.requests :
                       transport.requests[id].kind = "dispatch"}) < 1
    /\ Len(log) < MaxCommands
    /\ LET after == request(transport, connections, "dispatch")
       IN  transport' = after[1] /\ connections' = after[2]
    /\ UNCHANGED <<ui, server, faults>>

-----------------------------------------------------------------------------
(* The server *)

\* Both ends of a socket are open; what the client had queued goes out.
Open(c) ==
    /\ CanOpen(transport, connections, c)
    /\ LET after == handleOpen(transport, connections, c)
       IN  transport' = after[1] /\ connections' = after[2]
    /\ UNCHANGED <<ui, server, faults>>

\* The server learns that the socket is closed.  What the network tells it waits
\* for the fibers that are ready to run, among them the one that joins c.
ServerClose(c) ==
    /\ connections[c].server = "open"
    /\ connections[c].broken
    /\ c \notin joining
    /\ connections' = [connections EXCEPT ![c].server = "closed"]
    /\ clients' = clients \ {c}
    /\ UNCHANGED <<transport, queue, joining, ready, ui, log, streamed, handling, faults>>

\* handleMessage and routeRequest: every request runs in a fiber of its own; a
\* command is committed, or a snapshot read.
RouteRequest(c, id) ==
    /\ c \notin joining
    /\ id \in connections[c].up
    /\ connections[c].server # "none"
    /\ connections' = [connections EXCEPT ![c].up = @ \ {id}]
    /\ log' = IF transport.requests[id].kind = "dispatch" THEN Append(log, id) ELSE log
    /\ handling' = IF connections[c].broken THEN handling
                   ELSE handling \cup {[connection |-> c, id |-> id, result |-> Len(log')]}
    /\ UNCHANGED <<transport, pushVars, ui, streamed, faults>>

SendResponse(h, ok) ==
    /\ handling' = handling \ {h}
    /\ connections' = IF connections[h.connection].server = "open"
                        THEN SendDown(connections, h.connection,
                                      [type |-> "response", id |-> h.id, ok |-> ok,
                                       result |-> h.result])
                        ELSE connections
    /\ UNCHANGED <<transport, pushVars, ui, log, streamed>>

Respond(h) ==
    /\ h \in handling
    /\ SendResponse(h, TRUE)
    /\ UNCHANGED faults

\* A command of another client or of a reactor
OtherCommand ==
    /\ Len(log) < MaxCommands
    /\ log' = Append(log, 0)
    /\ UNCHANGED <<transport, connections, pushVars, ui, streamed, handling, faults>>

\* Stream.runForEach of the domain events
StreamEvent ==
    /\ streamed < Len(log)
    /\ streamed' = streamed + 1
    /\ publishAll("domainEvent", streamed')
    /\ UNCHANGED <<transport, connections, clients, joining, ready, ui, log, handling,
                   faults>>

PushStep ==
    /\ \/ send
       \/ MarkReady
       \/ \E c \in DOMAIN connections : welcome(c) \/ join(c)
    /\ UNCHANGED <<ui, log, streamed, handling, faults>>

-----------------------------------------------------------------------------
(* Faults *)

Fault == faults < MaxFaults /\ faults' = faults + 1

Broken(conn, received) == [conn EXCEPT !.broken = TRUE, !.up = received, !.down = <<>>]

\* A connection breaks.  The commands that the server has received by then, all
\* those under way or none, are executed still.
Break(c) ==
    /\ Fault
    /\ ~connections[c].broken
    /\ \E received \in {{}, connections[c].up} :
          connections' = [connections EXCEPT ![c] = Broken(@,
              {id \in received : transport.requests[id].kind = "dispatch"})]
    /\ handling' = {h \in handling : h.connection # c}
    /\ UNCHANGED <<transport, pushVars, log, streamed, ui>>

RequestTimesOut(id) ==
    /\ Fault
    /\ id \in pending(transport)
    /\ Rejected(TimeOut(transport, id), connections)
    /\ UNCHANGED server

SnapshotFails(h) ==
    /\ Fault
    /\ h \in handling
    /\ transport.requests[h.id].kind = "snapshot"
    /\ SendResponse(h, FALSE)

CrashServer ==
    /\ Fault
    /\ streamed' = Len(log)
    /\ connections' = [c \in DOMAIN connections |->
                          IF connections[c].server = "none" THEN connections[c]
                          ELSE [Broken(connections[c], {}) EXCEPT !.server = "closed"]]
    /\ queue' = <<>>
    /\ clients' = {}
    /\ joining' = {}
    /\ ready' = FALSE
    /\ handling' = {}
    /\ UNCHANGED <<transport, ui, log>>

-----------------------------------------------------------------------------
ClientStep ==
    \/ Connect
    \/ \E c \in DOMAIN connections : ClientClose(c) \/ Receive(c)
    \/ Retry

ServerStep ==
    \/ \E c \in DOMAIN connections : Open(c) \/ ServerClose(c)
    \/ \E c \in DOMAIN connections : \E id \in connections[c].up : RouteRequest(c, id)
    \/ \E h \in handling : Respond(h)
    \/ StreamEvent \/ PushStep

FaultStep ==
    \/ \E c \in DOMAIN connections : Break(c)
    \/ \E id \in DOMAIN transport.requests : RequestTimesOut(id)
    \/ \E h \in handling : SnapshotFails(h)
    \/ CrashServer

Next == ClientStep \/ ServerStep \/ FaultStep \/ Dispatch \/ OtherCommand

\* Timers fire, sockets deliver what was sent or close, fibers run, and the
\* supervisor restarts the server; users and faults are free.
Spec == Init /\ [][Next]_vars /\ WF_vars(ClientStep) /\ WF_vars(ServerStep)

-----------------------------------------------------------------------------
(* Properties *)

\* Once the faults and commands are over, the interface shows the newest state and
\* keeps showing it, whatever pushes were lost while it was disconnected, came
\* before it listened or before it was in the broadcast set.
EventuallySynced == <>[](ui.snapshot = Len(log))

\* No domain event reaches a client on a connection before the welcome
\* (wsServer.ts: "Send welcome before adding to broadcast set ...").
WelcomeComesFirst ==
    \A c \in DOMAIN connections :
        \A i \in DOMAIN connections[c].down :
            connections[c].down[i].type = "domainEvent" =>
                /\ connections[c].welcomed
                /\ \A j \in DOMAIN connections[c].down :
                      connections[c].down[j].type = "serverWelcome" => j < i

\* A command runs once at most, whatever reconnections its request lived through;
\* one that the caller knows to have succeeded has run, and one that was rejected
\* before it left the outbound queue never runs.
CommandsRunOnce ==
    \A id \in DOMAIN transport.requests :
        LET runs == Cardinality({i \in DOMAIN log : log[i] = id})
        IN  transport.requests[id].kind = "dispatch" =>
              /\ runs <= 1
              /\ transport.requests[id].state = "resolved" => runs = 1
              /\ transport.requests[id].state = "unsent" => runs = 0

\* What is shown never goes back to an older state, also when the answer to a
\* request that timed out comes after the answer to the next one.
SnapshotNeverGoesBack == [][ui'.snapshot >= ui.snapshot]_ui
=============================================================================
