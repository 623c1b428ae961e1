--------------------------------- MODULE PushBus ---------------------------------
(***************************************************************************)
(* The pushes of the server (apps/server/src/wsServer/pushBus.ts,          *)
(* readiness.ts and the connection handler of wsServer.ts): one worker     *)
(* takes jobs from a queue and sends each to one socket or to those that   *)
(* are in the broadcast set when the job is taken.  A connection gets its  *)
(* welcome first and is added to the set after that was delivered.         *)
(***************************************************************************)
EXTENDS WsTransport

VARIABLES
    queue,     \* jobs: [channel, sequence, target]; target 0 is all clients
    clients,   \* the broadcast set
    joining,   \* welcomed, not yet added
    ready      \* all five deferreds of readiness.ts are done

pushVars == <<queue, clients, joining, ready>>

InitPushBus == queue = <<>> /\ clients = {} /\ joining = {} /\ ready = FALSE

Job(channel, sequence, target) ==
    [channel |-> channel, sequence |-> sequence, target |-> target]

publishAll(channel, sequence) == queue' = Append(queue, Job(channel, sequence, 0))

\* The connection handler, once awaitServerReady is over: publishClient.
publishWelcome(c) ==
    /\ ready
    /\ connections[c].server = "open"
    /\ ~connections[c].welcomed
    /\ queue' = Append(queue, Job("serverWelcome", 0, c))
    /\ connections' = [connections EXCEPT ![c].welcomed = TRUE]
    /\ UNCHANGED <<transport, clients, joining, ready>>

\* Mutant: the client is in the broadcast set before its welcome is sent.
WelcomeAfterJoining(c) ==
    /\ ready
    /\ connections[c].server = "open"
    /\ ~connections[c].welcomed
    /\ queue' = Append(queue, Job("serverWelcome", 0, c))
    /\ clients' = clients \cup {c}
    /\ connections' = [connections EXCEPT ![c].welcomed = TRUE]
    /\ UNCHANGED <<transport, joining, ready>>

\* The connection handler
welcome(c) == publishWelcome(c)

\* The worker: sockets that are not OPEN are skipped.
send ==
    LET job == Head(queue)
        open == {c \in (IF job.target = 0 THEN clients ELSE {job.target}) :
                    connections[c].server = "open"}
    IN  /\ queue # <<>>
        /\ queue' = Tail(queue)
        /\ connections' = [c \in DOMAIN connections |->
              IF c \in open /\ ~connections[c].broken
                THEN [connections[c] EXCEPT !.down =
                         Append(@, [type |-> job.channel, sequence |-> job.sequence])]
                ELSE connections[c]]
        /\ joining' = IF job.target \in open THEN joining \cup {job.target} ELSE joining
        /\ UNCHANGED <<transport, clients, ready>>

\* The fiber of the connection handler goes on after the delivery.
join(c) ==
    /\ c \in joining
    /\ joining' = joining \ {c}
    /\ clients' = clients \cup {c}
    /\ UNCHANGED <<transport, connections, queue, ready>>

MarkReady ==
    /\ ~ready
    /\ ready' = TRUE
    /\ UNCHANGED <<transport, connections, queue, clients, joining>>
=============================================================================
