------------------------------ MODULE TurnLifecycle ------------------------------
(***************************************************************************)
(* One thread, from the user's turn start to the assistant's finished      *)
(* message (apps/server/src/orchestration/Layers/ProviderCommandReactor.ts *)
(* and ProviderRuntimeIngestion.ts, with provider/Layers/ProviderService.ts*)
(* and the session bookkeeping of CodexAdapter.ts and ClaudeAdapter.ts).   *)
(*                                                                         *)
(* The command reactor takes domain events from its queue and calls the    *)
(* provider; the provider's events go through a queue to the ingestion,    *)
(* which writes what they say back through the engine.  Both dispatch      *)
(* session updates computed from a thread they read some time before.  A   *)
(* dispatch is one step here: OrchestrationEngine shows that commands are  *)
(* decided and folded one at a time.                                       *)
(*                                                                         *)
(* Turns and messages have the id of the request that started them.  A     *)
(* text is a sequence of numbered chunks.                                  *)
(***************************************************************************)
EXTENDS Decider, SequencesExt

CONSTANTS
    T,               \* the thread
    Turns,           \* the turn starts the user may make, 1 to some number
    RuntimeModes,    \* the first one is the thread's initial mode
    MAX_BUFFERED_ASSISTANT_CHARS,   \* in chunks
    Adapter,         \* "codex" or "claudeAgent"
    MaxChunks,       \* bounds of the runs: chunks of a message,
    MaxCommands,     \* the user's commands
    MaxFaults        \* and provider calls that fail, sessions that die

ASSUME LifecycleAssumption ==
    /\ IsFiniteSet(Turns) /\ Turns = 1..Cardinality(Turns)
    /\ {MAX_BUFFERED_ASSISTANT_CHARS, MaxChunks} \subseteq Nat
    /\ Null \notin Nat

DeliveryModes == {"buffered", "streaming"}

VARIABLES
    readModel,
    commandQueue,   \* domain events for the command reactor
    reactor,        \* its run: [phase, event, mode]
    modeQueue,      \* turn starts for the ingestion: their delivery modes
    runtimeQueue,   \* provider events for the ingestion
    ingestion,      \* the event it works at and the session it read, or Nothing
    deliveryMode,   \* assistantDeliveryModeRef
    buffered,       \* bufferedAssistantTextByMessageId
    unfinished,     \* turns with a message in turnMessageIdsByTurnKey
    adapter,        \* sessions by thread, and what the user does not see of them
    bound,          \* the thread has a row in the provider session directory
    said,           \* per turn, what the assistant said
    sent, ended,    \* the turns that reached the provider, and that it completed
    modesOf,        \* per turn, the delivery modes that its chunks met
    commands, faults

provider == <<adapter, bound, said, sent, ended>>
buffers  == <<deliveryMode, buffered, unfinished, modesOf>>
vars == <<readModel, commandQueue, reactor, modeQueue, runtimeQueue, ingestion, buffers,
          provider, commands, faults>>

Thread == readModel.threads[T]
Idle   == [phase |-> "idle"]
Nothing == [event |-> [type |-> "none"], session |-> Null]
\* active: the adapter has a session in its map; alive: something answers it
NoSession == [active |-> FALSE, alive |-> FALSE, turn |-> Null, orphans |-> <<>>]

InitialThread ==
    [NewThread([projectId |-> Null, meta |-> Null, runtimeMode |-> Head(RuntimeModes),
                interactionMode |-> "default"]) EXCEPT !.session = Null]

Init ==
    /\ readModel = [createEmptyReadModel EXCEPT !.threads = [x \in {T} |-> InitialThread]]
    /\ commandQueue = <<>>
    /\ reactor = Idle
    /\ modeQueue = <<>>
    /\ runtimeQueue = <<>>
    /\ ingestion = Nothing
    /\ deliveryMode = "buffered"
    /\ buffered = [t \in Turns |-> <<>>]
    /\ unfinished = {}
    /\ adapter = NoSession
    /\ bound = FALSE
    /\ said = [t \in Turns |-> <<>>]
    /\ sent = {}
    /\ ended = {}
    /\ modesOf = [t \in Turns |-> {}]
    /\ commands = 0
    /\ faults = 0

-----------------------------------------------------------------------------
(* The engine: every command for T is accepted, its events are folded.     *)
(* Their sequences play no part here.                                      *)

dispatch(model, command) ==
    LET event(e) == Put(Put(e, "sequence", 0), "threadId", T)
        events == decideOrchestrationCommand(model, Put(command, "threadId", T))
    IN  FoldLeft(LAMBDA m, e : projectEvent(m, event(e)), model, events)

\* thread.session.set
SetSession(model, status, activeTurnId, mode) ==
    dispatch(model, [type |-> "thread.session.set",
                     session |-> [status |-> status, activeTurnId |-> activeTurnId,
                                  runtimeMode |-> mode]])

\* appendProviderFailureActivity
FailureActivity(model, id) ==
    dispatch(model, [type |-> "thread.activity.append",
                     activity |-> [id |-> id, turnId |-> Null]])

\* thread.message.assistant.delta, if there is any text
AssistantDelta(model, turn, text) ==
    IF text = <<>> THEN model
    ELSE dispatch(model, [type |-> "thread.message.assistant.delta", messageId |-> turn,
                          turnId |-> turn, text |-> text])

HasSession(thread) == thread.session # Null /\ thread.session.status # "stopped"

-----------------------------------------------------------------------------
(* The user *)

Command == commands < MaxCommands /\ commands' = commands + 1

UserUnchanged == UNCHANGED <<reactor, runtimeQueue, ingestion, buffers, provider, faults>>

\* The text of the user's own message plays no part; its id is -t.
StartTurn(t, mode) ==
    /\ Command
    /\ t = 1 + Cardinality({m \in ToSet(Thread.messages) : m.role = "user"})
    /\ readModel' = dispatch(readModel, [type |-> "thread.turn.start", text |-> <<>>,
                                         messageId |-> -t])
    /\ commandQueue' = Append(commandQueue, [type |-> "turn-start", turn |-> t])
    /\ modeQueue' = Append(modeQueue, mode)
    /\ UserUnchanged

SetRuntimeMode(mode) ==
    /\ Command
    /\ mode # Thread.runtimeMode
    /\ readModel' = dispatch(readModel, [type |-> "thread.runtime-mode.set",
                                         runtimeMode |-> mode])
    /\ commandQueue' = Append(commandQueue, [type |-> "runtime-mode-set"])
    /\ UNCHANGED modeQueue
    /\ UserUnchanged

\* thread.turn.interrupt and thread.session.stop leave the thread as it is.
Request(type) ==
    /\ Command
    /\ commandQueue' = Append(commandQueue, [type |-> type])
    /\ UNCHANGED <<readModel, modeQueue>>
    /\ UserUnchanged

-----------------------------------------------------------------------------
(* The adapter: its state and the events it emits *)

Event(type, turn) == [type |-> type, turn |-> turn, text |-> <<>>]

Codex == Adapter = "codex"

\* stopSessionInternal of the session in the map: the Claude adapter completes the
\* active turn, the other one leaves it at that.
Completed(turn, type) == IF turn = Null THEN <<>> ELSE <<Event(type, turn)>>
StopEvents(a) ==
    (IF Codex THEN <<>> ELSE Completed(a.turn, "turn.completed"))
        \o <<Event("session.exited", Null)>>
EndedBy(turn) == IF ~Codex /\ turn # Null THEN ended \cup {turn} ELSE ended
Stopped(a) == [a EXCEPT !.active = FALSE, !.alive = FALSE, !.turn = Null]

\* Mutant: startSession never stops the session it replaces.
NeverStopsReplaced(a) == FALSE

\* startSession over what is in the map: Codex stops that first, dead or alive, Claude
\* leaves it running where nobody finds it.
StopsReplaced(a) == a.active /\ Codex

\* "starting" and "ready" are session.state.changed; session.started and thread.started
\* have the effect of "ready".
StartEvents == (IF Codex THEN <<Event("starting", Null)>> ELSE <<>>) \o <<Event("ready", Null)>>

\* A Codex session that was spawned and does not come up is closed again.
FailedStarts ==
    {<<>>} \cup IF Codex THEN {<<Event("starting", Null), Event("session.exited", Null)>>} ELSE {}

startSession(a) ==
    [adapter |-> [active  |-> TRUE, alive |-> TRUE, turn |-> Null,
                  orphans |-> IF a.active /\ ~StopsReplaced(a) THEN Append(a.orphans, a.turn)
                                                               ELSE a.orphans],
     events  |-> (IF StopsReplaced(a) THEN StopEvents(a) ELSE <<>>) \o StartEvents,
     ended   |-> IF StopsReplaced(a) THEN EndedBy(a.turn) ELSE ended]

\* sendTurn with a turn active: the Codex process takes the input into that turn, the
\* Claude adapter closes it and begins the next one.
SendTurn(a, events, done, t) ==
    /\ sent' = sent \cup {t}
    /\ IF Codex /\ a.turn # Null
         THEN /\ adapter' = a
              /\ runtimeQueue' = runtimeQueue \o events
              /\ ended' = done
         ELSE /\ adapter' = [a EXCEPT !.turn = t]
              /\ runtimeQueue' = runtimeQueue \o events \o Completed(a.turn, "turn.completed")
                                              \o <<Event("turn.started", t)>>
              /\ ended' = IF a.turn = Null THEN done ELSE done \cup {a.turn}

ProviderCallFails == faults < MaxFaults /\ faults' = faults + 1

-----------------------------------------------------------------------------
(* The command reactor *)

ReactorUnchanged == UNCHANGED <<modeQueue, ingestion, buffers, said, commands>>

\* ensureSessionForThread up to the call of startSession: whether one is needed.
NeedsStart(thread) == ~HasSession(thread) \/ thread.session.runtimeMode # thread.runtimeMode

Run(phase, event) == [phase |-> phase, event |-> event, mode |-> Thread.runtimeMode]

\* The worker takes the next event, reads the thread and gets to its first await.
TakeCommand ==
    LET e == Head(commandQueue)
    IN  /\ reactor = Idle
        /\ commandQueue # <<>>
        /\ commandQueue' = Tail(commandQueue)
        /\ reactor' = CASE e.type = "turn-start" ->
                             Run(IF NeedsStart(Thread) THEN "start" ELSE "send", e)
                        [] e.type = "runtime-mode-set" ->
                             IF HasSession(Thread) /\ NeedsStart(Thread)
                               THEN Run("start", e) ELSE Idle
                        [] e.type = "interrupt" ->
                             IF HasSession(Thread) THEN Run("interrupt", e) ELSE Idle
                        [] e.type = "stop" ->
                             Run(IF HasSession(Thread) THEN "stop" ELSE "markStopped", e)
        /\ readModel' = IF e.type = "interrupt" /\ ~HasSession(Thread)
                          THEN FailureActivity(readModel, 0) ELSE readModel
        /\ UNCHANGED <<runtimeQueue, adapter, bound, sent, ended, faults>>
        /\ ReactorUnchanged

\* Mutant: only the log hears of a failed call.
FailsSilently(e) == reactor' = Idle /\ UNCHANGED readModel

\* A failed call ends the run; that of a turn start is told to the user.
Fails(e) ==
    /\ reactor' = Idle
    /\ readModel' = IF e.type = "turn-start" THEN FailureActivity(readModel, e.turn)
                                             ELSE readModel

\* providerService.startSession, with the directory's row
StartSession ==
    LET started == startSession(adapter)
    IN  /\ reactor.phase = "start"
        /\ adapter' = started.adapter
        /\ runtimeQueue' = runtimeQueue \o started.events
        /\ ended' = started.ended
        /\ bound' = TRUE
        /\ reactor' = [reactor EXCEPT !.phase = "bind"]
        /\ UNCHANGED <<readModel, commandQueue, sent, faults>>
        /\ ReactorUnchanged

\* The session to be replaced is gone by then.
StartSessionFails ==
    /\ reactor.phase = "start"
    /\ ProviderCallFails
    /\ \E events \in FailedStarts :
         IF StopsReplaced(adapter)
           THEN /\ runtimeQueue' = runtimeQueue \o StopEvents(adapter) \o events
                /\ ended' = EndedBy(adapter.turn)
                /\ adapter' = Stopped(adapter)
           ELSE /\ runtimeQueue' = runtimeQueue \o events
                /\ UNCHANGED <<ended, adapter>>
    /\ Fails(reactor.event)
    /\ UNCHANGED <<commandQueue, bound, sent>>
    /\ ReactorUnchanged

\* bindSessionToThread
Bind ==
    /\ reactor.phase = "bind"
    /\ readModel' = SetSession(readModel, "ready", Null, reactor.mode)
    /\ reactor' = IF reactor.event.type = "turn-start" THEN [reactor EXCEPT !.phase = "send"]
                                                       ELSE Idle
    /\ UNCHANGED <<commandQueue, runtimeQueue, adapter, bound, sent, ended, faults>>
    /\ ReactorUnchanged

\* providerService.sendTurn: without a session in the map one is recovered, which takes
\* a row in the directory; rows have a resume cursor.
Send ==
    LET recovered == startSession(adapter)
        t == reactor.event.turn
    IN  /\ reactor.phase = "send"
        /\ bound
        /\ adapter.active = adapter.alive
        /\ IF adapter.active THEN SendTurn(adapter, <<>>, ended, t)
           ELSE SendTurn(recovered.adapter, recovered.events, recovered.ended, t)
        /\ reactor' = Idle
        /\ UNCHANGED <<readModel, commandQueue, bound, faults>>
        /\ ReactorUnchanged

\* The session is in the map and its process is gone: the protocol took turn/start for a
\* process it writes nothing to any more, and nobody fails the request.
SendHangs ==
    /\ reactor.phase = "send"
    /\ bound
    /\ adapter.active /\ ~adapter.alive
    /\ reactor' = [reactor EXCEPT !.phase = "hangs"]
    /\ UNCHANGED <<readModel, commandQueue, runtimeQueue, adapter, bound, sent, ended, faults>>
    /\ ReactorUnchanged

\* The call fails, or the recovery before it.
RecoveryFails ==
    /\ ProviderCallFails
    /\ \E events \in (IF bound /\ ~adapter.active THEN FailedStarts ELSE {<<>>}) :
         runtimeQueue' = runtimeQueue \o events

SendFails ==
    /\ reactor.phase = "send"
    /\ \/ ~bound /\ UNCHANGED <<runtimeQueue, faults>>
       \/ RecoveryFails
    /\ Fails(reactor.event)
    /\ UNCHANGED <<commandQueue, adapter, bound, sent, ended>>
    /\ ReactorUnchanged

\* providerService.interruptTurn; the turn ends when the provider says so.  A dead session
\* has no turn to interrupt.
Interrupt ==
    LET recovered == startSession(adapter)
    IN  /\ reactor.phase = "interrupt"
        /\ \/ /\ bound /\ ~adapter.active
              /\ adapter' = recovered.adapter
              /\ runtimeQueue' = runtimeQueue \o recovered.events
              /\ UNCHANGED faults
           \/ /\ ~bound \/ adapter.active
              /\ UNCHANGED <<adapter, runtimeQueue, faults>>
           \/ RecoveryFails /\ UNCHANGED adapter
        /\ reactor' = Idle
        /\ UNCHANGED <<readModel, commandQueue, bound, sent, ended>>
        /\ ReactorUnchanged

\* providerService.stopSession; without a row it fails, and so does the whole run.
StopSession ==
    /\ reactor.phase = "stop"
    /\ IF bound /\ adapter.active
         THEN /\ adapter' = Stopped(adapter)
              /\ runtimeQueue' = runtimeQueue \o StopEvents(adapter)
              /\ ended' = EndedBy(adapter.turn)
         ELSE UNCHANGED <<adapter, runtimeQueue, ended>>
    /\ bound' = FALSE
    /\ reactor' = IF bound THEN [reactor EXCEPT !.phase = "markStopped"] ELSE Idle
    /\ UNCHANGED <<readModel, commandQueue, sent, faults>>
    /\ ReactorUnchanged

MarkStopped ==
    /\ reactor.phase = "markStopped"
    /\ readModel' = SetSession(readModel, "stopped", Null,
                       IF Thread.session = Null THEN Head(RuntimeModes)
                                                ELSE Thread.session.runtimeMode)
    /\ reactor' = Idle
    /\ UNCHANGED <<commandQueue, runtimeQueue, adapter, bound, sent, ended, faults>>
    /\ ReactorUnchanged

\* The server's scope closes: runStopAll stops what the adapter has in its map, the
\* workers are interrupted, and their queues are gone.
StopAll ==
    /\ reactor' = [phase |-> "closed"]
    /\ adapter' = Stopped(adapter)
    /\ ended' = EndedBy(adapter.turn)
    /\ commandQueue' = <<>>
    /\ modeQueue' = <<>>
    /\ runtimeQueue' = <<>>
    /\ ingestion' = Nothing
    /\ UNCHANGED <<readModel, buffers, bound, said, sent, commands, faults>>

Reactor ==
    \/ TakeCommand
    \/ StartSession \/ StartSessionFails
    \/ Bind
    \/ Send \/ SendHangs \/ SendFails
    \/ Interrupt
    \/ StopSession \/ MarkStopped

-----------------------------------------------------------------------------
(* The provider at work *)

ProviderUnchanged ==
    UNCHANGED <<readModel, commandQueue, reactor, modeQueue, ingestion, buffers, bound,
                sent, commands>>

\* content.delta of the assistant's text
Say ==
    LET t == adapter.turn
        chunk == Len(said[t]) + 1
    IN  /\ t # Null
        /\ chunk <= MaxChunks
        /\ said' = [said EXCEPT ![t] = Append(@, chunk)]
        /\ runtimeQueue' = Append(runtimeQueue, [Event("delta", t) EXCEPT !.text = <<chunk>>])
        /\ UNCHANGED <<adapter, ended, faults>>
        /\ ProviderUnchanged

\* item.completed of the message with its whole text, which may be said nowhere
\* else; the turn says no more.
CompleteItem ==
    LET t == adapter.turn
        text == IF said[t] = <<>> THEN <<1>> ELSE said[t]
    IN  /\ t # Null
        /\ Len(said[t]) <= MaxChunks
        /\ said' = [said EXCEPT ![t] = text]
        /\ runtimeQueue' = runtimeQueue \o <<[Event("item.completed", t) EXCEPT !.text = text],
                                             Event("turn.completed", t)>>
        /\ ended' = ended \cup {t}
        /\ adapter' = [adapter EXCEPT !.turn = Null]
        /\ UNCHANGED faults
        /\ ProviderUnchanged

\* The result message ends the turn; its text may have no completion of its own.
CompleteTurn ==
    /\ adapter.turn # Null
    /\ ended' = ended \cup {adapter.turn}
    /\ adapter' = [adapter EXCEPT !.turn = Null]
    /\ runtimeQueue' = Append(runtimeQueue, Event("turn.completed", adapter.turn))
    /\ UNCHANGED <<said, faults>>
    /\ ProviderUnchanged

\* The provider's process or stream of the session in the map ends by itself, or that of
\* the k-th replaced one.  The Claude adapter deletes the thread's entry either way, the
\* Codex adapter keeps it.
SessionDies(k) ==
    LET turn == IF k = 0 THEN adapter.turn ELSE adapter.orphans[k]
    IN  /\ k = 0 => adapter.alive
        /\ ProviderCallFails
        /\ adapter' = [active |-> Codex, alive |-> FALSE, turn |-> Null,
                       orphans |-> IF k = 0 THEN adapter.orphans
                                   ELSE RemoveAt(adapter.orphans, k) \o
                                        (IF adapter.active THEN <<adapter.turn>> ELSE <<>>)]
        /\ ended' = EndedBy(turn)
        /\ runtimeQueue' = runtimeQueue \o
              (IF Codex THEN <<>>
                        ELSE <<Event("runtime.error", turn), Event("turn.failed", turn)>>) \o
              <<Event("session.exited", Null)>>
        /\ UNCHANGED said
        /\ ProviderUnchanged

Provider == Say \/ CompleteItem \/ CompleteTurn \/ \E k \in 0 .. Len(adapter.orphans) : SessionDies(k)

-----------------------------------------------------------------------------
(* The ingestion *)

IngestionUnchanged == UNCHANGED <<commandQueue, reactor, provider, commands, faults>>

\* processDomainEvent: the delivery mode is one for all threads and messages.
TakeMode ==
    /\ ingestion = Nothing
    /\ modeQueue # <<>>
    /\ deliveryMode' = Head(modeQueue)
    /\ modeQueue' = Tail(modeQueue)
    /\ UNCHANGED <<readModel, runtimeQueue, ingestion, buffered, unfinished, modesOf>>
    /\ IngestionUnchanged

\* processRuntimeEvent reads the thread.
TakeRuntimeEvent ==
    /\ ingestion = Nothing
    /\ runtimeQueue # <<>>
    /\ ingestion' = [event |-> Head(runtimeQueue), session |-> Thread.session]
    /\ runtimeQueue' = Tail(runtimeQueue)
    /\ UNCHANGED <<readModel, modeQueue, buffers>>
    /\ IngestionUnchanged

\* shouldApplyThreadLifecycle, and its like for runtime.error
AppliesToSession(event, activeTurnId) ==
    CASE event.type \in {"turn.started", "runtime.error"} ->
            activeTurnId = Null \/ event.turn = Null \/ event.turn = activeTurnId
      [] event.type \in {"turn.completed", "turn.failed"} ->
            activeTurnId = Null \/ event.turn = activeTurnId
      [] OTHER -> TRUE

\* Mutant: the exit of a session leaves its turn active.
NextTurnButExited(event, activeTurnId) ==
    CASE event.type \in {"turn.started", "runtime.error"} -> event.turn
      [] event.type \in {"turn.completed", "turn.failed"} -> Null
      [] OTHER -> activeTurnId

nextActiveTurnId(event, activeTurnId) ==
    CASE event.type \in {"turn.started", "runtime.error"} -> event.turn
      [] event.type \in {"turn.completed", "turn.failed", "session.exited"} -> Null
      [] OTHER -> activeTurnId

nextStatus(event, activeTurnId) ==
    CASE event.type \in {"starting", "ready"} ->
            IF activeTurnId # Null THEN "running" ELSE event.type
      [] event.type = "turn.started"    -> "running"
      [] event.type = "turn.completed"  -> "ready"
      [] event.type = "session.exited"  -> "stopped"
      [] event.type \in {"turn.failed", "runtime.error"} -> "error"

\* The session that the event leads to, from the one read when it was taken.
SessionAfter(model, event, session) ==
    LET activeTurnId == IF session = Null THEN Null ELSE session.activeTurnId
        mode == IF session = Null THEN Head(RuntimeModes) ELSE session.runtimeMode
    IN  IF event.type \in {"delta", "item.completed"} \/ ~AppliesToSession(event, activeTurnId)
          THEN model
          ELSE SetSession(model, nextStatus(event, activeTurnId),
                          nextActiveTurnId(event, activeTurnId), mode)

\* finalizeAssistantMessage: what is buffered, or else the fallback, and the end.
finalize(model, turn, fallbackText) ==
    LET text == IF buffered[turn] # <<>> THEN buffered[turn] ELSE fallbackText
    IN  dispatch(AssistantDelta(model, turn, text),
                 [type |-> "thread.message.assistant.complete", messageId |-> turn,
                  turnId |-> turn])

\* Mutant: what was buffered before the overflow is forgotten.
SpillNewest(buffer, text) == text

\* What goes out when the buffer overflows
spillChunk(buffer, text) == buffer \o text

\* The effects of an event on the assistant's text
Delta(model, event) ==
    LET t == event.turn
        overflows == Len(buffered[t]) + Len(event.text) > MAX_BUFFERED_ASSISTANT_CHARS
    IN  /\ unfinished' = unfinished \cup {t}
        /\ modesOf' = [modesOf EXCEPT ![t] = @ \cup {deliveryMode}]
        /\ CASE deliveryMode = "streaming" ->
                  /\ readModel' = AssistantDelta(model, t, event.text)
                  /\ UNCHANGED buffered
             [] deliveryMode = "buffered" /\ overflows ->
                  /\ readModel' = AssistantDelta(model, t, spillChunk(buffered[t], event.text))
                  /\ buffered' = [buffered EXCEPT ![t] = <<>>]
             [] OTHER ->
                  /\ readModel' = model
                  /\ buffered' = [buffered EXCEPT ![t] = @ \o event.text]

ItemCompleted(model, event) ==
    LET t == event.turn
        shown == {m \in ToSet(Thread.messages) : m.id = t /\ m.text # <<>>}
    IN  /\ readModel' = finalize(model, t, IF shown = {} THEN event.text ELSE <<>>)
        /\ unfinished' = unfinished \ {t}
        /\ buffered' = [buffered EXCEPT ![t] = <<>>]
        /\ UNCHANGED modesOf

TurnCompleted(model, event) ==
    LET t == event.turn
    IN  /\ IF t \in unfinished
             THEN /\ readModel' = finalize(model, t, <<>>)
                  /\ buffered' = [buffered EXCEPT ![t] = <<>>]
             ELSE readModel' = model /\ UNCHANGED buffered
        /\ unfinished' = unfinished \ {t}
        /\ UNCHANGED modesOf

\* clearTurnStateForSession
SessionExited(model) ==
    /\ readModel' = model
    /\ buffered' = [t \in Turns |-> IF t \in unfinished THEN <<>> ELSE buffered[t]]
    /\ unfinished' = {}
    /\ UNCHANGED modesOf

\* processRuntimeEvent goes on: what it dispatches and buffers.
Ingest ==
    /\ ingestion # Nothing
    /\ LET event == ingestion.event
           model == SessionAfter(readModel, event, ingestion.session)
       IN  CASE event.type = "delta" -> Delta(model, event)
             [] event.type = "item.completed" -> ItemCompleted(model, event)
             [] event.type \in {"turn.completed", "turn.failed"} -> TurnCompleted(model, event)
             [] event.type = "session.exited" -> SessionExited(model)
             [] OTHER -> readModel' = model /\ UNCHANGED <<buffered, unfinished, modesOf>>
    /\ ingestion' = Nothing
    /\ UNCHANGED <<modeQueue, runtimeQueue, deliveryMode>>
    /\ IngestionUnchanged

Ingestion == TakeMode \/ TakeRuntimeEvent \/ Ingest

-----------------------------------------------------------------------------
User ==
    \/ \E t \in Turns, mode \in DeliveryModes : StartTurn(t, mode)
    \/ \E mode \in ToSet(RuntimeModes) : SetRuntimeMode(mode)
    \/ Request("interrupt")
    \/ Request("stop")

Running == reactor.phase # "closed"

Next == Running /\ (User \/ Reactor \/ StopAll \/ Provider \/ Ingestion)

Spec == Init /\ [][Next]_vars

-----------------------------------------------------------------------------
(* Properties *)

IngestionSettled == reactor.phase # "closed" /\ ingestion = Nothing /\ runtimeQueue = <<>>

\* A reactor that hangs does not go on either.
Settled ==
    /\ IngestionSettled
    /\ reactor.phase = "hangs" \/ (reactor = Idle /\ commandQueue = <<>>)

\* Once all is processed, a thread that shows a session tells which turn runs in it,
\* and the session can be routed to: the directory has its row, or else every later
\* turn of the thread would fail.  Updates computed from an older thread, events of
\* a session that was replaced and restarts in the middle of a turn come between.
SettledThreadAgrees ==
    Settled /\ HasSession(Thread) => Thread.session.activeTurnId = adapter.turn /\ bound

\* What the assistant said in a turn that was completed is in its message, every
\* chunk once, however it was buffered, spilled, flushed and finalized, and the
\* message is no longer streaming.  The chunks are in order if the delivery mode
\* was the same for all of them.
TextIsComplete ==
    IngestionSettled =>
        \A t \in ended : said[t] # <<>> =>
            \E m \in ToSet(Thread.messages) :
                /\ m.id = t
                /\ ~m.streaming
                /\ Len(m.text) = Len(said[t])
                /\ ToSet(m.text) = ToSet(said[t])
                /\ Cardinality(modesOf[t]) <= 1 => m.text = said[t]

QueuedTurns == {e.turn : e \in {x \in ToSet(commandQueue) : x.type = "turn-start"}}
TurnInHand == IF reactor # Idle /\ reactor.event.type = "turn-start" THEN {reactor.event.turn} ELSE {}

\* Every turn start has reached the provider, is answered by a failure on the thread, or
\* is one the reactor has before it: none is lost between restarts, recoveries, stops,
\* deaths and calls that fail.
NoTurnStartIsLost ==
    reactor.phase # "closed" => \A m \in ToSet(Thread.messages) :
        m.role = "user" => -m.id \in sent \cup Ids(Thread.activities) \cup QueuedTurns \cup TurnInHand


\* "Stop all sessions owned by this adapter" (Services/ProviderAdapter.ts).
StopAllStopsEverySession ==
    reactor.phase = "closed" => ~adapter.active /\ adapter.orphans = <<>>
=============================================================================
