----------------------- MODULE OrchestrationEngineReplay -----------------------
(***************************************************************************)
(* Properties of the orchestration engine that fold the log: they compare  *)
(* its state with a replay of the events from the beginning.               *)
(***************************************************************************)
EXTENDS OrchestrationEngine

\* The read models that events give one after another, from the empty one on.
ModelsOf(events) ==
    LET models[n \in 0..Len(events)] ==
            IF n = 0 THEN createEmptyReadModel ELSE projectEvent(models[n - 1], events[n])
    IN  models

\* The read model that the first n events give.
Replayed(n) == ModelsOf(log)[n]

\* The read model is at all times the replay of a prefix of the log, the same that a
\* restart would rebuild: neither a rolled back transaction nor a commit that was
\* reported as failed leaves a trace in it or a hole.
ReadModelIsReplay == readModel = Replayed(readModel.snapshotSequence)

\* The command of an identity.
CommandOfIdentity(id) == CommandOf[CHOOSE c \in Calls : CommandOf[c].commandId = id]

\* The log is serial: every accepted command was valid, and its events are the ones
\* decided, against the replay of exactly the events before it, although the decision
\* was made on an in-memory copy while callers, crashes and failures came between.
LogIsSerial ==
    \A id \in CommandIds : Accepted(id) =>
        LET command == CommandOfIdentity(id)
            first   == receipts[id].resultSequence - EventCount(id)
            before  == Replayed(first)
            events  == decideOrchestrationCommand(before, command)
        IN  /\ Accepts(before, command)
            /\ \A i \in DOMAIN events : log[first + i] = Put(events[i], "sequence", first + i)
=============================================================================
