-------------------------- MODULE OrchestrationEngine --------------------------
(***************************************************************************)
(* The orchestration engine                                                *)
(* (apps/server/src/orchestration/Layers/OrchestrationEngine.ts): callers  *)
(* put commands in a queue; one worker decides each against the in-memory  *)
(* read model, appends its events, the SQL projections and a receipt in    *)
(* one transaction, adopts the new read model, publishes the events to the *)
(* subscribers and answers the caller.                                     *)
(*                                                                         *)
(* Every point where the worker awaits the database is a step of its own,  *)
(* so callers, subscribers and crashes interleave with it.  The database   *)
(* (log, receipts, projection) survives a crash, the rest is rebuilt.      *)
(***************************************************************************)
EXTENDS Decider

CONSTANTS
    Calls,        \* calls of dispatch, by any client or reactor
    CommandOf,    \* the command of each call; a retry has its first call's command
    Subscribers,  \* consumers of streamDomainEvents
    Faults        \* the storage faults that may happen

FaultKinds == {"lookup",        \* reading the receipt fails
               "transaction",   \* a statement fails and the transaction rolls back
               "commit",        \* the commit happens but is reported as failed
               "reconcile",     \* reading the events back after a failure fails
               "receipt"}       \* writing a rejected receipt fails

ASSUME EngineAssumption ==
    /\ DOMAIN CommandOf = Calls
    /\ \A c, d \in Calls : CommandOf[c].commandId = CommandOf[d].commandId
                              => CommandOf[c] = CommandOf[d]
    /\ \A c \in Calls : /\ {"type", "commandId"} \subseteq DOMAIN CommandOf[c]
                        /\ "sequence" \notin DOMAIN CommandOf[c]
                        /\ CommandOf[c].type \in DOMAIN EventTypeOf
    /\ Null \notin Calls
    /\ Null \notin {"invariant", "storage"}
    /\ Faults \subseteq FaultKinds

CommandIds == {CommandOf[c].commandId : c \in Calls}

VARIABLES
    \* the database
    log,         \* orchestration_events, in sequence order
    receipts,    \* orchestration_command_receipts, by commandId
    projection,  \* the cursor of the SQL projections, all written with the events
    \* the process
    status,        \* "down", "replaying" (constructing the layer) or "running"
    readModel,
    commandQueue,  \* the calls that wait for the worker
    inbox,         \* per subscriber, the sequences published to it
    subscribed,
    \* the worker's run of processEnvelope
    phase, envelope, dispatchStartSequence, error,
    eventBases,       \* what is left to append
    committedEvents,  \* what this run appended, or read back after a failure
    nextReadModel,
    progress,         \* how many of committedEvents are folded, or published
    \* the callers
    answer,      \* per call, its state and the sequence it was told
    snapshotAt   \* per subscriber, the sequence of the SQL snapshot it read

database == <<log, receipts, projection>>
worker   == <<phase, envelope, dispatchStartSequence, error, eventBases,
              committedEvents, nextReadModel, progress>>
streams  == <<inbox, subscribed, snapshotAt>>
vars     == <<database, status, readModel, commandQueue, worker, streams, answer>>

Command   == CommandOf[envelope]
commandId == Command.commandId

NotAnswered == [status |-> "none", sequence |-> 0]
Waiting     == [status |-> "waiting", sequence |-> 0]
LastOf(s)   == s[Len(s)]

WorkerReset ==
    /\ phase' = "idle"
    /\ envelope' = Null
    /\ dispatchStartSequence' = 0
    /\ error' = Null
    /\ eventBases' = <<>>
    /\ committedEvents' = <<>>
    /\ nextReadModel' = Null
    /\ progress' = 0

Init ==
    /\ log = <<>>
    /\ receipts = <<>>
    /\ projection = 0
    /\ status = "down"
    /\ readModel = createEmptyReadModel
    /\ commandQueue = <<>>
    /\ inbox = [s \in Subscribers |-> <<>>]
    /\ subscribed = {}
    /\ snapshotAt = [s \in Subscribers |-> Null]
    /\ phase = "idle"
    /\ envelope = Null
    /\ dispatchStartSequence = 0
    /\ error = Null
    /\ eventBases = <<>>
    /\ committedEvents = <<>>
    /\ nextReadModel = Null
    /\ progress = 0
    /\ answer = [c \in Calls |-> NotAnswered]

-----------------------------------------------------------------------------
(* Start and crash of the process *)

\* projectionPipeline.bootstrap brings the SQL projections up to the log.
Start ==
    /\ status = "down"
    /\ status' = "replaying"
    /\ projection' = Len(log)
    /\ UNCHANGED <<log, receipts, readModel, commandQueue, worker, streams, answer>>

\* The read model is rebuilt from the whole log, event by event.
Replay ==
    /\ status = "replaying"
    /\ readModel.snapshotSequence < Len(log)
    /\ readModel' = projectEvent(readModel, log[readModel.snapshotSequence + 1])
    /\ UNCHANGED <<database, status, commandQueue, worker, streams, answer>>

\* The worker is forked and the layer's service handed out.
Serve ==
    /\ status = "replaying"
    /\ readModel.snapshotSequence = Len(log)
    /\ status' = "running"
    /\ UNCHANGED <<database, readModel, commandQueue, worker, streams, answer>>

\* The process dies: an open transaction is gone, its callers hear nothing.
Crash ==
    /\ status # "down"
    /\ status' = "down"
    /\ readModel' = createEmptyReadModel
    /\ commandQueue' = <<>>
    /\ inbox' = [s \in Subscribers |-> <<>>]
    /\ subscribed' = {}
    /\ snapshotAt' = [s \in Subscribers |-> Null]
    /\ WorkerReset
    /\ answer' = [c \in Calls |-> IF answer[c] = Waiting
                                    THEN [answer[c] EXCEPT !.status = "lost"]
                                    ELSE answer[c]]
    /\ UNCHANGED database

-----------------------------------------------------------------------------
(* Callers and subscribers *)

dispatch(c) ==
    /\ status = "running"
    /\ answer[c] = NotAnswered
    /\ commandQueue' = Append(commandQueue, c)
    /\ answer' = [answer EXCEPT ![c] = Waiting]
    /\ UNCHANGED <<database, status, readModel, worker, streams>>

\* Each access of streamDomainEvents subscribes anew.
streamDomainEvents(s) ==
    /\ status = "running"
    /\ s \notin subscribed
    /\ subscribed' = subscribed \cup {s}
    /\ UNCHANGED <<database, status, readModel, commandQueue, worker, inbox, snapshotAt, answer>>

\* A subscriber reads the SQL snapshot, once it hears the stream.
GetSnapshot(s) ==
    /\ s \in subscribed
    /\ snapshotAt[s] = Null
    /\ snapshotAt' = [snapshotAt EXCEPT ![s] = projection]
    /\ UNCHANGED <<database, status, readModel, commandQueue, worker, inbox, subscribed, answer>>

-----------------------------------------------------------------------------
(* processEnvelope: receipt lookup and decision *)

Take ==
    /\ status = "running"
    /\ phase = "idle"
    /\ commandQueue # <<>>
    /\ phase' = "lookup"
    /\ envelope' = Head(commandQueue)
    /\ commandQueue' = Tail(commandQueue)
    /\ dispatchStartSequence' = readModel.snapshotSequence
    /\ UNCHANGED <<database, status, readModel, streams, answer, error, eventBases,
                   committedEvents, nextReadModel, progress>>

\* Deferred.succeed or Deferred.fail; the worker goes back to the queue.
Reply(outcome, sequence) ==
    /\ answer' = [answer EXCEPT ![envelope] = [status |-> outcome, sequence |-> sequence]]
    /\ WorkerReset

GoTo(next) ==
    /\ phase' = next
    /\ UNCHANGED <<envelope, dispatchStartSequence>>

Fail(kind) ==
    /\ GoTo("failed")
    /\ error' = kind
    /\ UNCHANGED <<eventBases, committedEvents, nextReadModel, progress>>

\* A command decided before gets the answer its receipt records.
ReceiptFound ==
    /\ phase = "lookup"
    /\ commandId \in DOMAIN receipts
    /\ IF receipts[commandId].status = "accepted"
         THEN Reply("ok", receipts[commandId].resultSequence)
         ELSE Reply("previouslyRejected", 0)
    /\ UNCHANGED <<database, status, readModel, commandQueue, streams>>

\* Mutant: the receipt is not looked at.
ReceiptIgnored ==
    /\ phase = "lookup"
    /\ GoTo("decide")
    /\ UNCHANGED <<database, status, readModel, commandQueue, streams, answer, error,
                   eventBases, committedEvents, nextReadModel, progress>>

ReceiptMissing ==
    /\ phase = "lookup"
    /\ commandId \notin DOMAIN receipts
    /\ GoTo("decide")
    /\ UNCHANGED <<database, status, readModel, commandQueue, streams, answer, error,
                   eventBases, committedEvents, nextReadModel, progress>>

LookupFails ==
    /\ "lookup" \in Faults
    /\ phase = "lookup"
    /\ Fail("storage")
    /\ UNCHANGED <<database, status, readModel, commandQueue, streams, answer>>

DecideRejects ==
    /\ phase = "decide"
    /\ ~Accepts(readModel, Command)
    /\ Fail("invariant")
    /\ UNCHANGED <<database, status, readModel, commandQueue, streams, answer>>

DecideAccepts ==
    /\ phase = "decide"
    /\ Accepts(readModel, Command)
    /\ GoTo("transaction")
    /\ eventBases' = decideOrchestrationCommand(readModel, Command)
    /\ nextReadModel' = readModel
    /\ UNCHANGED <<database, status, readModel, commandQueue, streams, answer, error,
                   committedEvents, progress>>

-----------------------------------------------------------------------------
(* processEnvelope: the transaction *)

\* Mutant: every event of a command gets the sequence of its first one.
AppendWithSameSequence ==
    /\ phase = "transaction"
    /\ eventBases # <<>>
    /\ LET savedEvent == Put(Head(eventBases), "sequence", Len(log) + 1)
       IN  /\ nextReadModel' = projectEvent(nextReadModel, savedEvent)
           /\ committedEvents' = Append(committedEvents, savedEvent)
    /\ eventBases' = Tail(eventBases)
    /\ UNCHANGED <<database, status, readModel, commandQueue, streams, answer, phase,
                   envelope, dispatchStartSequence, error, progress>>

\* eventStore.append gives the next sequence; the event is folded into the next
\* read model and projected to SQL, all of it seen by nobody before the commit.
AppendEvent ==
    /\ phase = "transaction"
    /\ eventBases # <<>>
    /\ LET savedEvent == Put(Head(eventBases), "sequence",
                             Len(log) + Len(committedEvents) + 1)
       IN  /\ nextReadModel' = projectEvent(nextReadModel, savedEvent)
           /\ committedEvents' = Append(committedEvents, savedEvent)
    /\ eventBases' = Tail(eventBases)
    /\ UNCHANGED <<database, status, readModel, commandQueue, streams, answer, phase,
                   envelope, dispatchStartSequence, error, progress>>

TransactionFails ==
    /\ "transaction" \in Faults
    /\ phase = "transaction"
    /\ Fail("storage")
    /\ UNCHANGED <<database, status, readModel, commandQueue, streams, answer>>

\* Mutant: the receipt is not part of the transaction.
PersistWithoutReceipt ==
    /\ phase = "transaction"
    /\ eventBases = <<>>
    /\ log' = log \o committedEvents
    /\ projection' = LastOf(committedEvents).sequence
    /\ UNCHANGED <<receipts, status, readModel, commandQueue, streams, answer>>

\* What the commit makes durable, all at once.
Persist ==
    /\ phase = "transaction"
    /\ eventBases = <<>>
    /\ log' = log \o committedEvents
    /\ receipts' = Put(receipts, commandId,
                       [status |-> "accepted",
                        resultSequence |-> LastOf(committedEvents).sequence])
    /\ projection' = LastOf(committedEvents).sequence
    /\ UNCHANGED <<status, readModel, commandQueue, streams, answer>>

\* Mutant: the events are published before the read model has them.
CommitThenPublish ==
    /\ Persist
    /\ GoTo("publish")
    /\ UNCHANGED <<error, eventBases, committedEvents, nextReadModel, progress>>

Commit ==
    /\ Persist
    /\ GoTo("committed")
    /\ UNCHANGED <<error, eventBases, committedEvents, nextReadModel, progress>>

CommitReportedAsFailed ==
    /\ "commit" \in Faults
    /\ Persist
    /\ Fail("storage")

-----------------------------------------------------------------------------
(* processEnvelope: after the commit, and after a failure *)

\* Mutant: events read back after a failure are not published.
AdoptQuietly ==
    /\ phase \in {"committed", "fold"}
    /\ phase = "fold" => progress = Len(committedEvents)
    /\ readModel' = nextReadModel
    /\ phase' = IF phase = "committed" THEN "publish" ELSE "answer"
    /\ progress' = 0
    /\ UNCHANGED <<database, status, commandQueue, streams, answer, envelope,
                   dispatchStartSequence, error, eventBases, committedEvents, nextReadModel>>

AdoptReadModel ==
    /\ phase \in {"committed", "fold"}
    /\ phase = "fold" => progress = Len(committedEvents)
    /\ readModel' = nextReadModel
    /\ phase' = IF phase = "committed" THEN "publish" ELSE "republish"
    /\ progress' = 0
    /\ UNCHANGED <<database, status, commandQueue, streams, answer, envelope,
                   dispatchStartSequence, error, eventBases, committedEvents, nextReadModel>>

PublishEvent ==
    /\ phase \in {"publish", "republish"}
    /\ progress < Len(committedEvents)
    /\ inbox' = [s \in Subscribers |->
                   IF s \in subscribed
                     THEN Append(inbox[s], committedEvents[progress + 1].sequence)
                     ELSE inbox[s]]
    /\ progress' = progress + 1
    /\ UNCHANGED <<database, status, readModel, commandQueue, subscribed, snapshotAt, answer,
                   phase, envelope, dispatchStartSequence, error, eventBases,
                   committedEvents, nextReadModel>>

Succeed ==
    /\ phase = "publish"
    /\ progress = Len(committedEvents)
    /\ Reply("ok", LastOf(committedEvents).sequence)
    /\ UNCHANGED <<database, status, readModel, commandQueue, streams>>

\* Mutant: the read back starts one event too late.
ReadPastNextEvent ==
    /\ phase = "failed"
    /\ committedEvents' = SubSeq(log, dispatchStartSequence + 2, Len(log))
    /\ nextReadModel' = readModel
    /\ progress' = 0
    /\ GoTo(IF committedEvents' = <<>> THEN "answer" ELSE "fold")
    /\ UNCHANGED <<database, status, readModel, commandQueue, streams, answer, error, eventBases>>

\* reconcileReadModelAfterDispatchFailure reads what the log holds past the
\* read model, folds it, adopts and publishes it.
ReadPersistedEvents ==
    /\ phase = "failed"
    /\ committedEvents' = SubSeq(log, dispatchStartSequence + 1, Len(log))
    /\ nextReadModel' = readModel
    /\ progress' = 0
    /\ GoTo(IF committedEvents' = <<>> THEN "answer" ELSE "fold")
    /\ UNCHANGED <<database, status, readModel, commandQueue, streams, answer, error, eventBases>>

FoldPersistedEvent ==
    /\ phase = "fold"
    /\ progress < Len(committedEvents)
    /\ nextReadModel' = projectEvent(nextReadModel, committedEvents[progress + 1])
    /\ progress' = progress + 1
    /\ UNCHANGED <<database, status, readModel, commandQueue, streams, answer, phase, envelope,
                   dispatchStartSequence, error, eventBases, committedEvents>>

EndReconcile ==
    /\ phase = "republish"
    /\ progress = Len(committedEvents)
    /\ GoTo("answer")
    /\ UNCHANGED <<database, status, readModel, commandQueue, streams, answer, error,
                   eventBases, committedEvents, nextReadModel, progress>>

\* A failed read back is only logged.
ReconcileFails ==
    /\ "reconcile" \in Faults
    /\ phase = "failed"
    /\ GoTo("answer")
    /\ UNCHANGED <<database, status, readModel, commandQueue, streams, answer, error,
                   eventBases, committedEvents, nextReadModel, progress>>

RejectWithReceipt ==
    /\ phase = "answer"
    /\ error = "invariant"
    /\ receipts' = Put(receipts, commandId,
                       [status |-> "rejected",
                        resultSequence |-> readModel.snapshotSequence])
    /\ Reply("rejected", 0)
    /\ UNCHANGED <<log, projection, status, readModel, commandQueue, streams>>

RejectWithoutReceipt ==
    /\ "receipt" \in Faults
    /\ phase = "answer"
    /\ error = "invariant"
    /\ Reply("rejected", 0)
    /\ UNCHANGED <<database, status, readModel, commandQueue, streams>>

\* Mutant: a failure leaves the caller waiting.
FailSilently ==
    /\ phase = "answer"
    /\ error = "storage"
    /\ WorkerReset
    /\ UNCHANGED <<database, status, readModel, commandQueue, streams, answer>>

AnswerFailure ==
    /\ phase = "answer"
    /\ error = "storage"
    /\ Reply("failed", 0)
    /\ UNCHANGED <<database, status, readModel, commandQueue, streams>>

-----------------------------------------------------------------------------
(* The specification *)

WorkerStep ==
    \/ Take \/ ReceiptFound \/ ReceiptMissing \/ LookupFails
    \/ DecideRejects \/ DecideAccepts
    \/ AppendEvent \/ TransactionFails \/ Commit \/ CommitReportedAsFailed
    \/ AdoptReadModel \/ PublishEvent \/ Succeed
    \/ ReadPersistedEvents \/ FoldPersistedEvent \/ EndReconcile \/ ReconcileFails
    \/ RejectWithReceipt \/ RejectWithoutReceipt \/ AnswerFailure

Next ==
    \/ Start \/ Replay \/ Serve \/ Crash
    \/ \E c \in Calls : dispatch(c)
    \/ \E s \in Subscribers : streamDomainEvents(s) \/ GetSnapshot(s)
    \/ WorkerStep

\* The worker fiber runs forever and the database answers each statement.
Spec == Init /\ [][Next]_vars /\ WF_vars(WorkerStep)

-----------------------------------------------------------------------------
(* Properties *)

Statuses == {"down", "replaying", "running"}
Phases   == {"idle", "lookup", "decide", "transaction", "committed", "publish",
             "failed", "fold", "republish", "answer"}
Outcomes == {"none", "waiting", "ok", "failed", "rejected", "previouslyRejected", "lost"}
Receipts == [status : {"accepted", "rejected"}, resultSequence : Nat]

\* Numbering of the stored events, which the store's AUTOINCREMENT column gives.
Numbered(s, first) == \A i \in DOMAIN s : s[i].sequence = first + i

\* The variables have the types the code gives them, and an event's sequence is
\* its position in the log.
TypeOK ==
    /\ Numbered(log, 0)
    /\ \A i \in DOMAIN log : log[i].commandId \in CommandIds
    /\ DOMAIN receipts \subseteq CommandIds
    /\ \A id \in DOMAIN receipts : receipts[id] \in Receipts
    /\ projection \in Nat
    /\ status \in Statuses
    /\ readModel.snapshotSequence \in Nat
    /\ commandQueue \in Seq(Calls)
    /\ inbox \in [Subscribers -> Seq(Nat)]
    /\ subscribed \subseteq Subscribers
    /\ phase \in Phases
    /\ envelope \in Calls \cup {Null}
    /\ phase = "idle" <=> envelope = Null
    /\ dispatchStartSequence \in Nat
    /\ error \in {Null, "invariant", "storage"}
    /\ progress \in 0..Len(committedEvents)
    /\ answer \in [Calls -> [status : Outcomes, sequence : Nat]]

Accepted(id) == id \in DOMAIN receipts /\ receipts[id].status = "accepted"
Rejected(id) == id \in DOMAIN receipts /\ receipts[id].status = "rejected"

\* How many events a command of this identity appends.
EventCount(id) ==
    IF \E c \in Calls : CommandOf[c].commandId = id /\ CommandOf[c].type = "thread.turn.start"
      THEN 2 ELSE 1

\* Whatever is retried, crashes or fails, the events of a command are in the log
\* exactly once: next to each other, all of them, the last at the sequence its
\* receipt records; a command that was not accepted has left none.
ExactlyOnce ==
    \A id \in CommandIds :
        {i \in DOMAIN log : log[i].commandId = id} =
            IF Accepted(id)
              THEN (receipts[id].resultSequence - EventCount(id) + 1)
                      .. receipts[id].resultSequence
              ELSE {}

\* A caller is told that its command succeeded, and at which sequence, only as the
\* receipt says, and that it was rejected before only if no event of it exists.
AnswersMatchReceipts ==
    \A c \in Calls :
        LET id == CommandOf[c].commandId
        IN  /\ answer[c].status = "ok" =>
                  Accepted(id) /\ answer[c].sequence = receipts[id].resultSequence
            /\ answer[c].status = "previouslyRejected" => Rejected(id)
            /\ answer[c].status = "rejected" /\ "receipt" \notin Faults => Rejected(id)

\* The read model holds nothing that the database could still lose, and unless a
\* read back failed, the worker decides against every committed event.
DecidesOnWholeLog ==
    /\ readModel.snapshotSequence <= Len(log)
    /\ status = "running" /\ phase \in {"idle", "lookup", "decide", "transaction", "answer"}
         /\ "reconcile" \notin Faults
         => readModel.snapshotSequence = Len(log)

\* A subscriber hears of an event only when the read model and the SQL snapshot
\* it will consult both have it.
DeliveredIsVisible ==
    \A s \in Subscribers : \A i \in DOMAIN inbox[s] :
        inbox[s][i] <= readModel.snapshotSequence /\ inbox[s][i] <= projection

\* A subscriber that listens and then reads the snapshot misses nothing and hears
\* nothing twice: once the worker is idle, it has heard of every event past the
\* snapshot, in order.
SnapshotThenStreamIsComplete ==
    \A s \in Subscribers :
        /\ \A i \in 2..Len(inbox[s]) : inbox[s][i] = inbox[s][i - 1] + 1
        /\ phase = "idle" /\ snapshotAt[s] # Null /\ snapshotAt[s] < Len(log) =>
              /\ inbox[s] # <<>>
              /\ inbox[s][1] <= snapshotAt[s] + 1
              /\ LastOf(inbox[s]) = Len(log)

\* Events are never changed or dropped, and a receipt is final: neither a retry nor
\* a failure turns an accepted command into a rejected one or the other way round.
LogAndReceiptsAreFinal ==
    [][ /\ Len(log) <= Len(log')
        /\ \A i \in DOMAIN log : log'[i] = log[i]
        /\ \A id \in DOMAIN receipts : id \in DOMAIN receipts' /\ receipts'[id] = receipts[id]
      ]_vars

\* Every caller is answered, whatever fails, unless the process dies.
EveryCallIsAnswered ==
    \A c \in Calls : answer[c] = Waiting ~> answer[c] # Waiting

-----------------------------------------------------------------------------
(* The engine implements the abstract command log. *)

CommandOfId == [c \in Calls |-> CommandOf[c].commandId]

DecisionOf(id) ==
    CASE Accepted(id) -> [status |-> "accepted", sequence |-> receipts[id].resultSequence]
      [] Rejected(id) -> [status |-> "rejected", sequence |-> 0]
      [] OTHER        -> [status |-> "undecided", sequence |-> 0]

Abstract == INSTANCE CommandLog WITH
    IdOf <- CommandOfId,
    MaxEventsPerCommand <- 2,
    log <- [i \in DOMAIN log |-> log[i].commandId],
    decision <- [id \in CommandIds |-> DecisionOf(id)]

\* Seen by its callers, the engine with its queue, transactions, failed commits and
\* restarts is a log that decides each command once and atomically.
ImplementsCommandLog == Abstract!Spec
=============================================================================
