--------------------------- MODULE ProjectionPipeline ---------------------------
(***************************************************************************)
(* The SQL projections of the event log and their bootstrap                *)
(* (apps/server/src/orchestration/Layers/ProjectionPipeline.ts, with the   *)
(* tables of persistence/Layers/Projection*.ts).                           *)
(*                                                                         *)
(* Nine projectors fold the same events into tables of their own, each     *)
(* with a cursor.  While the server runs, the transaction of a command     *)
(* projects its events through all of them: one step here, whose inside is *)
(* the subject of OrchestrationEngine.  At a start each projector catches  *)
(* up from its cursor on its own, one transaction per event, so it reads   *)
(* the other tables as of another event.  Attachment files are no part of  *)
(* any transaction.                                                        *)
(*                                                                         *)
(* Tables of rows of a thread map its id to them; a turn row without a     *)
(* turnId is a turn start that waits for its turn.                         *)
(***************************************************************************)
EXTENDS Decider, FiniteSetsExt

CONSTANTS
    Commands(_),          \* what may be dispatched once the log has so many events
    InitiallyInstalled,   \* the projectors of the version that made the database
    READ_LIMIT,           \* DEFAULT_READ_FROM_SEQUENCE_LIMIT
    MaxEvents,            \* bound on the log
    RollbackMayHappen,    \* whether a command's transaction may roll back
    UploadsInterleave     \* whether others may come between an upload and its command

\* In the order in which an event goes through them.
projectors == <<"projects", "threadMessages", "threadProposedPlans", "threadActivities",
                "threadSessions", "threadTurns", "checkpoints", "pendingApprovals", "threads">>

ProjectorNames == {projectors[i] : i \in DOMAIN projectors}

ASSUME ProjectionAssumption ==
    /\ InitiallyInstalled \subseteq ProjectorNames
    /\ READ_LIMIT \in Nat \ {0}
    /\ MaxEvents \in Nat
    /\ RollbackMayHappen \in BOOLEAN
    /\ UploadsInterleave \in BOOLEAN

EmptyTables == [projects |-> <<>>, threadMessages |-> <<>>, threadProposedPlans |-> <<>>,
                threadActivities |-> <<>>, threadSessions |-> <<>>, threadTurns |-> <<>>,
                pendingApprovals |-> <<>>, threads |-> <<>>]

-----------------------------------------------------------------------------
(* The rows of a thread *)

\* listByThreadId of the tables whose rows are in creation order.
RowsOf(table, threadId) == IF threadId \in DOMAIN table THEN table[threadId] ELSE <<>>

TurnsOf(tables, threadId) ==
    IF threadId \in DOMAIN tables.threadTurns THEN tables.threadTurns[threadId] ELSE {}

NewTurn(turnId) ==
    [turnId |-> turnId, state |-> "running", pendingMessageId |-> Null,
     assistantMessageId |-> Null, checkpointTurnCount |-> Null, checkpointStatus |-> Null,
     checkpointRef |-> Null]

IsPendingTurnStart(turn) ==
    turn.turnId = Null /\ turn.state = "pending" /\ turn.checkpointTurnCount = Null

\* Mutant: the turn reverted to is not kept.
TurnsBefore(turns, turnCount) ==
    {turn \in turns : /\ turn.turnId # Null
                      /\ turn.checkpointTurnCount # Null
                      /\ turn.checkpointTurnCount < turnCount}

KeptTurns(turns, turnCount) ==
    {turn \in turns : /\ turn.turnId # Null
                      /\ turn.checkpointTurnCount # Null
                      /\ turn.checkpointTurnCount <= turnCount}

\* getByTurnId, or the row that the projector makes when there is none.
TurnRow(turns, turnId) ==
    LET existing == {turn \in turns : turn.turnId = turnId}
    IN  IF existing = {} THEN NewTurn(turnId) ELSE CHOOSE turn \in existing : TRUE

upsertByTurnId(turns, row) == {turn \in turns : turn.turnId # row.turnId} \cup {row}

-----------------------------------------------------------------------------
(* threadTurns *)

replacePendingTurnStart(turns, event) ==
    {turn \in turns : ~IsPendingTurnStart(turn)}
      \cup {[NewTurn(Null) EXCEPT !.state = "pending", !.pendingMessageId = event.messageId]}

\* A turn that completed or failed does not run again.
\* Mutant: it does.
AlwaysRunning(state) == "running"

RunningState(state) == IF state \in {"completed", "error"} THEN state ELSE "running"

\* The session runs a turn: it takes over the turn start that waits.
TurnRuns(turns, turnId) ==
    LET pending == {turn \in turns : IsPendingTurnStart(turn)}
        messageId == IF pending = {} THEN Null ELSE (CHOOSE turn \in pending : TRUE).pendingMessageId
        row == TurnRow(turns, turnId)
    IN  upsertByTurnId(turns \ pending,
            [row EXCEPT !.state = RunningState(@),
                        !.pendingMessageId = IF @ # Null THEN @ ELSE messageId])

AssistantMessageSent(turns, event) ==
    upsertByTurnId(turns,
        [TurnRow(turns, event.turnId) EXCEPT
            !.assistantMessageId = event.messageId,
            !.state = IF event.streaming \/ @ \in {"interrupted", "error"} THEN @
                      ELSE "completed"])

TurnInterrupted(turns, event) ==
    upsertByTurnId(turns, [TurnRow(turns, event.turnId) EXCEPT !.state = "interrupted"])

\* Two turns never hold a checkpoint of the same count: the last one keeps it.
clearCheckpointTurnConflict(turns, event) ==
    {IF turn.turnId # event.turnId /\ turn.checkpointTurnCount = event.checkpointTurnCount
       THEN [turn EXCEPT !.checkpointTurnCount = Null, !.checkpointStatus = Null,
                         !.checkpointRef = Null]
       ELSE turn : turn \in turns}

TurnDiffCompleted(turns, event) ==
    LET row == TurnRow(turns, event.turnId)
    IN  upsertByTurnId(clearCheckpointTurnConflict(turns, event),
            [row EXCEPT !.assistantMessageId  = event.assistantMessageId,
                        !.state               = IF event.status = "error" THEN "error"
                                                ELSE "completed",
                        !.checkpointTurnCount = event.checkpointTurnCount,
                        !.checkpointStatus    = event.status,
                        !.checkpointRef       = event.checkpointRef])

\* Mutant: a revert leaves the turn start that waits.
RevertCompletedTurns(turns, event) ==
    KeptTurns(turns, event.turnCount) \cup {turn \in turns : IsPendingTurnStart(turn)}

TurnsReverted(turns, event) == KeptTurns(turns, event.turnCount)

TurnsAfter(turns, event) ==
    CASE event.type = "thread.turn-start-requested" -> replacePendingTurnStart(turns, event)
      [] event.type = "thread.session-set"
           /\ event.session.status = "running" /\ event.session.activeTurnId # Null ->
            TurnRuns(turns, event.session.activeTurnId)
      [] event.type = "thread.message-sent"
           /\ event.role = "assistant" /\ event.turnId # Null ->
            AssistantMessageSent(turns, event)
      [] event.type = "thread.turn-interrupt-requested" /\ event.turnId # Null ->
            TurnInterrupted(turns, event)
      [] event.type = "thread.turn-diff-completed" -> TurnDiffCompleted(turns, event)
      [] event.type = "thread.reverted" -> TurnsReverted(turns, event)
      [] OTHER -> turns

-----------------------------------------------------------------------------
(* threadMessages, threadProposedPlans, threadActivities *)

RetainedTurnIds(turns, turnCount) == {turn.turnId : turn \in KeptTurns(turns, turnCount)}

\* Besides what the read model keeps: the messages that kept turns point to.
retainProjectionMessagesAfterRevert(messages, turns, turnCount) ==
    LET kept == KeptTurns(turns, turnCount)
        pointedTo == {turn.pendingMessageId : turn \in kept}
                       \cup {turn.assistantMessageId : turn \in kept}
    IN  RetainMessages(messages, pointedTo, RetainedTurnIds(turns, turnCount), turnCount)

\* Mutant: a chunk replaces the text before it.
ReplacedText(old, event) == event.text

RowText(old, event) == MergedText(old, event)

MessageRow(messages, event) ==
    LET old == CHOOSE i \in DOMAIN messages : messages[i].id = event.messageId
        exists == event.messageId \in Ids(messages)
    IN  [id |-> event.messageId, role |-> event.role, turnId |-> event.turnId,
         streaming |-> event.streaming,
         text |-> IF exists THEN RowText(messages[old].text, event) ELSE event.text,
         attachments |-> IF "attachments" \in DOMAIN event THEN event.attachments
                         ELSE IF exists THEN messages[old].attachments ELSE {}]

MessagesAfter(messages, turns, event) ==
    CASE event.type = "thread.message-sent" -> UpsertById(messages, MessageRow(messages, event))
      [] event.type = "thread.reverted" ->
            retainProjectionMessagesAfterRevert(messages, turns, event.turnCount)
      [] OTHER -> messages

PlansAfter(plans, turns, event) ==
    CASE event.type = "thread.proposed-plan-upserted" -> UpsertById(plans, event.proposedPlan)
      [] event.type = "thread.reverted" ->
            RetainByTurn(plans, RetainedTurnIds(turns, event.turnCount))
      [] OTHER -> plans

ActivitiesAfter(activities, turns, event) ==
    CASE event.type = "thread.activity-appended" -> UpsertById(activities, event.activity)
      [] event.type = "thread.reverted" ->
            RetainByTurn(activities, RetainedTurnIds(turns, event.turnCount))
      [] OTHER -> activities

-----------------------------------------------------------------------------
(* pendingApprovals *)

Resolved(approvals, requestId, fallback, decision) ==
    LET row == IF requestId \in DOMAIN approvals THEN approvals[requestId] ELSE fallback
    IN  Put(approvals, requestId, [row EXCEPT !.status = "resolved", !.decision = decision])

IsResolved(approvals, requestId) ==
    requestId \in DOMAIN approvals /\ approvals[requestId].status = "resolved"

\* Mutant: a request that comes late opens a resolved approval again.
RequestedAgain(approvals, requestId, pending) == Put(approvals, requestId, pending)

Requested(approvals, requestId, pending) ==
    IF IsResolved(approvals, requestId) THEN approvals ELSE Put(approvals, requestId, pending)

ApprovalsAfter(approvals, event) ==
    LET Pending(turnId) == [threadId |-> event.threadId, turnId |-> turnId,
                            status |-> "pending", decision |-> Null]
    IN  CASE event.type = "thread.approval-response-requested" ->
               Resolved(approvals, event.requestId, Pending(Null), event.decision)
          [] event.type = "thread.activity-appended" /\ event.activity.requestId # Null ->
               LET requestId == event.activity.requestId
               IN  IF event.activity.kind = "approval.resolved"
                     THEN Resolved(approvals, requestId, Pending(event.activity.turnId),
                                   event.activity.decision)
                   ELSE IF event.activity.kind = "approval.requested"
                     THEN Requested(approvals, requestId, Pending(event.activity.turnId))
                   ELSE approvals
          [] OTHER -> approvals

-----------------------------------------------------------------------------
(* projects, threads *)

ProjectsAfter(projects, event) ==
    CASE event.type = "project.created" ->
            Put(projects, event.projectId, [meta |-> event.meta, deleted |-> FALSE])
      [] event.type = "project.meta-updated" /\ event.projectId \in DOMAIN projects ->
            [projects EXCEPT ![event.projectId].meta = event.meta]
      [] event.type = "project.deleted" /\ event.projectId \in DOMAIN projects ->
            [projects EXCEPT ![event.projectId].deleted = TRUE]
      [] OTHER -> projects

NewThreadRow(event) ==
    [projectId |-> event.projectId, meta |-> event.meta, runtimeMode |-> event.runtimeMode,
     interactionMode |-> event.interactionMode, latestTurnId |-> Null,
     archived |-> FALSE, deleted |-> FALSE]

ThreadRowPatch(event) ==
    CASE event.type = "thread.meta-updated"     -> [meta |-> event.meta]
      [] event.type = "thread.runtime-mode-set" -> [runtimeMode |-> event.runtimeMode]
      [] event.type = "thread.interaction-mode-set" ->
            [interactionMode |-> event.interactionMode]
      [] event.type = "thread.deleted"          -> [deleted |-> TRUE]
      [] event.type = "thread.archived"         -> [archived |-> TRUE]
      [] event.type = "thread.unarchived"       -> [archived |-> FALSE]
      [] event.type = "thread.session-set"      -> [latestTurnId |-> event.session.activeTurnId]
      [] event.type = "thread.turn-diff-completed" -> [latestTurnId |-> event.turnId]
      [] event.type = "thread.reverted"         -> [latestTurnId |-> Null]
      [] OTHER                                  -> NoPatch

ThreadsAfter(threads, event) ==
    IF event.type = "thread.created" THEN Put(threads, event.threadId, NewThreadRow(event))
    ELSE IF event.threadId \in DOMAIN threads
      THEN [threads EXCEPT ![event.threadId] = Patch(@, ThreadRowPatch(event))]
    ELSE threads

-----------------------------------------------------------------------------
(* One event through one projector, and through all of them *)

OfThread(event) == "threadId" \in DOMAIN event

ApplyToThread(projector, tables, event) ==
    LET t == event.threadId
        turns == TurnsOf(tables, t)
    IN  CASE projector = "threadMessages" ->
               [tables EXCEPT !.threadMessages =
                   Put(@, t, MessagesAfter(RowsOf(@, t), turns, event))]
          [] projector = "threadProposedPlans" ->
               [tables EXCEPT !.threadProposedPlans =
                   Put(@, t, PlansAfter(RowsOf(@, t), turns, event))]
          [] projector = "threadActivities" ->
               [tables EXCEPT !.threadActivities =
                   Put(@, t, ActivitiesAfter(RowsOf(@, t), turns, event))]
          [] projector = "threadSessions" /\ event.type = "thread.session-set" ->
               [tables EXCEPT !.threadSessions = Put(@, t, event.session)]
          [] projector = "threadTurns" ->
               [tables EXCEPT !.threadTurns = Put(@, t, TurnsAfter(turns, event))]
          [] projector = "pendingApprovals" ->
               [tables EXCEPT !.pendingApprovals = ApprovalsAfter(@, event)]
          [] projector = "threads" -> [tables EXCEPT !.threads = ThreadsAfter(@, event)]
          [] OTHER -> tables

apply(projector, tables, event) ==
    CASE projector = "projects" -> [tables EXCEPT !.projects = ProjectsAfter(@, event)]
      [] projector # "projects" /\ OfThread(event) -> ApplyToThread(projector, tables, event)
      [] OTHER -> tables

AttachmentsOf(messages, threadId) ==
    {file \in UNION {messages[i].attachments : i \in DOMAIN messages} : file.threadId = threadId}

\* Mutant: a revert removes every file of its thread.
FilesOfThread(store, kept, threadId) == {file \in store : file.threadId = threadId}

\* The files of a thread that none of its messages refers to.
Unreferenced(store, kept, threadId) ==
    {file \in store : file.threadId = threadId /\ file \notin AttachmentsOf(kept, threadId)}

\* The files that runAttachmentSideEffects removes once the projector is done.
AttachmentSideEffects(projector, tables, event, files) ==
    CASE projector = "threads" /\ event.type = "thread.deleted" ->
            {file \in files : file.threadId = event.threadId}
      [] projector = "threadMessages" /\ event.type = "thread.reverted" ->
            LET existing == RowsOf(tables.threadMessages, event.threadId)
                kept == retainProjectionMessagesAfterRevert(existing,
                           TurnsOf(tables, event.threadId), event.turnCount)
            IN  IF Len(kept) = Len(existing) THEN {}
                ELSE Unreferenced(files, kept, event.threadId)
      [] OTHER -> {}

\* Mutant: the cursor is not part of the transaction.
ProjectWithoutCursor(store, projector, event) ==
    [tables |-> apply(projector, store.tables, event),
     cursor |-> store.cursor,
     files  |-> store.files \ AttachmentSideEffects(projector, store.tables, event, store.files)]

\* The parts of a database and its files that projecting changes.
runProjectorForEvent(store, projector, event) ==
    [tables |-> apply(projector, store.tables, event),
     cursor |-> [store.cursor EXCEPT ![projector] = event.sequence],
     files  |-> store.files \ AttachmentSideEffects(projector, store.tables, event, store.files)]

\* Those of the first n projectors that are installed take an event, one after another.
projectThrough(store, names, event, n) ==
    LET stores[i \in 0..n] ==
            IF i = 0 THEN store
            ELSE IF projectors[i] \in names
              THEN runProjectorForEvent(stores[i - 1], projectors[i], event)
            ELSE stores[i - 1]
    IN  stores[n]

\* The first m events go through all of them.
ProjectAll(store, names, events, m) ==
    LET stores[i \in 0..m] ==
            IF i = 0 THEN store
            ELSE projectThrough(stores[i - 1], names, events[i], Len(projectors))
    IN  stores[m]

\* The engine folds events into its read model.
projectEvents(model, events) ==
    LET models[i \in 0..Len(events)] ==
            IF i = 0 THEN model ELSE projectEvent(models[i - 1], events[i])
    IN  models[Len(events)]

-----------------------------------------------------------------------------
(* The server *)

VARIABLES
    log, tables, cursor,   \* the database
    files,                 \* the attachments on disk
    uploaded,              \* those written for commands that are not dispatched yet
    installed,             \* the projectors this version has
    status,                \* "down", "bootstrapping" or "running"
    bootstrap,             \* the projector that catches up and how much it may still read
    sideEffects,           \* files its last event removes, after the commit
    readModel,
    replayed               \* history variable: what today's projectors make of the log

database == <<log, tables, cursor>>
vars == <<database, files, uploaded, installed, status, bootstrap, sideEffects, readModel, replayed>>

NothingProjected ==
    [tables |-> EmptyTables, cursor |-> [p \in ProjectorNames |-> 0], files |-> {}]

NoBootstrap == [projector |-> 0, left |-> 0]

Init ==
    /\ log = <<>>
    /\ tables = EmptyTables
    /\ cursor = [projector \in ProjectorNames |-> 0]
    /\ files = {}
    /\ uploaded = {}
    /\ installed = InitiallyInstalled
    /\ status = "down"
    /\ bootstrap = NoBootstrap
    /\ sideEffects = {}
    /\ readModel = createEmptyReadModel
    /\ replayed = NothingProjected

\* The files that normalizeDispatchCommand writes before it dispatches a turn start.
Attachments(command) == IF "attachments" \in DOMAIN command THEN command.attachments ELSE {}

\* What the contracts say of commands: they are about a project or about a thread, a turn
\* starts with a message, and a diff is that of a turn.
ASSUME CommandsAssumption ==
    \A n \in 0..MaxEvents : \A command \in Commands(n) :
        /\ command.type \in DOMAIN EventTypeOf
        /\ OfThread(command)
              <=> command.type \notin {"project.create", "project.meta.update", "project.delete"}
        /\ command.type = "thread.turn.start" => "messageId" \in DOMAIN command
        /\ command.type = "thread.turn.diff.complete"
              => "turnId" \in DOMAIN command /\ command.turnId # Null

\* Mutant: the sequence of an event starts at zero.
EventsFromZero(command) ==
    LET bases == decideOrchestrationCommand(readModel, command)
    IN  [i \in DOMAIN bases |-> Put(bases[i], "sequence", Len(log) + i - 1)]

EventsOf(command) ==
    LET bases == decideOrchestrationCommand(readModel, command)
    IN  [i \in DOMAIN bases |-> Put(bases[i], "sequence", Len(log) + i)]

Before(command) ==
    [tables |-> tables, cursor |-> cursor,
     files  |-> files \cup (Attachments(command) \ uploaded)]

CanDispatch(command) ==
    /\ status = "running"
    /\ Accepts(readModel, command)
    /\ Len(log) + Len(EventsOf(command)) <= MaxEvents

Upload(command) ==
    /\ UploadsInterleave
    /\ status = "running"
    /\ ~(Attachments(command) \subseteq uploaded)
    /\ files' = files \cup Attachments(command)
    /\ uploaded' = uploaded \cup Attachments(command)
    /\ UNCHANGED <<database, installed, status, bootstrap, sideEffects, readModel, replayed>>

\* The transaction of a command commits.
dispatch(command) ==
    /\ CanDispatch(command)
    /\ LET events == EventsOf(command)
           after == ProjectAll(Before(command), installed, events, Len(events))
       IN  /\ log' = log \o events
           /\ tables' = after.tables
           /\ cursor' = after.cursor
           /\ files' = after.files
           /\ readModel' = projectEvents(readModel, events)
           /\ replayed' = ProjectAll(replayed, ProjectorNames, events, Len(events))
    /\ uploaded' = uploaded \ Attachments(command)
    /\ UNCHANGED <<installed, status, bootstrap, sideEffects>>

\* It rolls back after some runs of projectors, whose files are gone.
DispatchRolledBack(command) ==
    /\ RollbackMayHappen
    /\ CanDispatch(command)
    /\ LET events == EventsOf(command)
       IN  \E m \in DOMAIN events, n \in DOMAIN projectors :
              files' = projectThrough(ProjectAll(Before(command), installed, events, m - 1),
                                      installed, events[m], n).files
    /\ uploaded' = uploaded \ Attachments(command)
    /\ UNCHANGED <<database, installed, status, bootstrap, sideEffects, readModel, replayed>>

Crash ==
    /\ status # "down"
    /\ status' = "down"
    /\ bootstrap' = NoBootstrap
    /\ sideEffects' = {}
    /\ uploaded' = {}
    /\ readModel' = createEmptyReadModel
    /\ UNCHANGED <<database, files, installed, replayed>>

\* A version with all of today's projectors takes over the database.
Upgrade ==
    /\ status = "down"
    /\ installed # ProjectorNames
    /\ installed' = ProjectorNames
    /\ UNCHANGED <<database, files, uploaded, status, bootstrap, sideEffects, readModel, replayed>>

-----------------------------------------------------------------------------
(* bootstrap *)

\* The first installed projector, from the i-th on, that has anything to read.
FirstBehind(i) ==
    Min({j \in i..Len(projectors) : projectors[j] \in installed /\ cursor[projectors[j]] < Len(log)}
           \cup {Len(projectors) + 1})

Start ==
    /\ status = "down"
    /\ status' = "bootstrapping"
    /\ bootstrap' = [projector |-> FirstBehind(1), left |-> READ_LIMIT]
    /\ UNCHANGED <<database, files, uploaded, installed, sideEffects, readModel, replayed>>

Bootstrapping ==
    /\ status = "bootstrapping"
    /\ bootstrap.projector <= Len(projectors)

\* The next event of readFromSequence from the projector's cursor.
BootstrapEvent ==
    /\ Bootstrapping
    /\ sideEffects = {}
    /\ LET projector == projectors[bootstrap.projector]
           event == log[cursor[projector] + 1]
           after == runProjectorForEvent([tables |-> tables, cursor |-> cursor, files |-> files],
                                         projector, event)
       IN  /\ cursor[projector] < Len(log)
           /\ bootstrap.left > 0
           /\ tables' = after.tables
           /\ cursor' = after.cursor
           /\ sideEffects' = files \ after.files
    /\ bootstrap' = [bootstrap EXCEPT !.left = @ - 1]
    /\ UNCHANGED <<log, files, uploaded, installed, status, readModel, replayed>>

RunAttachmentSideEffects ==
    /\ sideEffects # {}
    /\ files' = files \ sideEffects
    /\ sideEffects' = {}
    /\ UNCHANGED <<database, uploaded, installed, status, bootstrap, readModel, replayed>>

\* Mutant: the next projector waits for a full batch.
NextProjectorAfterFullBatch ==
    /\ Bootstrapping
    /\ sideEffects = {}
    /\ bootstrap.left = 0
    /\ bootstrap' = [projector |-> FirstBehind(bootstrap.projector + 1), left |-> READ_LIMIT]
    /\ UNCHANGED <<database, files, uploaded, installed, status, sideEffects, readModel, replayed>>

\* The stream of the projector has ended.
NextProjector ==
    /\ Bootstrapping
    /\ sideEffects = {}
    /\ bootstrap.left = 0 \/ cursor[projectors[bootstrap.projector]] = Len(log)
    /\ bootstrap' = [projector |-> FirstBehind(bootstrap.projector + 1), left |-> READ_LIMIT]
    /\ UNCHANGED <<database, files, uploaded, installed, status, sideEffects, readModel, replayed>>

\* The engine folds the whole log into its read model and serves.
Serve ==
    /\ status = "bootstrapping"
    /\ bootstrap.projector > Len(projectors)
    /\ status' = "running"
    /\ bootstrap' = NoBootstrap
    /\ readModel' = projectEvents(createEmptyReadModel, log)
    /\ UNCHANGED <<database, files, uploaded, installed, sideEffects, replayed>>

BootstrapStep == BootstrapEvent \/ RunAttachmentSideEffects \/ NextProjector \/ Serve

Next ==
    \/ \E command \in Commands(Len(log)) : Upload(command) \/ dispatch(command) \/ DispatchRolledBack(command)
    \/ Crash \/ Upgrade \/ Start \/ BootstrapStep

\* Nothing a bootstrap does waits for anybody.
Spec == Init /\ [][Next]_vars /\ WF_vars(BootstrapStep)

-----------------------------------------------------------------------------
(* Properties *)

TurnStates == {"pending", "running", "interrupted", "completed", "error"}

\* The tables have rows of the shapes the code gives them, and no cursor or table
\* runs ahead of the log.
TypeOK ==
    /\ \A i \in DOMAIN log : log[i].sequence = i
    /\ DOMAIN tables = DOMAIN EmptyTables
    /\ \A t \in DOMAIN tables.threadTurns : \A turn \in tables.threadTurns[t] :
          turn.state \in TurnStates /\ (turn.state = "pending" => turn.turnId = Null)
    /\ cursor \in [ProjectorNames -> 0..Len(log)]
    /\ installed \subseteq ProjectorNames
    /\ status \in {"down", "bootstrapping", "running"}
    /\ bootstrap.projector \in 0..(Len(projectors) + 1)
    /\ bootstrap.left \in 0..READ_LIMIT
    /\ sideEffects \subseteq files
    /\ UploadsInterleave \/ uploaded = {}
    /\ readModel.snapshotSequence \in 0..Len(log)

UpToDate == status = "running" /\ installed = ProjectorNames

\* While the server runs, every table is what replaying the log from its beginning
\* gives: a bootstrap that crashes and resumes applies each event to each table
\* once, and leaves none out, whichever projectors the database came with.
TablesAreReplay == UpToDate => tables = replayed.tables /\ cursor = replayed.cursor

\* The snapshot that getSnapshot assembles of a thread's rows.
SnapshotMessages(t) ==
    LET rows == RowsOf(tables.threadMessages, t)
    IN  [i \in DOMAIN rows |-> [id |-> rows[i].id, role |-> rows[i].role, text |-> rows[i].text,
                                turnId |-> rows[i].turnId, streaming |-> rows[i].streaming]]

SnapshotCheckpoints(t) ==
    {[turnId |-> turn.turnId, status |-> turn.checkpointStatus,
      checkpointTurnCount |-> turn.checkpointTurnCount,
      checkpointRef |-> turn.checkpointRef,
      assistantMessageId |-> turn.assistantMessageId] :
        turn \in {u \in TurnsOf(tables, t) : u.checkpointTurnCount # Null}}

SnapshotSession(t) ==
    IF t \in DOMAIN tables.threadSessions THEN tables.threadSessions[t] ELSE Null

\* Clients read the tables, the server decides against its read model: both tell the
\* same of every project and thread, although each folds the events in its own way.
SqlAgreesWithReadModel ==
    UpToDate =>
        /\ tables.projects = readModel.projects
        /\ DOMAIN tables.threads = DOMAIN readModel.threads
        /\ \A t \in DOMAIN readModel.threads :
              LET row == tables.threads[t]
                  thread == readModel.threads[t]
              IN  /\ \A field \in {"projectId", "meta", "runtimeMode", "interactionMode",
                                   "archived", "deleted"} : row[field] = thread[field]
                  /\ SnapshotMessages(t) = thread.messages
                  /\ RowsOf(tables.threadProposedPlans, t) = thread.proposedPlans
                  /\ RowsOf(tables.threadActivities, t) = thread.activities
                  /\ SnapshotSession(t) = thread.session

\* Clients offer to revert to the checkpoints of the tables, the server resolves them
\* in its read model: both have the same ones.
CheckpointsAgree ==
    UpToDate => \A t \in DOMAIN readModel.threads :
        LET checkpoints == readModel.threads[t].checkpoints
        IN  SnapshotCheckpoints(t) = {checkpoints[i] : i \in DOMAIN checkpoints}

\* A turn remembers the user's message that started it, and that message is there,
\* also after reverts that delete messages and turns.
PendingMessagesExist ==
    UpToDate => \A t \in DOMAIN tables.threadTurns : \A turn \in tables.threadTurns[t] :
        turn.pendingMessageId # Null =>
            turn.pendingMessageId \in Ids(RowsOf(tables.threadMessages, t))

\* The attachments of the messages of a thread that is not deleted are on disk, unless
\* a rollback restored rows whose files were removed.
FilesOutliveRows ==
    UpToDate => \A t \in DOMAIN tables.threads :
        ~tables.threads[t].deleted =>
            AttachmentsOf(RowsOf(tables.threadMessages, t), t) \subseteq files

\* An approval that was resolved is never asked for again, in whatever order the
\* provider's activities and the user's answer arrive and however often they are replayed.
ApprovalsStayResolved ==
    [][\A requestId \in DOMAIN tables.pendingApprovals :
          IsResolved(tables.pendingApprovals, requestId)
             => IsResolved(tables'.pendingApprovals, requestId)]_vars

Finished(turn) == turn.state \in {"completed", "error"}

\* What may take back that a turn has finished: an interrupt of it, or a revert.
TakesBack(event, turnId) ==
    \/ event.type = "thread.reverted"
    \/ event.type = "thread.turn-interrupt-requested" /\ event.turnId = turnId

\* A turn that completed or failed stays so until an interrupt of it or a revert of its
\* thread is projected: no late session update or message chunk, no other turn, no second
\* checkpoint and no resumed bootstrap reopens it.  After an interrupt a running session does.
FinishedTurnsStayFinished ==
    [][\A t \in DOMAIN tables.threadTurns : \A turn \in tables.threadTurns[t] :
          Finished(turn) =>
             \/ \E after \in TurnsOf(tables', t) :
                   after.turnId = turn.turnId /\ Finished(after)
             \/ \E i \in (cursor["threadTurns"] + 1)..cursor'["threadTurns"] :
                   /\ OfThread(log'[i]) /\ log'[i].threadId = t
                   /\ TakesBack(log'[i], turn.turnId)]_vars

\* A start ends: the bootstrap reaches the point where the server serves.
StartsEnd == status = "bootstrapping" ~> status # "bootstrapping"
=============================================================================
