------------------------------- MODULE Projector -------------------------------
(***************************************************************************)
(* The in-memory read model of the orchestration server and the pure       *)
(* function that folds one domain event into it                            *)
(* (apps/server/src/orchestration/projector.ts).                           *)
(*                                                                         *)
(* A read model is a record                                                *)
(*   [snapshotSequence, projects, threads]                                 *)
(* whose arrays of entities with an id are functions from ids.  An event   *)
(* is a record with the fields sequence, type, commandId and those of its  *)
(* payload.  Time stamps are left out: createdAt orders entries as they    *)
(* arrived, archivedAt and deletedAt are Booleans.  Texts are sequences of *)
(* chunks.                                                                 *)
(***************************************************************************)
EXTENDS Arrays

CONSTANTS
    Null,                     \* the null of the source
    MAX_THREAD_MESSAGES,      \* caps on what the model keeps of a thread
    MAX_THREAD_CHECKPOINTS,
    MAX_THREAD_PLANS,
    MAX_THREAD_ACTIVITIES

ASSUME CapsAssumption ==
    /\ MAX_THREAD_MESSAGES \in Nat \ {0}
    /\ MAX_THREAD_CHECKPOINTS \in Nat \ {0}
    /\ MAX_THREAD_PLANS \in Nat \ {0}
    /\ MAX_THREAD_ACTIVITIES \in Nat \ {0}

-----------------------------------------------------------------------------
(* Helpers on records, maps and sequences of entries *)

\* {...record, ...patch}
Patch(record, patch) ==
    [x \in DOMAIN record \cup DOMAIN patch |->
        IF x \in DOMAIN patch THEN patch[x] ELSE record[x]]

\* map.set(key, value)
Put(map, key, value) ==
    [x \in DOMAIN map \cup {key} |-> IF x = key THEN value ELSE map[x]]

\* s.slice(-n)
KeepLast(s, n) == IF Len(s) <= n THEN s ELSE SubSeq(s, Len(s) - n + 1, Len(s))

\* The entries of s with a field id.
Ids(s) == {s[i].id : i \in DOMAIN s}

\* An entry replaces the one of its id, which keeps its createdAt and so its
\* place in the sorted array, or arrives last.
UpsertById(s, entry) ==
    IF entry.id \in Ids(s)
      THEN [i \in DOMAIN s |-> IF s[i].id = entry.id THEN entry ELSE s[i]]
      ELSE Append(s, entry)

\* A stable sort by checkpointTurnCount of s, sorted already, and one entry.
InsertByTurnCount(s, c) ==
    LET k == Cardinality({i \in DOMAIN s : s[i].checkpointTurnCount <= c.checkpointTurnCount})
    IN  SubSeq(s, 1, k) \o <<c>> \o SubSeq(s, k + 1, Len(s))

-----------------------------------------------------------------------------
(* Entities *)

createEmptyReadModel == [snapshotSequence |-> 0, projects |-> <<>>, threads |-> <<>>]

NewThread(event) ==
    [projectId       |-> event.projectId,
     meta            |-> event.meta,
     runtimeMode     |-> event.runtimeMode,
     interactionMode |-> event.interactionMode,
     latestTurn      |-> Null,
     archived        |-> FALSE,
     deleted         |-> FALSE,
     messages        |-> <<>>,
     proposedPlans   |-> <<>>,
     activities      |-> <<>>,
     checkpoints     |-> <<>>,
     session         |-> Null]

checkpointStatusToLatestTurnState(status) ==
    CASE status = "error"   -> "error"
      [] status = "missing" -> "interrupted"
      [] OTHER              -> "completed"

-----------------------------------------------------------------------------
(* thread.message-sent: append, or merge into the message of the same id. *)

MergedText(old, event) ==
    IF event.streaming THEN old \o event.text
    ELSE IF event.text # <<>> THEN event.text ELSE old

MessagesAfterSent(messages, event) ==
    LET merge(m) == [m EXCEPT !.text = MergedText(@, event),
                              !.streaming = event.streaming,
                              !.turnId = event.turnId]
        new == [id |-> event.messageId, role |-> event.role, text |-> event.text,
                turnId |-> event.turnId, streaming |-> event.streaming]
    IN  KeepLast(IF event.messageId \in Ids(messages)
                   THEN [i \in DOMAIN messages |->
                           IF messages[i].id = event.messageId THEN merge(messages[i])
                                                               ELSE messages[i]]
                   ELSE Append(messages, new),
                 MAX_THREAD_MESSAGES)

-----------------------------------------------------------------------------
(* thread.reverted: what survives a revert to turnCount. *)

\* A revert that kept fewer than turnCount messages of a role falls back on the
\* oldest ones that belong to no turn, or to a retained one.
FallbackIds(messages, role, retainedIds, retainedTurnIds, turnCount) ==
    LET retainedCount == Cardinality({i \in DOMAIN messages :
                            messages[i].role = role /\ messages[i].id \in retainedIds})
        candidates == Filter(messages, LAMBDA m :
                            /\ m.role = role
                            /\ m.id \notin retainedIds
                            /\ m.turnId = Null \/ m.turnId \in retainedTurnIds)
    IN  {candidates[i].id : i \in {j \in DOMAIN candidates : j <= turnCount - retainedCount}}

\* Shared by the read model and the SQL projection, which starts from more ids.
RetainMessages(messages, startIds, retainedTurnIds, turnCount) ==
    LET byTurn == startIds \cup
                  {messages[i].id : i \in {j \in DOMAIN messages :
                      \/ messages[j].role = "system"
                      \/ messages[j].turnId # Null /\ messages[j].turnId \in retainedTurnIds}}
        users      == FallbackIds(messages, "user", byTurn, retainedTurnIds, turnCount)
        assistants == FallbackIds(messages, "assistant", byTurn, retainedTurnIds, turnCount)
        retained   == byTurn \cup users \cup assistants
    IN  Filter(messages, LAMBDA m : m.id \in retained)

retainThreadMessagesAfterRevert(messages, retainedTurnIds, turnCount) ==
    RetainMessages(messages, {}, retainedTurnIds, turnCount)

\* Activities and proposed plans of no turn, or of a retained one.
RetainByTurn(entries, retainedTurnIds) ==
    Filter(entries, LAMBDA e : e.turnId = Null \/ e.turnId \in retainedTurnIds)

RevertPatch(thread, turnCount) ==
    LET checkpoints == Filter(thread.checkpoints,
                                 LAMBDA c : c.checkpointTurnCount <= turnCount)
        turnIds == {checkpoints[i].turnId : i \in DOMAIN checkpoints}
        latest  == checkpoints[Len(checkpoints)]
    IN  [checkpoints   |-> checkpoints,
         messages      |-> retainThreadMessagesAfterRevert(thread.messages, turnIds, turnCount),
         proposedPlans |-> RetainByTurn(thread.proposedPlans, turnIds),
         activities    |-> RetainByTurn(thread.activities, turnIds),
         latestTurn    |-> IF checkpoints = <<>> THEN Null
                           ELSE [turnId |-> latest.turnId,
                                 state  |-> checkpointStatusToLatestTurnState(latest.status),
                                 assistantMessageId |-> latest.assistantMessageId]]

-----------------------------------------------------------------------------
(* thread.session-set and thread.turn-diff-completed *)

SessionPatch(thread, session) ==
    LET sameTurn == thread.latestTurn # Null /\ thread.latestTurn.turnId = session.activeTurnId
    IN  [session    |-> session,
         latestTurn |-> IF session.status = "running" /\ session.activeTurnId # Null
                          THEN [turnId |-> session.activeTurnId, state |-> "running",
                                assistantMessageId |->
                                   IF sameTurn THEN thread.latestTurn.assistantMessageId ELSE Null]
                          ELSE thread.latestTurn]

\* A placeholder never replaces a checkpoint captured with a real git ref.
IsStalePlaceholder(thread, event) ==
    /\ event.status = "missing"
    /\ \E i \in DOMAIN thread.checkpoints :
          /\ thread.checkpoints[i].turnId = event.turnId
          /\ thread.checkpoints[i].status # "missing"

DiffPatch(thread, event) ==
    LET others == Filter(thread.checkpoints, LAMBDA c : c.turnId # event.turnId)
        checkpoint == [turnId |-> event.turnId, status |-> event.status,
                       checkpointTurnCount |-> event.checkpointTurnCount,
                       checkpointRef |-> event.checkpointRef,
                       assistantMessageId |-> event.assistantMessageId]
    IN  [checkpoints |-> KeepLast(InsertByTurnCount(others, checkpoint),
                                  MAX_THREAD_CHECKPOINTS),
         latestTurn  |-> [turnId |-> event.turnId,
                          state  |-> checkpointStatusToLatestTurnState(event.status),
                          assistantMessageId |-> event.assistantMessageId]]

-----------------------------------------------------------------------------
(* The switch of projectEvent *)

NoPatch == <<>>

\* The fields of a thread that an event of its own replaces.
ThreadPatch(thread, event) ==
    CASE event.type = "thread.deleted"          -> [deleted |-> TRUE]
      [] event.type = "thread.archived"         -> [archived |-> TRUE]
      [] event.type = "thread.unarchived"       -> [archived |-> FALSE]
      [] event.type = "thread.meta-updated"     -> [meta |-> event.meta]
      [] event.type = "thread.runtime-mode-set" -> [runtimeMode |-> event.runtimeMode]
      [] event.type = "thread.interaction-mode-set" ->
            [interactionMode |-> event.interactionMode]
      [] event.type = "thread.message-sent" ->
            [messages |-> MessagesAfterSent(thread.messages, event)]
      [] event.type = "thread.session-set" -> SessionPatch(thread, event.session)
      [] event.type = "thread.proposed-plan-upserted" ->
            [proposedPlans |-> KeepLast(UpsertById(thread.proposedPlans, event.proposedPlan),
                                        MAX_THREAD_PLANS)]
      [] event.type = "thread.turn-diff-completed" /\ ~IsStalePlaceholder(thread, event) ->
            DiffPatch(thread, event)
      [] event.type = "thread.reverted" -> RevertPatch(thread, event.turnCount)
      [] event.type = "thread.activity-appended" ->
            [activities |-> KeepLast(UpsertById(thread.activities, event.activity),
                                     MAX_THREAD_ACTIVITIES)]
      [] OTHER -> NoPatch

updateThread(model, event) ==
    IF event.threadId \in DOMAIN model.threads
      THEN [model EXCEPT !.threads[event.threadId] = Patch(@, ThreadPatch(@, event))]
      ELSE model

projectEvent(model, event) ==
    LET nextBase == [model EXCEPT !.snapshotSequence = event.sequence]
        hasProject == event.projectId \in DOMAIN model.projects
    IN  CASE event.type = "project.created" ->
               [nextBase EXCEPT !.projects =
                   Put(@, event.projectId, [meta |-> event.meta, deleted |-> FALSE])]
          [] event.type = "project.meta-updated" ->
               IF hasProject THEN [nextBase EXCEPT !.projects[event.projectId].meta = event.meta]
                             ELSE nextBase
          [] event.type = "project.deleted" ->
               IF hasProject THEN [nextBase EXCEPT !.projects[event.projectId].deleted = TRUE]
                             ELSE nextBase
          [] event.type = "thread.created" ->
               [nextBase EXCEPT !.threads = Put(@, event.threadId, NewThread(event))]
          [] OTHER -> updateThread(nextBase, event)
=============================================================================
