-------------------------------- MODULE Decider --------------------------------
(***************************************************************************)
(* The decision function of the orchestration engine: a command and the    *)
(* read model it is judged against give either a rejection or the events   *)
(* to append (apps/server/src/orchestration/decider.ts with                *)
(* commandInvariants.ts).                                                  *)
(*                                                                         *)
(* A command is a record with the fields type, commandId, projectId,       *)
(* threadId and those of its payload.  An event carries the payload of its *)
(* command; eventIds and time stamps are left out.  Note that no check     *)
(* looks at deletedAt: a deleted thread still counts as existing.          *)
(***************************************************************************)
EXTENDS Projector, TLC

requireProject(readModel, projectId) == projectId \in DOMAIN readModel.projects

requireProjectAbsent(readModel, projectId) == projectId \notin DOMAIN readModel.projects

requireThread(readModel, threadId) == threadId \in DOMAIN readModel.threads

requireThreadAbsent(readModel, threadId) == threadId \notin DOMAIN readModel.threads

requireThreadArchived(readModel, threadId) ==
    requireThread(readModel, threadId) /\ readModel.threads[threadId].archived

requireThreadNotArchived(readModel, threadId) ==
    requireThread(readModel, threadId) /\ ~readModel.threads[threadId].archived

\* The source of a turn that implements a proposed plan: the plan exists on its
\* thread, and that thread is of the same project.
SourcePlanUsable(readModel, command) ==
    LET source == command.sourceProposedPlan
    IN  source # Null =>
          /\ requireThread(readModel, source.threadId)
          /\ source.planId \in Ids(readModel.threads[source.threadId].proposedPlans)
          /\ readModel.threads[source.threadId].projectId
                = readModel.threads[command.threadId].projectId

-----------------------------------------------------------------------------
\* The event type of each command type, the last one for a turn start.
CommandEvents == {
    <<"project.create", "project.created">>,
    <<"project.meta.update", "project.meta-updated">>,
    <<"project.delete", "project.deleted">>,
    <<"thread.create", "thread.created">>,
    <<"thread.delete", "thread.deleted">>,
    <<"thread.archive", "thread.archived">>,
    <<"thread.unarchive", "thread.unarchived">>,
    <<"thread.meta.update", "thread.meta-updated">>,
    <<"thread.runtime-mode.set", "thread.runtime-mode-set">>,
    <<"thread.interaction-mode.set", "thread.interaction-mode-set">>,
    <<"thread.turn.start", "thread.turn-start-requested">>,
    <<"thread.turn.interrupt", "thread.turn-interrupt-requested">>,
    <<"thread.approval.respond", "thread.approval-response-requested">>,
    <<"thread.user-input.respond", "thread.user-input-response-requested">>,
    <<"thread.checkpoint.revert", "thread.checkpoint-revert-requested">>,
    <<"thread.session.stop", "thread.session-stop-requested">>,
    <<"thread.session.set", "thread.session-set">>,
    <<"thread.message.assistant.delta", "thread.message-sent">>,
    <<"thread.message.assistant.complete", "thread.message-sent">>,
    <<"thread.proposed-plan.upsert", "thread.proposed-plan-upserted">>,
    <<"thread.turn.diff.complete", "thread.turn-diff-completed">>,
    <<"thread.revert.complete", "thread.reverted">>,
    <<"thread.activity.append", "thread.activity-appended">>}

EventTypeOf ==
    [type \in {p[1] : p \in CommandEvents} |-> (CHOOSE p \in CommandEvents : p[1] = type)[2]]

\* The decider accepts command: the checks of its case of the switch hold.
Accepts(readModel, command) ==
    CASE command.type = "project.create" ->
            requireProjectAbsent(readModel, command.projectId)
      [] command.type \in {"project.meta.update", "project.delete"} ->
            requireProject(readModel, command.projectId)
      [] command.type = "thread.create" ->
            /\ requireProject(readModel, command.projectId)
            /\ requireThreadAbsent(readModel, command.threadId)
      [] command.type \in {"thread.delete", "thread.archive"} ->
            requireThreadNotArchived(readModel, command.threadId)
      [] command.type = "thread.unarchive" ->
            requireThreadArchived(readModel, command.threadId)
      [] command.type = "thread.turn.start" ->
            /\ requireThread(readModel, command.threadId)
            /\ SourcePlanUsable(readModel, command)
      [] OTHER -> requireThread(readModel, command.threadId)

-----------------------------------------------------------------------------
\* What the payload of an event adds to, or replaces in, that of its command.
PayloadPatch(readModel, command) ==
    CASE command.type = "thread.turn.start" ->
            [runtimeMode     |-> readModel.threads[command.threadId].runtimeMode,
             interactionMode |-> readModel.threads[command.threadId].interactionMode]
      [] command.type = "thread.message.assistant.delta" ->
            [role |-> "assistant", streaming |-> TRUE]
      [] command.type = "thread.message.assistant.complete" ->
            [role |-> "assistant", streaming |-> FALSE, text |-> <<>>]
      [] OTHER -> NoPatch

\* withEventBase and the payload; the store adds the sequence.
EventOf(readModel, command) ==
    Put(Patch(command, PayloadPatch(readModel, command)), "type", EventTypeOf[command.type])

\* The user's message, which a turn start appends before its own event.
UserMessageEvent(command) ==
    Patch(command, [type |-> "thread.message-sent", role |-> "user",
                    turnId |-> Null, streaming |-> FALSE])

\* The events an accepted command appends, in order.
decideOrchestrationCommand(readModel, command) ==
    IF command.type = "thread.turn.start"
      THEN <<UserMessageEvent(command), EventOf(readModel, command)>>
      ELSE <<EventOf(readModel, command)>>
=============================================================================
