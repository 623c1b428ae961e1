-------------------------- MODULE MCProjectionPipeline --------------------------
(* Small instances of the projection pipeline for TLC. *)
EXTENDS ProjectionPipeline

CONSTANTS p1, t1, turn1, turn2, m1, m2, a1, a2, r1, plan1, cmd

Base(type) == [type |-> type, commandId |-> cmd, threadId |-> t1]

CreateProject == [type |-> "project.create", commandId |-> cmd, projectId |-> p1,
                  meta |-> "title"]
CreateThread == Patch(Base("thread.create"),
                      [projectId |-> p1, meta |-> "title", runtimeMode |-> "full-access",
                       interactionMode |-> "default"])

File(message) == [threadId |-> t1, id |-> message]

StartTurn(message) ==
    Patch(Base("thread.turn.start"),
          [messageId |-> message, text |-> <<message>>, sourceProposedPlan |-> Null,
           attachments |-> {File(message)}])
Running(turn) ==
    Patch(Base("thread.session.set"),
          [session |-> [status |-> "running", activeTurnId |-> turn]])
Delta(message, turn) ==
    Patch(Base("thread.message.assistant.delta"),
          [messageId |-> message, turnId |-> turn, text |-> <<"chunk">>])
Complete(message, turn) ==
    Patch(Base("thread.message.assistant.complete"), [messageId |-> message, turnId |-> turn])
Diff(turn, count, diffStatus, message) ==
    Patch(Base("thread.turn.diff.complete"),
          [turnId |-> turn, checkpointTurnCount |-> count, status |-> diffStatus,
           checkpointRef |-> IF diffStatus = "missing" THEN Null ELSE count,
           assistantMessageId |-> message])
Interrupt(turn) == Patch(Base("thread.turn.interrupt"), [turnId |-> turn])
Revert(count) == Patch(Base("thread.revert.complete"), [turnCount |-> count])
Plan(turn) == Patch(Base("thread.proposed-plan.upsert"),
                    [proposedPlan |-> [id |-> plan1, turnId |-> turn]])
Activity(kind, turn) ==
    Patch(Base("thread.activity.append"),
          [activity |-> [id |-> kind, kind |-> kind, turnId |-> turn, requestId |-> r1,
                         decision |-> "accept"]])
Respond == Patch(Base("thread.approval.respond"), [requestId |-> r1, decision |-> "decline"])

Set(type, field, value) == Patch(Base(type), field :> value)

\* A project and a thread with changed settings, then a turn that starts and runs, what
\* may happen to it, a second turn, late events of the first one, and reverts.
FirstTurnCommands ==
    {Delta(a1, turn1), Complete(a1, turn1), Diff(turn1, 1, "ready", a1), Interrupt(turn1)}
LaterCommands ==
    {StartTurn(m2), Running(turn2), Diff(turn2, 2, "ready", a2), Revert(0), Revert(1),
     Running(turn1), Delta(a1, turn1), Diff(turn1, 1, "error", a1), Plan(turn2)}
TurnCommands(n) ==
    CASE n = 0 -> {CreateProject}
      [] n = 1 -> {CreateThread}
      [] n = 2 -> {Set("thread.meta.update", "meta", "renamed")}
      [] n = 3 -> {Set("thread.runtime-mode.set", "runtimeMode", "approval-required")}
      [] n = 4 -> {Set("thread.interaction-mode.set", "interactionMode", "plan")}
      [] n = 5 -> {[CreateProject EXCEPT !.type = "project.meta.update", !.meta = "renamed"]}
      [] n = 6 -> {[CreateProject EXCEPT !.type = "project.delete"]}
      [] n = 7 -> {StartTurn(m1)}
      [] n = 9 -> {Running(turn1)}
      [] n \in 10..11 -> FirstTurnCommands
      [] OTHER -> LaterCommands

\* A thread with attachments, a plan and an approval, deleted, archived or reverted to its
\* beginning.
ThreadCommands ==
    {StartTurn(m1), Delta(a1, turn1), Plan(turn1), Respond, Revert(0),
     Activity("approval.requested", turn1), Activity("approval.resolved", turn1),
     Base("thread.delete"), Base("thread.archive"), Base("thread.unarchive")}
UpgradeCommands(n) ==
    CASE n = 0 -> {CreateProject}
      [] n = 1 -> {CreateThread}
      [] OTHER -> ThreadCommands

\* A version without these projectors made the database.
Earlier == ProjectorNames \ {"threadMessages", "threadProposedPlans", "pendingApprovals"}

\* A turn whose checkpoint a late placeholder follows.
PlaceholderCommands(n) ==
    CASE n = 0 -> {CreateProject}
      [] n = 1 -> {CreateThread}
      [] OTHER -> {Running(turn1), Diff(turn1, 1, "ready", a1), Diff(turn1, 1, "missing", a1)}

\* A turn with an attachment, a second one, and a revert of the first.
AttachmentCommands(n) ==
    CASE n = 0 -> {CreateProject}
      [] n = 1 -> {CreateThread}
      [] n = 2 -> {StartTurn(m1)}
      [] OTHER -> {StartTurn(m2), Revert(0)}

Everything == ProjectorNames
=============================================================================
