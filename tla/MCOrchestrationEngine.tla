------------------------- MODULE MCOrchestrationEngine -------------------------
(* Small instances of the orchestration engine for TLC. *)
EXTENDS OrchestrationEngineReplay

CONSTANTS p1, t1, m1, c1, c2, c3, c4, s1

CreateProject(id) == [type |-> "project.create", commandId |-> id, projectId |-> p1,
                      meta |-> "title"]
CreateThread(id)  == [type |-> "thread.create", commandId |-> id, projectId |-> p1,
                      threadId |-> t1, meta |-> "title", runtimeMode |-> "full-access",
                      interactionMode |-> "default"]
StartTurn(id)     == [type |-> "thread.turn.start", commandId |-> id, threadId |-> t1,
                      messageId |-> m1, text |-> <<"hi">>, sourceProposedPlan |-> Null]

\* A project, a retry of its creation and a second creation of the same project.
CreateTwice ==
    c1 :> CreateProject("A") @@ c2 :> CreateProject("A") @@ c3 :> CreateProject("B")

\* A project, its thread, and a turn start that is retried.
FirstTurn ==
    c1 :> CreateProject("A") @@ c2 :> CreateThread("B") @@
    c3 :> StartTurn("C") @@ c4 :> StartTurn("C")

AllFaults == FaultKinds
NoReconcileFault == FaultKinds \ {"reconcile"}
=============================================================================
