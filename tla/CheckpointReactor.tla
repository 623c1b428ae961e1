---------------------------- MODULE CheckpointReactor ----------------------------
(***************************************************************************)
(* The checkpoints of one thread in a git workspace: the reactor that      *)
(* captures the files at the turns' ends and restores them on a revert     *)
(* (apps/server/src/orchestration/Layers/CheckpointReactor.ts), the git    *)
(* refs it keeps (checkpointing/Layers/CheckpointStore.ts), and the        *)
(* placeholders that ProviderRuntimeIngestion.ts dispatches beside it.     *)
(*                                                                         *)
(* Four things must stay in step: the files, the git refs, the provider's  *)
(* conversation and the checkpoints of the read model, which are those of  *)
(* Projector.  The ingestion and the reactor each work on a queue of their *)
(* own; the reactor takes from two streams, whose events it meets in any   *)
(* order between the two.  The commands of both are accepted always        *)
(* (Decider: the thread exists) and take effect when they are dispatched.  *)
(*                                                                         *)
(* A workspace is the set of the edits <<turn, k>> in it.  The ref of a    *)
(* turn count is that number, the ref of a placeholder, "provider-diff:",  *)
(* which git never knows, is Null.  Turns are numbered as they start.      *)
(*                                                                         *)
(* Not here: a crash, which loses the queues and leaves a revert half      *)
(* done; the capture's diff, whose failure only empties a list of files;   *)
(* commits of the user.                                                    *)
(***************************************************************************)
EXTENDS Projector

CONSTANTS
    MaxTurns, MaxEdits,     \* turns, and edits of the workspace in all of them
    EndStates,              \* how turns end
    MaxReverts,             \* reverts the user asks for
    MaxFailures,            \* git and provider calls that fail
    MaxBacklog              \* inputs that wait when the user or the provider goes on

ASSUME CheckpointAssumption ==
    /\ MaxTurns \in Nat
    /\ Null \notin Nat

Turns == 1..MaxTurns
HeadFiles == {}             \* the commit the workspace started from

Idle == [step |-> "idle"]
NoEvent == [type |-> "none"]

VARIABLES
    thread,          \* the thread in the read model
    files,           \* the workspace
    refs,            \* git: the files of each checkpoint ref, by turn count
    lost,            \* the stale refs of reverts that broke off: git may not have them
    conversation,    \* the provider's turns
    running,         \* the turn it works on, or Null
    requested,       \* a turn start is on its way to it
    edits,           \* the edits of each turn so far
    reported,        \* for each turn, its edits at its first turn.diff.updated, or 0
    ingestQueue,     \* runtime events before the ingestion
    placeholder,     \* the event of its placeholder about to be dispatched, or NoEvent
    domainQueue,     \* domain events and runtime events before the reactor
    runtimeQueue,
    job,             \* what the reactor is in the middle of, or Idle
    asked,           \* reverts asked for, and those that ended
    answered,
    failures,
    disturbed        \* the user went on before the reactor was done or over a revert that
                     \* broke off, the provider before the baseline was captured, or a
                     \* capture failed

user     == <<asked, requested, disturbed>>
provider == <<running, conversation, edits, reported, files>>
queues   == <<ingestQueue, domainQueue, runtimeQueue>>
vars == <<user, provider, queues, thread, refs, lost, placeholder, job, answered, failures>>

-----------------------------------------------------------------------------
(* Reading a thread *)

Counts(t) == {t.checkpoints[i].checkpointTurnCount : i \in DOMAIN t.checkpoints}

currentTurnCount(t) == CHOOSE n \in Counts(t) \cup {0} : \A c \in Counts(t) : c <= n

CheckpointsOf(t, turn) ==
    {t.checkpoints[i] : i \in {j \in DOMAIN t.checkpoints : t.checkpoints[j].turnId = turn}}

HasRealCheckpoint(t, turn) == \E c \in CheckpointsOf(t, turn) : c.status # "missing"

checkpointStatusFromRuntime(state) ==
    CASE state = "failed"      -> "error"
      [] state = "interrupted" -> "missing"
      [] OTHER                 -> "ready"

\* Mutant: the count of a placeholder is not used again.
CountAfterAll(t, turn) == currentTurnCount(t) + 1

\* The count of a placeholder is used again.
nextTurnCount(t, turn) ==
    IF CheckpointsOf(t, turn) = {} THEN currentTurnCount(t) + 1
    ELSE (CHOOSE c \in CheckpointsOf(t, turn) : TRUE).checkpointTurnCount

\* The ref that a revert to turnCount restores, Null for none.
targetCheckpointRef(t, turnCount) ==
    LET found == {i \in DOMAIN t.checkpoints :
                    t.checkpoints[i].checkpointTurnCount = turnCount}
    IN  IF turnCount = 0 THEN 0
        ELSE IF found = {} THEN Null
        ELSE t.checkpoints[CHOOSE i \in found : \A j \in found : i <= j].checkpointRef

-----------------------------------------------------------------------------
(* Events *)

DiffComplete(turn, turnCount, status, ref) ==
    [type |-> "thread.turn-diff-completed", turnId |-> turn, checkpointTurnCount |-> turnCount,
     status |-> status, checkpointRef |-> ref, assistantMessageId |-> Null]

\* The read model takes an event up, and the reactor's stream carries it if it is of
\* the types the reactor takes from there.
dispatch(event) ==
    /\ thread' = Patch(thread, ThreadPatch(thread, event))
    /\ domainQueue' = IF event.type = "thread.turn-diff-completed"
                        THEN Append(domainQueue, event) ELSE domainQueue

\* An event of the provider reaches both its subscribers; the reactor's drops a diff.
Emit(event) ==
    /\ ingestQueue' = Append(ingestQueue, event)
    /\ runtimeQueue' = IF event.type = "turn.diff.updated" THEN runtimeQueue
                       ELSE Append(runtimeQueue, event)
    /\ UNCHANGED domainQueue

\* A bound of the model on how far the workers fall behind.
InStep == Len(ingestQueue) + Len(domainQueue) + Len(runtimeQueue) <= MaxBacklog

Settled ==
    /\ job = Idle /\ placeholder = NoEvent
    /\ ingestQueue = <<>> /\ domainQueue = <<>> /\ runtimeQueue = <<>>

Quiet == Settled /\ running = Null /\ ~requested

-----------------------------------------------------------------------------
Init ==
    /\ thread = NewThread([projectId |-> Null, meta |-> Null, runtimeMode |-> Null,
                           interactionMode |-> Null])
    /\ files = HeadFiles /\ refs = <<>> /\ lost = {} /\ conversation = <<>>
    /\ running = Null /\ requested = FALSE
    /\ edits = <<>> /\ reported = <<>>
    /\ ingestQueue = <<>> /\ domainQueue = <<>> /\ runtimeQueue = <<>>
    /\ placeholder = NoEvent /\ job = Idle
    /\ asked = 0 /\ answered = 0 /\ failures = 0 /\ disturbed = FALSE

(* The user, between turns: the clients offer neither during one. *)

SendTurn ==
    /\ InStep /\ running = Null /\ ~requested /\ Len(edits) < MaxTurns
    /\ requested' = TRUE
    /\ disturbed' = (disturbed \/ ~Settled \/ lost # {})
    /\ domainQueue' = Append(domainQueue, [type |-> "thread.turn-start-requested"])
    /\ UNCHANGED <<asked, provider, ingestQueue, runtimeQueue, thread, refs, lost, placeholder, job,
                   answered, failures>>

RequestRevert(turnCount) ==
    /\ InStep /\ running = Null /\ ~requested /\ asked < MaxReverts
    /\ asked' = asked + 1
    /\ disturbed' = (disturbed \/ ~Settled \/ lost # {})
    /\ domainQueue' = Append(domainQueue, [type |-> "thread.checkpoint-revert-requested",
                                           turnCount |-> turnCount])
    /\ UNCHANGED <<requested, provider, ingestQueue, runtimeQueue, thread, refs, lost, placeholder, job,
                   answered, failures>>

(* The provider and its session's events *)

StartTurn ==
    LET turn == Len(edits) + 1
    IN  /\ InStep /\ requested
        /\ requested' = FALSE /\ running' = turn
        /\ conversation' = Append(conversation, turn)
        /\ edits' = Append(edits, 0) /\ reported' = Append(reported, 0)
        /\ Emit([type |-> "turn.started", turnId |-> turn])
        /\ UNCHANGED <<asked, disturbed, files, thread, refs, lost, placeholder, job, answered, failures>>

Edits == UNION {{<<turn, k>> : k \in 1..edits[turn]} : turn \in DOMAIN edits}

EditFiles ==
    /\ InStep /\ running # Null /\ Cardinality(Edits) < MaxEdits
    /\ edits' = [edits EXCEPT ![running] = @ + 1]
    /\ files' = files \cup {<<running, edits'[running]>>}
    /\ disturbed' = (disturbed \/ Len(conversation) - 1 \notin DOMAIN refs)
    /\ UNCHANGED <<asked, requested, running, conversation, reported, queues, thread, refs, lost, placeholder, job,
                   answered, failures>>

\* Once in a turn: the ingestion drops the reports after the first.
ReportDiff ==
    /\ InStep /\ running # Null
    /\ edits[running] > 0 /\ reported[running] = 0
    /\ reported' = [reported EXCEPT ![running] = edits[running]]
    /\ Emit([type |-> "turn.diff.updated", turnId |-> running])
    /\ UNCHANGED <<user, running, conversation, edits, files, thread, refs, lost, placeholder, job,
                   answered, failures>>

CompleteTurn(state) ==
    /\ InStep /\ running # Null
    /\ running' = Null
    /\ Emit([type |-> "turn.completed", turnId |-> running, state |-> state])
    /\ UNCHANGED <<user, conversation, edits, reported, files, thread, refs, lost, placeholder, job,
                   answered, failures>>

-----------------------------------------------------------------------------
(* The ingestion *)

Ingest(type) ==
    /\ placeholder = NoEvent
    /\ ingestQueue # <<>> /\ Head(ingestQueue).type = type
    /\ ingestQueue' = Tail(ingestQueue)

IngestTurnEvent(type, status) ==
    LET turn == Head(ingestQueue).turnId
        session == [status |-> status, activeTurnId |-> IF type = "turn.started" THEN turn
                                                        ELSE Null]
    IN  /\ Ingest(type)
        /\ dispatch([type |-> "thread.session-set", session |-> session])
        /\ UNCHANGED <<user, provider, runtimeQueue, refs, lost, placeholder, job, answered, failures>>

IngestTurnStarted   == IngestTurnEvent("turn.started", "running")
IngestTurnCompleted == IngestTurnEvent("turn.completed", "ready")

\* turn.diff.updated: whether the turn has a checkpoint, and the next count, are read
\* from the thread at the start of the event.
IngestDiffUpdated ==
    LET turn == Head(ingestQueue).turnId
    IN  /\ Ingest("turn.diff.updated")
        /\ placeholder' = IF CheckpointsOf(thread, turn) = {}
                            THEN DiffComplete(turn, currentTurnCount(thread) + 1, "missing", Null)
                            ELSE NoEvent
        /\ UNCHANGED <<user, provider, domainQueue, runtimeQueue, thread, refs, lost, job, answered,
                       failures>>

DispatchPlaceholder ==
    /\ placeholder # NoEvent
    /\ dispatch(placeholder)
    /\ placeholder' = NoEvent
    /\ UNCHANGED <<user, provider, ingestQueue, runtimeQueue, refs, lost, job, answered, failures>>

Ingestion ==
    \/ IngestTurnStarted \/ IngestTurnCompleted \/ IngestDiffUpdated \/ DispatchPlaceholder

-----------------------------------------------------------------------------
(* The reactor's worker: one input at a time. *)

TakeDomain(type) ==
    /\ job = Idle
    /\ domainQueue # <<>> /\ Head(domainQueue).type = type
    /\ domainQueue' = Tail(domainQueue)
    /\ UNCHANGED <<user, provider, ingestQueue, runtimeQueue, thread, refs, lost, placeholder, failures>>

TakeRuntime(type) ==
    /\ job = Idle
    /\ runtimeQueue # <<>> /\ Head(runtimeQueue).type = type
    /\ runtimeQueue' = Tail(runtimeQueue)
    /\ UNCHANGED <<user, provider, ingestQueue, domainQueue, thread, refs, lost, placeholder, failures>>

At(step) == job.step = step

Fails == failures < MaxFailures /\ failures' = failures + 1

\* A turn starts: the ref of the current count is captured if git has none.
EnsureBaseline ==
    LET baseline == currentTurnCount(thread)
    IN  /\ job' = IF baseline \in DOMAIN refs THEN Idle
                  ELSE [step |-> "baseline", turnCount |-> baseline]
        /\ UNCHANGED answered

ensurePreTurnBaselineFromDomainTurnStart ==
    TakeDomain("thread.turn-start-requested") /\ EnsureBaseline

ensurePreTurnBaselineFromTurnStart == TakeRuntime("turn.started") /\ EnsureBaseline

CaptureBaseline ==
    /\ At("baseline")
    /\ refs' = Put(refs, job.turnCount, files)
    /\ lost' = lost \ {job.turnCount}
    /\ job' = Idle
    /\ UNCHANGED <<user, provider, queues, thread, placeholder, answered, failures>>

\* Only logged.
BaselineFails ==
    /\ At("baseline") /\ Fails
    /\ job' = Idle
    /\ UNCHANGED <<user, provider, queues, thread, refs, lost, placeholder, answered>>

\* The capture of a turn: what to dispatch is fixed before the files are captured.
Capture(turn, turnCount, status) ==
    [step |-> "capture", event |-> DiffComplete(turn, turnCount, status, turnCount)]

captureCheckpointFromTurnCompletion ==
    LET event == Head(runtimeQueue)
        turn == event.turnId
        active == IF thread.session = Null THEN Null ELSE thread.session.activeTurnId
    IN  /\ TakeRuntime("turn.completed")
        /\ job' = IF active \notin {Null, turn} \/ HasRealCheckpoint(thread, turn) THEN Idle
                  ELSE Capture(turn, nextTurnCount(thread, turn),
                               checkpointStatusFromRuntime(event.state))
        /\ UNCHANGED answered

captureCheckpointFromPlaceholder ==
    LET event == Head(domainQueue)
    IN  /\ TakeDomain("thread.turn-diff-completed")
        /\ job' = IF event.status # "missing" \/ HasRealCheckpoint(thread, event.turnId) THEN Idle
                  ELSE Capture(event.turnId, event.checkpointTurnCount, "ready")
        /\ UNCHANGED answered

CaptureCheckpoint ==
    /\ At("capture")
    /\ refs' = Put(refs, job.event.checkpointTurnCount, files)
    /\ lost' = lost \ {job.event.checkpointTurnCount}
    /\ job' = [job EXCEPT !.step = "finalize"]
    /\ UNCHANGED <<user, provider, queues, thread, placeholder, answered, failures>>

\* An activity of the thread tells.
CaptureFails ==
    /\ At("capture") /\ Fails
    /\ job' = Idle
    /\ disturbed' = TRUE
    /\ UNCHANGED <<asked, requested, provider, queues, thread, refs, lost, placeholder, answered>>

FinalizeCapture ==
    /\ At("finalize")
    /\ dispatch(job.event)
    /\ job' = Idle
    /\ UNCHANGED <<user, provider, ingestQueue, runtimeQueue, refs, lost, placeholder, answered, failures>>

-----------------------------------------------------------------------------
(* A revert works on the thread it read at its start. *)

\* Mutant: the ref of the checkpoint reverted to goes too.
RefsFrom(t, turnCount) ==
    {t.checkpoints[i].checkpointRef :
        i \in {j \in DOMAIN t.checkpoints : t.checkpoints[j].checkpointTurnCount >= turnCount}}

staleCheckpointRefs(t, turnCount) ==
    {t.checkpoints[i].checkpointRef :
        i \in {j \in DOMAIN t.checkpoints : t.checkpoints[j].checkpointTurnCount > turnCount}}

\* A revert that cannot go on ends with an activity, the reactor takes the next input.
Mute == job' = Idle /\ UNCHANGED answered    \* Mutant: without the activity.
appendRevertFailureActivity == job' = Idle /\ answered' = answered + 1

BeginRevert ==
    LET turnCount == Head(domainQueue).turnCount
        target == targetCheckpointRef(thread, turnCount)
    IN  /\ TakeDomain("thread.checkpoint-revert-requested")
        /\ turnCount <= currentTurnCount(thread) /\ target # Null
        /\ job' = [step |-> "restore", turnCount |-> turnCount, target |-> target,
                   rolledBackTurns |-> currentTurnCount(thread) - turnCount,
                   staleRefs |-> staleCheckpointRefs(thread, turnCount)]
        /\ UNCHANGED answered

\* The provider's session is gone, or there is nothing of that count to restore.
RefuseRevert ==
    /\ TakeDomain("thread.checkpoint-revert-requested")
    /\ appendRevertFailureActivity

\* Mutant: files that the checkpoint does not know are not cleaned.
RestoreTracked(checkpoint) == files \cup checkpoint

\* git restore, and git clean of what the checkpoint does not hold.
restored(checkpoint) == checkpoint

\* Git has the ref, or, for the turn count 0, the head it falls back to.
CanRestore == job.target \in DOMAIN refs \/ job.turnCount = 0

TargetFiles == IF job.target \in DOMAIN refs THEN refs[job.target] ELSE HeadFiles

RestoreCheckpoint ==
    /\ At("restore") /\ CanRestore
    /\ files' = restored(TargetFiles)
    /\ job' = [job EXCEPT !.step = "rollback"]
    /\ UNCHANGED <<user, running, conversation, edits, reported, queues, thread, refs, lost,
                   placeholder, answered, failures>>

\* Nothing is restored; or git restore went through and git clean or reset did not.
RestoreFails ==
    /\ At("restore")
    /\ \/ ~CanRestore /\ UNCHANGED <<files, failures>>
       \/ Fails /\ UNCHANGED files
       \/ CanRestore /\ Fails /\ \E unclean \in SUBSET files : files' = TargetFiles \cup unclean
    /\ appendRevertFailureActivity
    /\ UNCHANGED <<user, running, conversation, edits, reported, queues, thread, refs, lost,
                   placeholder>>

RollbackConversation ==
    LET kept == Len(conversation) - job.rolledBackTurns
    IN  /\ At("rollback")
        /\ conversation' = SubSeq(conversation, 1, kept)
        /\ job' = [job EXCEPT !.step = "delete"]
        /\ UNCHANGED <<user, running, edits, reported, files, queues, thread, refs, lost, placeholder,
                       answered, failures>>

\* The files are those of the checkpoint already.
RollbackFails ==
    /\ At("rollback") /\ job.rolledBackTurns > 0 /\ Fails
    /\ appendRevertFailureActivity
    /\ UNCHANGED <<user, provider, queues, thread, refs, lost, placeholder>>

DeleteCheckpointRefs ==
    /\ At("delete")
    /\ refs' = [n \in DOMAIN refs \ job.staleRefs |-> refs[n]]
    /\ job' = [job EXCEPT !.step = "complete"]
    /\ UNCHANGED <<user, provider, queues, thread, lost, placeholder, answered, failures>>

\* The revert breaks off: the conversation is rolled back, the thread keeps its checkpoints.
BreaksOff ==
    /\ Fails
    /\ lost' = lost \cup job.staleRefs
    /\ appendRevertFailureActivity

\* Git is called for one ref after the other, in the order of the counts.
DeleteCheckpointRefsFails ==
    /\ At("delete") /\ job.staleRefs # {}
    /\ \E last \in 0..MaxTurns :
         refs' = [n \in DOMAIN refs \ (job.staleRefs \cap 0..last) |-> refs[n]]
    /\ BreaksOff
    /\ UNCHANGED <<user, provider, queues, thread, placeholder>>

CompleteRevert ==
    /\ At("complete")
    /\ dispatch([type |-> "thread.reverted", turnCount |-> job.turnCount])
    /\ job' = Idle
    /\ answered' = answered + 1
    /\ UNCHANGED <<user, provider, ingestQueue, runtimeQueue, refs, lost, placeholder, failures>>

\* The engine does not take thread.revert.complete.
CompleteRevertFails ==
    /\ At("complete")
    /\ BreaksOff
    /\ UNCHANGED <<user, provider, queues, thread, refs, placeholder>>

Reactor ==
    \/ ensurePreTurnBaselineFromDomainTurnStart \/ ensurePreTurnBaselineFromTurnStart
    \/ CaptureBaseline \/ BaselineFails
    \/ captureCheckpointFromTurnCompletion \/ captureCheckpointFromPlaceholder
    \/ CaptureCheckpoint \/ CaptureFails \/ FinalizeCapture
    \/ BeginRevert \/ RefuseRevert \/ RestoreCheckpoint \/ RestoreFails
    \/ RollbackConversation \/ RollbackFails
    \/ DeleteCheckpointRefs \/ DeleteCheckpointRefsFails \/ CompleteRevert \/ CompleteRevertFails

Next ==
    \/ SendTurn
    \/ \E turnCount \in 0..MaxTurns : RequestRevert(turnCount)
    \/ StartTurn \/ EditFiles \/ ReportDiff
    \/ \E state \in EndStates : CompleteTurn(state)
    \/ Ingestion
    \/ Reactor

Spec == Init /\ [][Next]_vars

-----------------------------------------------------------------------------
(* Properties *)

\* Every revert the user asks for ends, with a revert of the thread or with an activity
\* that tells why not, also when git or the provider fails on the way, and no other input
\* the reactor had to work off hides one.
RevertsAreAnswered == job = Idle /\ domainQueue = <<>> => answered = asked

\* What can be reverted to can be restored: whenever the reactor is between two inputs,
\* git has the ref of every checkpoint that is not a placeholder, but for those that a
\* revert which broke off was to delete.  Reverts delete refs and checkpoints in two
\* places, either may fail, and captures go on around them.
CheckpointsHaveRefs ==
    job = Idle => \A i \in DOMAIN thread.checkpoints :
        thread.checkpoints[i].checkpointRef \in DOMAIN refs \cup {Null} \cup lost

\* The checkpoints of the thread, without those that a revert which broke off has left
\* behind the end of the conversation.
Standing ==
    {thread.checkpoints[i] : i \in
        {j \in DOMAIN thread.checkpoints :
            lost = {} \/ thread.checkpoints[j].checkpointTurnCount <= Len(conversation)}}

\* The k-th turn of the conversation has the checkpoint of count k and no other turn has
\* one, or the next revert would roll the conversation back to another turn than the
\* files.  Said of a thread at rest whose user let the reactor finish before the next
\* request and whose captures did not fail; after a revert that broke off, until the
\* user's next request, of the turns that it has left in the conversation.
CheckpointsFollowConversation ==
    Quiet /\ ~disturbed =>
        {<<c.checkpointTurnCount, c.turnId>> : c \in Standing}
          = {<<k, conversation[k]>> : k \in DOMAIN conversation}

\* The edits of a turn that its checkpoint must hold: all of them, or those of its first
\* report, which is when a placeholder had the files captured.
OwedEdits(turn) ==
    {<<turn, k>> : k \in 1..(IF reported[turn] = 0 THEN edits[turn] ELSE reported[turn])}

\* Git has a checkpoint, with the edits of its turn that it owes and of no turn but those
\* up to its own in the conversation, also after reverts to earlier and partial ones and
\* after reverts that failed at any step.
CheckpointsHoldTheirTurns ==
    Quiet /\ ~disturbed => \A c \in Standing :
        LET held == refs[c.checkpointTurnCount]
        IN  /\ c.checkpointTurnCount \in DOMAIN refs
            /\ OwedEdits(c.turnId) \subseteq held
            /\ \A edit \in held : \E k \in 1..c.checkpointTurnCount : edit[1] = conversation[k]
=============================================================================
