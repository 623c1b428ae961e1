----------------------- MODULE OrchestrationEngineProofs -----------------------
(***************************************************************************)
(* Proofs about the orchestration engine, for every set of calls, commands *)
(* and subscribers and every choice of storage faults.                     *)
(*                                                                         *)
(* IInv is the inductive invariant.  DatabaseInv speaks of what survives a *)
(* crash, ControlInv and BatchInv of the worker and the events it has in   *)
(* hand, ModelInv of the two read models, ClientInv and QueueInv of what   *)
(* callers and subscribers hold.  One lemma per part shows that every step *)
(* preserves it; most rest on DatabaseChanges, which says that only a      *)
(* commit and a rejected receipt change the database at all.               *)
(*                                                                         *)
(* The second part is about engines whose read back after a failure        *)
(* succeeds: the read model is a replay of the log, the log is serial, and *)
(* a snapshot and the stream together are complete.  With the fault        *)
(* "reconcile" the worker decides on a read model that lacks events and    *)
(* folds later ones into it, and the events of a commit that was reported  *)
(* as failed may reach nobody.  ReplayInv says what each of the two read   *)
(* models is a replay of, and that the events in the worker's hands are    *)
(* those decided against the whole log.  Heard is how far the log has been *)
(* published; StreamInv says of every subscriber that its inbox ends there *)
(* and begins where its snapshot ends.  Both are inductive relative to     *)
(* IInv.                                                                   *)
(***************************************************************************)
EXTENDS OrchestrationEngineReplay, ArrayLemmas

-----------------------------------------------------------------------------
(* The projector and the decider *)

\* Folding an event makes its sequence the read model's, whatever its type.
LEMMA FoldSetsSequence ==
    ASSUME NEW m, NEW e, "snapshotSequence" \in DOMAIN m
    PROVE  /\ "snapshotSequence" \in DOMAIN projectEvent(m, e)
           /\ projectEvent(m, e).snapshotSequence = e.sequence
<1> DEFINE nextBase == [m EXCEPT !.snapshotSequence = e.sequence]
<1>1. "snapshotSequence" \in DOMAIN nextBase /\ nextBase.snapshotSequence = e.sequence
  OBVIOUS
<1>2. \A x : \A f \in {"projects", "threads"} :
         /\ "snapshotSequence" \in DOMAIN [nextBase EXCEPT ![f] = x]
         /\ [nextBase EXCEPT ![f] = x].snapshotSequence = e.sequence
  BY <1>1
<1>3. /\ "snapshotSequence" \in DOMAIN updateThread(nextBase, e)
      /\ updateThread(nextBase, e).snapshotSequence = e.sequence
  BY <1>1, <1>2 DEF updateThread
<1> QED
  BY <1>1, <1>2, <1>3 DEF projectEvent

\* The event e carries the identity of the command id.
IsEventOf(id, e) == "commandId" \in DOMAIN e /\ e.commandId = id

\* The event decided for a command carries the identity of the command.
LEMMA EventCarriesCommandId ==
    ASSUME NEW m, NEW c \in Calls
    PROVE  IsEventOf(CommandOf[c].commandId, EventOf(m, CommandOf[c]))
<1> DEFINE k == CommandOf[c]
<1>1. "commandId" \in DOMAIN k
  BY EngineAssumption
<1>2. "commandId" \notin DOMAIN PayloadPatch(m, k)
  BY DEF PayloadPatch, NoPatch
<1>3. /\ "commandId" \in DOMAIN Patch(k, PayloadPatch(m, k))
      /\ Patch(k, PayloadPatch(m, k)).commandId = k.commandId
  BY <1>1, <1>2 DEF Patch
<1> QED
  BY <1>3 DEF EventOf, Put, IsEventOf

\* A turn start appends two events, every other command one.
LEMMA EventCountOfCall ==
    ASSUME NEW c \in Calls
    PROVE  EventCount(CommandOf[c].commandId) =
              IF CommandOf[c].type = "thread.turn.start" THEN 2 ELSE 1
BY EngineAssumption DEF EventCount

\* A decision is as many events as its command appends, all carrying its identity.
LEMMA DecisionShape ==
    ASSUME NEW m, NEW c \in Calls
    PROVE  LET d  == decideOrchestrationCommand(m, CommandOf[c])
               id == CommandOf[c].commandId
           IN  /\ IsSeq(d)
               /\ Len(d) = EventCount(id)
               /\ \A i \in 1..Len(d) : IsEventOf(id, d[i])
<1> DEFINE k  == CommandOf[c]
           id == k.commandId
           e  == EventOf(m, k)
           u  == UserMessageEvent(k)
<1>1. IsEventOf(id, e)
  BY EventCarriesCommandId
<1>2. IsEventOf(id, u)
  BY EngineAssumption DEF UserMessageEvent, Patch, IsEventOf
<1>3. CASE k.type = "thread.turn.start"
  <2>1. decideOrchestrationCommand(m, k) = <<u, e>>
    BY <1>3 DEF decideOrchestrationCommand
  <2>2. EventCount(id) = 2
    BY <1>3, EventCountOfCall
  <2> HIDE DEF e, u, k
  <2>3. \A i \in 1..2 : i = 1 \/ i = 2
    OBVIOUS
  <2>4. \A i \in 1..2 : IsEventOf(id, <<u, e>>[i])
    BY <1>1, <1>2, <2>3, PairFacts
  <2> QED
    BY <2>1, <2>2, <2>4, PairFacts DEF k
<1>4. CASE k.type # "thread.turn.start"
  <2>1. decideOrchestrationCommand(m, k) = <<e>>
    BY <1>4 DEF decideOrchestrationCommand
  <2>2. EventCount(id) = 1
    BY <1>4, EventCountOfCall
  <2> HIDE DEF e, u, k
  <2>3. \A i \in 1..1 : i = 1
    OBVIOUS
  <2>4. \A i \in 1..1 : IsEventOf(id, <<e>>[i])
    BY <1>1, <2>3, SingletonFacts
  <2> QED
    BY <2>1, <2>2, <2>4, SingletonFacts DEF k
<1> QED
  BY <1>3, <1>4

-----------------------------------------------------------------------------
(* The inductive invariant *)

\* What a crash leaves: the log is numbered, each command in it once, and the SQL
\* projections are exactly as far as the log.
DatabaseInv ==
    /\ IsSeq(log)
    /\ Numbered(log, 0)
    /\ \A i \in DOMAIN log : log[i].commandId \in CommandIds
    /\ DOMAIN receipts \subseteq CommandIds
    /\ \A id \in DOMAIN receipts : receipts[id] \in Receipts
    /\ projection = Len(log)
    /\ ExactlyOnce

\* The phases of the catch branch of processEnvelope.
FailedPhases == {"failed", "fold", "republish", "answer"}

\* Where the worker is.  While it decides or appends, and after a rejection, its command
\* has no receipt: the lookup found none and nobody else writes receipts.
ControlInv ==
    /\ status \in Statuses
    /\ phase \in Phases
    /\ envelope \in Calls \cup {Null}
    /\ phase = "idle" <=> envelope = Null
    /\ phase # "idle" => status = "running"
    /\ error \in {Null, "invariant", "storage"}
    /\ error # Null <=> phase \in FailedPhases
    /\ phase \in {"decide", "transaction"} \/ error = "invariant" =>
          commandId \notin DOMAIN receipts

\* The events in the worker's hands: numbered from the end of the log while they are
\* appended, the end of the log itself once they are committed or read back.
BatchInv ==
    /\ IsSeq(committedEvents)
    /\ IsSeq(eventBases)
    /\ progress \in 0..Len(committedEvents)
    /\ \A i \in DOMAIN committedEvents : committedEvents[i].sequence \in Nat
    /\ phase \in {"idle", "lookup", "decide"} => committedEvents = <<>> /\ progress = 0
    /\ phase = "transaction" =>
          /\ progress = 0
          /\ Numbered(committedEvents, Len(log))
          /\ \A i \in DOMAIN committedEvents : committedEvents[i].commandId = commandId
          /\ \A i \in DOMAIN eventBases : IsEventOf(commandId, eventBases[i])
          /\ Len(committedEvents) + Len(eventBases) = EventCount(commandId)
    /\ phase \in {"committed", "publish"} =>
          /\ Accepted(commandId)
          /\ receipts[commandId].resultSequence = Len(log)
    /\ phase \in {"committed", "publish", "fold", "republish"} =>
          /\ committedEvents # <<>>
          /\ Numbered(committedEvents, Len(log) - Len(committedEvents))

\* model has folded the events up to n.
Snapshot(model, n) ==
    /\ "snapshotSequence" \in DOMAIN model
    /\ model.snapshotSequence = n

\* How far the two read models are: never past the log, and where reconciliation starts
\* reading is where the adopted one ends.
ModelInv ==
    /\ "snapshotSequence" \in DOMAIN readModel
    /\ readModel.snapshotSequence \in 0..Len(log)
    /\ dispatchStartSequence \in Nat
    /\ phase \notin {"idle", "publish", "republish", "answer"} =>
          dispatchStartSequence = readModel.snapshotSequence
    /\ phase = "transaction" =>
          Snapshot(nextReadModel, IF committedEvents = <<>> THEN readModel.snapshotSequence
                                  ELSE Len(log) + Len(committedEvents))
    /\ phase = "committed" => Snapshot(nextReadModel, Len(log))
    /\ phase = "fold" =>
          /\ dispatchStartSequence + Len(committedEvents) = Len(log)
          /\ Snapshot(nextReadModel, dispatchStartSequence + progress)
    /\ phase \in {"publish", "republish"} => readModel.snapshotSequence = Len(log)
    /\ DecidesOnWholeLog

\* What callers and subscribers have been told.
ClientInv ==
    /\ commandQueue \in Seq(Calls)
    /\ inbox \in [Subscribers -> Seq(Nat)]
    /\ subscribed \subseteq Subscribers
    /\ answer \in [Calls -> [status : Outcomes, sequence : Nat]]
    /\ AnswersMatchReceipts
    /\ DeliveredIsVisible

\* A call waits for its answer exactly once: in the queue or in the worker's hands.
QueueInv ==
    /\ \A i \in DOMAIN commandQueue : answer[commandQueue[i]] = Waiting
    /\ \A i, j \in DOMAIN commandQueue : commandQueue[i] = commandQueue[j] => i = j
    /\ phase # "idle" =>
          /\ answer[envelope] = Waiting
          /\ \A i \in DOMAIN commandQueue : commandQueue[i] # envelope

IInv == DatabaseInv /\ ControlInv /\ BatchInv /\ ModelInv /\ ClientInv /\ QueueInv

\* The invariant is at least the type invariant.
LEMMA IInvImpliesTypeOK == IInv => TypeOK
BY SeqDomain DEF IInv, DatabaseInv, ControlInv, BatchInv, ModelInv, ClientInv, Snapshot, TypeOK

\* The invariant holds when nothing has been stored yet.
LEMMA InitIInv == Init => IInv
<1> SUFFICES ASSUME Init PROVE IInv
  OBVIOUS
<1> USE NilFacts
<1>1. Snapshot(createEmptyReadModel, 0)
  BY DEF createEmptyReadModel, Snapshot
<1>2. DatabaseInv
  BY DEF Init, DatabaseInv, Numbered, ExactlyOnce, Accepted
<1>3. ControlInv
  BY DEF Init, ControlInv, Statuses, Phases, FailedPhases
<1>4. BatchInv
  BY DEF Init, BatchInv
<1>5. ModelInv
  BY <1>1 DEF Init, ModelInv, DecidesOnWholeLog, Snapshot
<1>6. ClientInv
  <2>1. AnswersMatchReceipts
    BY DEF Init, AnswersMatchReceipts, NotAnswered
  <2>2. DeliveredIsVisible
    BY DEF Init, DeliveredIsVisible
  <2>3. answer \in [Calls -> [status : Outcomes, sequence : Nat]]
    BY DEF Init, NotAnswered, Outcomes
  <2> QED
    BY <2>1, <2>2, <2>3 DEF Init, ClientInv
<1>7. QueueInv
  BY DEF Init, QueueInv
<1> QED
  BY <1>2, <1>3, <1>4, <1>5, <1>6, <1>7 DEF IInv

-----------------------------------------------------------------------------
(* The steps that change the database *)

\* What a commit does: a batch that is complete and numbered from the end of the log
\* becomes its end, and the command gets its receipt.
LEMMA PersistFacts ==
    ASSUME IInv, Persist
    PROVE  /\ envelope \in Calls /\ commandId \in CommandIds
           /\ commandId \notin DOMAIN receipts
           /\ committedEvents # <<>>
           /\ Len(committedEvents) = EventCount(commandId)
           /\ Len(committedEvents) \in Nat \ {0}
           /\ Len(log) \in Nat
           /\ IsSeq(log') /\ Len(log') = Len(log) + Len(committedEvents)
           /\ DOMAIN log' = 1..Len(log')
           /\ \A i \in 1..Len(log) : log'[i] = log[i]
           /\ \A i \in 1..Len(committedEvents) :
                /\ log'[Len(log) + i] = committedEvents[i]
                /\ committedEvents[i].commandId = commandId
                /\ committedEvents[i].sequence = Len(log) + i
           /\ receipts' = Put(receipts, commandId, [status |-> "accepted",
                                                    resultSequence |-> Len(log')])
           /\ projection' = Len(log')
<1>1. phase = "transaction" /\ eventBases = <<>>
  BY DEF Persist
<1>2. envelope \in Calls /\ commandId \notin DOMAIN receipts
  BY <1>1, EngineAssumption DEF IInv, ControlInv
<1>3. IsSeq(log) /\ IsSeq(committedEvents)
  BY DEF IInv, DatabaseInv, BatchInv
<1>4. Len(log) \in Nat /\ Len(committedEvents) \in Nat /\ DOMAIN committedEvents = 1..Len(committedEvents)
  BY <1>3, SeqDomain
<1>5. Len(committedEvents) = EventCount(commandId)
  BY <1>1, <1>4, NilFacts DEF IInv, BatchInv
<1>6. EventCount(commandId) \in {1, 2}
  BY DEF EventCount
<1>7. committedEvents # <<>>
  BY <1>5, <1>6, NilFacts
<1>8. \A i \in 1..Len(committedEvents) : /\ committedEvents[i].commandId = commandId
                                         /\ committedEvents[i].sequence = Len(log) + i
  BY <1>1, <1>4 DEF IInv, BatchInv, Numbered
<1>9. log' = log \o committedEvents
  BY DEF Persist
<1>10. /\ IsSeq(log') /\ Len(log') = Len(log) + Len(committedEvents)
       /\ \A i \in 1..Len(log) : log'[i] = log[i]
       /\ \A i \in 1..Len(committedEvents) : log'[Len(log) + i] = committedEvents[i]
  BY <1>3, <1>9, ConcatFacts
<1>11. LastOf(committedEvents).sequence = Len(log')
  BY <1>4, <1>5, <1>6, <1>8, <1>10 DEF LastOf
<1>12. commandId \in CommandIds
  BY <1>2 DEF CommandIds, commandId, Command
<1>13. DOMAIN log' = 1..Len(log')
  BY <1>10, SeqDomain
<1>14. /\ receipts' = Put(receipts, commandId, [status |-> "accepted",
                                              resultSequence |-> Len(log')])
       /\ projection' = Len(log')
  BY <1>11 DEF Persist
<1> QED
  BY <1>2, <1>4, <1>5, <1>6, <1>7, <1>8, <1>10, <1>12, <1>13, <1>14

\* What writing a rejected receipt does: a command without a receipt gets one.
LEMMA RejectFacts ==
    ASSUME IInv, RejectWithReceipt
    PROVE  /\ commandId \in CommandIds
           /\ commandId \notin DOMAIN receipts
           /\ UNCHANGED <<log, projection>>
           /\ \E n \in Nat : receipts' = Put(receipts, commandId, [status |-> "rejected",
                                                                   resultSequence |-> n])
<1>1. envelope \in Calls
  BY DEF IInv, ControlInv, RejectWithReceipt
<1>2. commandId \in CommandIds
  BY <1>1 DEF CommandIds, commandId, Command
<1>3. commandId \notin DOMAIN receipts
  BY DEF IInv, ControlInv, RejectWithReceipt
<1>4. readModel.snapshotSequence \in Nat
  BY SeqDomain DEF IInv, DatabaseInv, ModelInv, Snapshot
<1> QED
  BY <1>2, <1>3, <1>4 DEF RejectWithReceipt

\* Nothing but a commit and a rejected receipt changes the database: the bootstrap of the
\* projections finds them at the end of the log already.
LEMMA DatabaseChanges ==
    ASSUME IInv, [Next]_vars
    PROVE  \/ UNCHANGED database
           \/ Persist
           \/ RejectWithReceipt
<1>1. CASE Start
  BY <1>1 DEF Start, IInv, DatabaseInv, database
<1> QED
  BY <1>1 DEF Next, WorkerStep, vars, Replay, Serve, Crash, dispatch, streamDomainEvents,
     GetSnapshot, Take, ReceiptFound, ReceiptMissing, LookupFails, DecideRejects, DecideAccepts,
     AppendEvent, TransactionFails, Commit, CommitReportedAsFailed, AdoptReadModel,
     PublishEvent, Succeed, ReadPersistedEvents, FoldPersistedEvent, EndReconcile,
     ReconcileFails, RejectWithoutReceipt, AnswerFailure

\* Every step preserves DatabaseInv; the two that change the database are examined.
LEMMA DatabaseStep ==
    ASSUME IInv, [Next]_vars
    PROVE  DatabaseInv'
<1>1. CASE UNCHANGED database
  BY <1>1 DEF database, IInv, DatabaseInv, ExactlyOnce, Accepted, Numbered
<1>2. CASE Persist
  <2> USE <1>2, PersistFacts
  <2>1. DOMAIN log = 1..Len(log)
    BY SeqDomain DEF IInv, DatabaseInv
  <2> DEFINE k == Len(committedEvents)
             r == [status |-> "accepted", resultSequence |-> Len(log')]
  <2>2. \A i \in DOMAIN log' : \/ i \in DOMAIN log
                               \/ \E j \in 1..k : i = Len(log) + j
    <3>1. \A i \in DOMAIN log' : i \in DOMAIN log \/ i - Len(log) \in 1..k
      BY <2>1
    <3> QED
      BY <3>1, <2>1
  <2>3. \A i \in DOMAIN log' : log'[i].sequence = 0 + i /\ log'[i].commandId \in CommandIds
    <3> TAKE i \in DOMAIN log'
    <3>1. CASE i \in DOMAIN log
      <4>1. log[i].sequence = 0 + i /\ log[i].commandId \in CommandIds
        BY <3>1 DEF IInv, DatabaseInv, Numbered
      <4> QED
        BY <2>1, <3>1, <4>1
    <3>2. CASE \E j \in 1..k : i = Len(log) + j
      BY <3>2
    <3> QED
      BY <2>2, <3>1, <3>2
  <2>4. Numbered(log', 0) /\ \A i \in DOMAIN log' : log'[i].commandId \in CommandIds
    BY <2>3 DEF Numbered
  <2>5. /\ DOMAIN receipts' = DOMAIN receipts \cup {commandId}
        /\ receipts'[commandId] = r
        /\ \A id \in DOMAIN receipts : receipts'[id] = receipts[id]
    BY DEF Put
  <2>6. r \in Receipts
    BY DEF Receipts
  <2>7. DOMAIN receipts' \subseteq CommandIds /\ \A id \in DOMAIN receipts' : receipts'[id] \in Receipts
    BY <2>5, <2>6 DEF IInv, DatabaseInv
  <2>8. ExactlyOnce'
    <3> SUFFICES ASSUME NEW id \in CommandIds
                 PROVE  {i \in DOMAIN log' : log'[i].commandId = id} =
                          IF Accepted(id)'
                            THEN (receipts'[id].resultSequence - EventCount(id) + 1)
                                    .. receipts'[id].resultSequence
                            ELSE {}
      BY DEF ExactlyOnce
    <3>1. {i \in DOMAIN log : log[i].commandId = id} =
            IF Accepted(id)
              THEN (receipts[id].resultSequence - EventCount(id) + 1)
                      .. receipts[id].resultSequence
              ELSE {}
      BY DEF IInv, DatabaseInv, ExactlyOnce
    <3>2. CASE id = commandId
      <4>1. ~Accepted(id)
        BY <3>2 DEF Accepted
      <4>2. Accepted(id)' /\ receipts'[id].resultSequence = Len(log')
        BY <2>5, <3>2 DEF Accepted
      <4>3. \A i \in DOMAIN log : log[i].commandId # id
        BY <4>1, <3>1
      <4>4. \A i \in DOMAIN log' : log'[i].commandId = id <=> i \in (Len(log) + 1)..Len(log')
        BY <4>3, <2>1, <2>2, <3>2
      <4> QED
        BY <4>2, <4>4, <3>2
    <3>3. CASE id # commandId
      <4>1. /\ Accepted(id)' <=> Accepted(id)
            /\ Accepted(id) => receipts'[id] = receipts[id]
        BY <2>5, <3>3 DEF Accepted
      <4>2. {i \in DOMAIN log' : log'[i].commandId = id} = {i \in DOMAIN log : log[i].commandId = id}
        BY <2>1, <2>2, <3>3
      <4> QED
        BY <3>1, <4>1, <4>2
    <3> QED
      BY <3>2, <3>3
  <2> QED
    BY <2>4, <2>7, <2>8 DEF DatabaseInv
<1>3. CASE RejectWithReceipt
  <2>1. PICK n \in Nat : receipts' = Put(receipts, commandId, [status |-> "rejected",
                                                               resultSequence |-> n])
    BY <1>3, RejectFacts
  <2>2. commandId \in CommandIds /\ commandId \notin DOMAIN receipts /\ UNCHANGED <<log, projection>>
    BY <1>3, RejectFacts
  <2>3. /\ DOMAIN receipts' = DOMAIN receipts \cup {commandId}
        /\ receipts'[commandId] = [status |-> "rejected", resultSequence |-> n]
        /\ \A id \in DOMAIN receipts : receipts'[id] = receipts[id]
    BY <2>1, <2>2 DEF Put
  <2>4. \A id : Accepted(id)' <=> Accepted(id)
    BY <2>2, <2>3 DEF Accepted
  <2>5. ExactlyOnce'
    BY <2>2, <2>3, <2>4 DEF ExactlyOnce, IInv, DatabaseInv, Accepted
  <2>6. DOMAIN receipts' \subseteq CommandIds /\ \A id \in DOMAIN receipts' : receipts'[id] \in Receipts
    BY <2>2, <2>3 DEF IInv, DatabaseInv, Receipts
  <2> QED
    BY <2>2, <2>5, <2>6 DEF IInv, DatabaseInv, Numbered
<1> QED
  BY <1>1, <1>2, <1>3, DatabaseChanges

\* What the log and the receipts hold stays as it is, whatever the step.
LEMMA Finality ==
    ASSUME IInv, [Next]_vars
    PROVE  /\ Len(log) <= Len(log')
           /\ \A i \in DOMAIN log : log'[i] = log[i]
           /\ \A id \in DOMAIN receipts : id \in DOMAIN receipts' /\ receipts'[id] = receipts[id]
<1>1. Len(log) \in Nat /\ DOMAIN log = 1..Len(log)
  BY SeqDomain DEF IInv, DatabaseInv
<1>2. CASE UNCHANGED database
  BY <1>1, <1>2 DEF database
<1>3. CASE Persist
  BY <1>1, <1>3, PersistFacts DEF Put
<1>4. CASE RejectWithReceipt
  BY <1>1, <1>4, RejectFacts DEF Put
<1> QED
  BY <1>2, <1>3, <1>4, DatabaseChanges

-----------------------------------------------------------------------------
(* The worker's control state and its batch of events *)

\* Every step preserves ControlInv.
LEMMA ControlStep ==
    ASSUME IInv, [Next]_vars
    PROVE  ControlInv'
<1> USE DEF ControlInv, FailedPhases, Statuses, Phases, commandId, Command
<1>1. ControlInv /\ Null \notin Calls /\ Null # "invariant" /\ Null # "storage"
  BY EngineAssumption DEF IInv
<1>2. CASE UNCHANGED <<worker, status, receipts>>
  BY <1>1, <1>2 DEF worker
<1>3. CASE Start \/ Replay \/ Serve
  BY <1>1, <1>3 DEF Start, Replay, Serve, worker, database
<1>4. CASE Crash
  BY <1>1, <1>4 DEF Crash, WorkerReset, database
<1>5. ASSUME WorkerReset, UNCHANGED status PROVE ControlInv'
  BY <1>1, <1>5 DEF WorkerReset
<1>6. CASE Take
  <2>1. Head(commandQueue) \in Calls
    BY <1>6 DEF Take, IInv, ClientInv
  <2> QED
    BY <1>1, <1>6, <2>1 DEF Take, database
<1>7. CASE ReceiptMissing
  BY <1>1, <1>7 DEF ReceiptMissing, GoTo, database
<1>8. CASE LookupFails
  BY <1>1, <1>8 DEF LookupFails, Fail, GoTo, database
<1>9. CASE DecideRejects
  BY <1>1, <1>9 DEF DecideRejects, Fail, GoTo, database
<1>10. CASE DecideAccepts
  BY <1>1, <1>10 DEF DecideAccepts, GoTo, database
<1>11. CASE AppendEvent
  BY <1>1, <1>11 DEF AppendEvent, database
<1>12. CASE TransactionFails
  BY <1>1, <1>12 DEF TransactionFails, Fail, GoTo, database
<1>13. CASE Commit
  BY <1>1, <1>13 DEF Commit, Persist, GoTo
<1>14. CASE CommitReportedAsFailed
  BY <1>1, <1>14 DEF CommitReportedAsFailed, Persist, Fail, GoTo
<1>15. CASE AdoptReadModel
  BY <1>1, <1>15 DEF AdoptReadModel, database
<1>16. CASE PublishEvent
  BY <1>1, <1>16 DEF PublishEvent, database
<1>17. CASE ReadPersistedEvents
  BY <1>1, <1>17 DEF ReadPersistedEvents, GoTo, database
<1>18. CASE FoldPersistedEvent
  BY <1>1, <1>18 DEF FoldPersistedEvent, database
<1>19. CASE EndReconcile
  BY <1>1, <1>19 DEF EndReconcile, GoTo, database
<1>20. CASE ReconcileFails
  BY <1>1, <1>20 DEF ReconcileFails, GoTo, database
<1>21. CASE ReceiptFound \/ Succeed \/ RejectWithReceipt \/ RejectWithoutReceipt \/ AnswerFailure
  BY <1>5, <1>21 DEF ReceiptFound, Succeed, RejectWithReceipt, RejectWithoutReceipt,
                     AnswerFailure, Reply
<1>22. CASE (\E c \in Calls : dispatch(c))
            \/ (\E s \in Subscribers : streamDomainEvents(s) \/ GetSnapshot(s))
            \/ UNCHANGED vars
  BY <1>2, <1>22 DEF dispatch, streamDomainEvents, GetSnapshot, vars, database
<1> QED
  BY <1>3, <1>4, <1>6, <1>7, <1>8, <1>9, <1>10, <1>11, <1>12, <1>13, <1>14, <1>15, <1>16,
     <1>17, <1>18, <1>19, <1>20, <1>21, <1>22 DEF Next, WorkerStep

\* An empty batch is numbered from anywhere.
LEMMA NumberedNil == \A n : Numbered(<<>>, n)
BY NilFacts DEF Numbered

\* Every step preserves BatchInv; storing an event and reading the log back are the
\* steps with something to show.
LEMMA BatchStep ==
    ASSUME IInv, [Next]_vars
    PROVE  BatchInv'
<1> USE DEF BatchInv, commandId, Command
<1>1. BatchInv
  BY DEF IInv
<1>2. /\ Len(log) \in Nat /\ DOMAIN log = 1..Len(log)
      /\ Len(committedEvents) \in Nat /\ DOMAIN committedEvents = 1..Len(committedEvents)
      /\ Len(eventBases) \in Nat /\ DOMAIN eventBases = 1..Len(eventBases)
  BY <1>1, SeqDomain DEF IInv, DatabaseInv
<1>3. CASE UNCHANGED <<worker, log, receipts>>
  BY <1>1, <1>3 DEF worker, Numbered, Accepted
<1>4. ASSUME WorkerReset PROVE BatchInv'
  BY <1>4, NilFacts DEF WorkerReset
<1>5. CASE Start \/ Replay \/ Serve
  BY <1>3, <1>5 DEF Start, Replay, Serve, database
<1>6. CASE Crash
  BY <1>4, <1>6 DEF Crash
<1>7. CASE Take
  BY <1>1, <1>7 DEF Take, database
<1>8. CASE ReceiptMissing
  BY <1>1, <1>8 DEF ReceiptMissing, GoTo, database
<1>9. CASE LookupFails
  BY <1>1, <1>9 DEF LookupFails, Fail, GoTo, database
<1>10. CASE DecideRejects
  BY <1>1, <1>10 DEF DecideRejects, Fail, GoTo, database
<1>11. CASE DecideAccepts
  <2>1. envelope \in Calls
    BY <1>11 DEF DecideAccepts, IInv, ControlInv
  <2>2. /\ IsSeq(eventBases')
        /\ Len(eventBases') = EventCount(commandId)
        /\ \A i \in 1..Len(eventBases') : IsEventOf(commandId, eventBases'[i])
    BY <1>11, <2>1, DecisionShape DEF DecideAccepts
  <2>3. DOMAIN eventBases' = 1..Len(eventBases') /\ Len(eventBases') \in Nat
    BY <2>2, SeqDomain
  <2>4. committedEvents' = <<>> /\ progress' = 0 /\ phase' = "transaction" /\ envelope' = envelope
    BY <1>1, <1>11 DEF DecideAccepts, GoTo
  <2> QED
    BY <2>2, <2>3, <2>4, NilFacts, NumberedNil
<1>12. CASE AppendEvent
  <2> DEFINE base  == Head(eventBases)
             event == Put(base, "sequence", Len(log) + Len(committedEvents) + 1)
             n     == Len(committedEvents)
  <2>1. /\ phase = "transaction" /\ eventBases # <<>> /\ phase' = phase /\ envelope' = envelope
        /\ committedEvents' = Append(committedEvents, event)
        /\ eventBases' = Tail(eventBases)
        /\ log' = log /\ progress' = progress
    BY <1>12 DEF AppendEvent, database
  <2>2. IsEventOf(commandId, base)
    BY <1>1, <1>2, <2>1, TailFacts
  <2>3. event.commandId = commandId /\ event.sequence = Len(log) + n + 1
    BY <2>2 DEF Put, IsEventOf
  <2> HIDE DEF event, base
  <2>4. /\ IsSeq(committedEvents') /\ Len(committedEvents') = n + 1
        /\ \A i \in 1..n : committedEvents'[i] = committedEvents[i]
        /\ committedEvents'[n + 1] = event
    BY <1>1, <2>1, AppendFacts
  <2>5. /\ IsSeq(eventBases') /\ Len(eventBases') = Len(eventBases) - 1
        /\ \A i \in 1..Len(eventBases') : eventBases'[i] = eventBases[i + 1]
    BY <1>1, <2>1, TailFacts
  <2>6. DOMAIN committedEvents' = 1..(n + 1) /\ DOMAIN eventBases' = 1..(Len(eventBases) - 1)
    BY <2>4, <2>5, SeqDomain
  <2>7. \A i \in DOMAIN committedEvents' : i \in 1..n \/ i = n + 1
    BY <1>2, <2>6
  <2>8. \A i \in DOMAIN committedEvents' : /\ committedEvents'[i].commandId = commandId
                                           /\ committedEvents'[i].sequence = Len(log) + i
    <3> TAKE i \in DOMAIN committedEvents'
    <3>1. CASE i \in 1..n
      <4>1. committedEvents[i].commandId = commandId /\ committedEvents[i].sequence = Len(log) + i
        BY <1>1, <1>2, <2>1, <3>1 DEF Numbered
      <4> QED
        BY <2>4, <3>1, <4>1
    <3>2. CASE i = n + 1
      <4>1. event.sequence = Len(log) + i
        BY <1>2, <2>3, <3>2
      <4> QED
        BY <2>3, <2>4, <3>2, <4>1
    <3> QED
      BY <2>7, <3>1, <3>2
  <2>9. \A i \in DOMAIN eventBases' : IsEventOf(commandId, eventBases'[i])
    BY <1>1, <1>2, <2>1, <2>5, <2>6
  <2>10. \A i \in DOMAIN committedEvents' : committedEvents'[i].sequence \in Nat
    BY <1>2, <2>6, <2>8
  <2>11. Len(committedEvents') + Len(eventBases') = EventCount(commandId)
    BY <1>1, <1>2, <2>1, <2>4, <2>5
  <2> QED
    BY <1>1, <1>2, <2>1, <2>4, <2>5, <2>8, <2>9, <2>10, <2>11 DEF Numbered
<1>13. CASE TransactionFails
  BY <1>1, <1>13 DEF TransactionFails, Fail, GoTo, database
<1>14. CASE Commit
  <2>1. Persist /\ phase' = "committed" /\ UNCHANGED <<envelope, eventBases, committedEvents, progress>>
    BY <1>14 DEF Commit, GoTo
  <2>2. /\ Accepted(commandId)' /\ receipts'[commandId].resultSequence = Len(log')
    BY <2>1, PersistFacts DEF Accepted, Put
  <2>3. Numbered(committedEvents, Len(log') - Len(committedEvents))
    <3>1. Len(log') = Len(log) + Len(committedEvents)
      BY <2>1, PersistFacts
    <3>2. \A i \in DOMAIN committedEvents : committedEvents[i].sequence = Len(log) + i
      BY <1>2, <2>1, PersistFacts
    <3>3. Len(log') - Len(committedEvents) = Len(log)
      BY <1>2, <3>1
    <3> QED
      BY <3>2, <3>3 DEF Numbered
  <2>4. committedEvents # <<>>
    BY <2>1, PersistFacts
  <2> QED
    BY <1>1, <2>1, <2>2, <2>3, <2>4
<1>15. CASE CommitReportedAsFailed
  BY <1>1, <1>15 DEF CommitReportedAsFailed, Fail, GoTo
<1>16. CASE AdoptReadModel
  <2>1. /\ phase \in {"committed", "fold"} /\ progress' = 0
        /\ phase' = IF phase = "committed" THEN "publish" ELSE "republish"
        /\ UNCHANGED <<log, receipts, envelope, eventBases, committedEvents>>
    BY <1>16 DEF AdoptReadModel, database
  <2>2. /\ committedEvents # <<>> /\ Numbered(committedEvents, Len(log) - Len(committedEvents))
        /\ phase = "committed" => /\ Accepted(commandId)
                                  /\ receipts[commandId].resultSequence = Len(log)
    BY <1>1, <2>1
  <2>3. /\ committedEvents' # <<>> /\ Numbered(committedEvents', Len(log') - Len(committedEvents'))
        /\ phase' = "publish" => /\ Accepted(commandId)'
                                 /\ receipts'[commandId'].resultSequence = Len(log')
    BY <2>1, <2>2 DEF Numbered, Accepted
  <2> QED
    BY <1>1, <1>2, <2>1, <2>3
<1>17. CASE PublishEvent
  BY <1>1, <1>2, <1>17 DEF PublishEvent, database, Numbered, Accepted
<1>18. CASE ReadPersistedEvents
  <2>1. dispatchStartSequence \in Nat /\ dispatchStartSequence <= Len(log)
    BY <1>2, <1>18 DEF ReadPersistedEvents, IInv, ModelInv, Snapshot
  <2>2. committedEvents' = SubSeq(log, dispatchStartSequence + 1, Len(log))
    BY <1>18 DEF ReadPersistedEvents
  <2>3. /\ IsSeq(committedEvents')
        /\ Len(committedEvents') = Len(log) - dispatchStartSequence
        /\ \A i \in 1..Len(committedEvents') : committedEvents'[i] = log[dispatchStartSequence + i]
    BY <2>1, <2>2, SubSeqFacts DEF IInv, DatabaseInv
  <2>4. DOMAIN committedEvents' = 1..(Len(log) - dispatchStartSequence)
    BY <2>3, SeqDomain
  <2>5. \A i \in DOMAIN committedEvents' : committedEvents'[i].sequence = dispatchStartSequence + i
    <3> TAKE i \in DOMAIN committedEvents'
    <3>1. dispatchStartSequence + i \in DOMAIN log
      BY <1>2, <2>1, <2>4
    <3>2. log[dispatchStartSequence + i].sequence = dispatchStartSequence + i
      BY <1>2, <2>1, <2>4, <3>1 DEF IInv, DatabaseInv, Numbered
    <3> QED
      BY <2>3, <2>4, <3>2
  <2>6. \A i \in DOMAIN committedEvents' : committedEvents'[i].sequence \in Nat
    BY <2>1, <2>4, <2>5
  <2>7. Numbered(committedEvents', Len(log) - Len(committedEvents'))
    BY <1>2, <2>1, <2>3, <2>5 DEF Numbered
  <2>8. /\ log' = log /\ eventBases' = eventBases /\ progress' = 0
        /\ phase' = IF committedEvents' = <<>> THEN "answer" ELSE "fold"
    BY <1>18 DEF ReadPersistedEvents, GoTo, database
  <2> QED
    BY <1>1, <1>2, <2>1, <2>3, <2>6, <2>7, <2>8
<1>19. CASE FoldPersistedEvent
  BY <1>1, <1>2, <1>19 DEF FoldPersistedEvent, database, Numbered, Accepted
<1>20. CASE EndReconcile
  BY <1>1, <1>20 DEF EndReconcile, GoTo, database
<1>21. CASE ReconcileFails
  BY <1>1, <1>21 DEF ReconcileFails, GoTo, database
<1>22. CASE ReceiptFound \/ Succeed \/ RejectWithReceipt \/ RejectWithoutReceipt \/ AnswerFailure
  BY <1>4, <1>22 DEF ReceiptFound, Succeed, RejectWithReceipt, RejectWithoutReceipt,
                     AnswerFailure, Reply
<1>23. CASE (\E c \in Calls : dispatch(c))
            \/ (\E s \in Subscribers : streamDomainEvents(s) \/ GetSnapshot(s))
            \/ UNCHANGED vars
  BY <1>3, <1>23 DEF dispatch, streamDomainEvents, GetSnapshot, vars, database
<1> QED
  BY <1>5, <1>6, <1>7, <1>8, <1>9, <1>10, <1>11, <1>12, <1>13, <1>14, <1>15, <1>16,
     <1>17, <1>18, <1>19, <1>20, <1>21, <1>22, <1>23 DEF Next, WorkerStep

-----------------------------------------------------------------------------
(* The read models *)

\* Every step preserves ModelInv.
LEMMA ModelStep ==
    ASSUME IInv, [Next]_vars
    PROVE  ModelInv'
<1> USE DEF ModelInv, DecidesOnWholeLog
<1> DEFINE sn == readModel.snapshotSequence
<1>1. ModelInv
  BY DEF IInv
<1>2. /\ Len(log) \in Nat /\ DOMAIN log = 1..Len(log)
      /\ Len(committedEvents) \in Nat /\ DOMAIN committedEvents = 1..Len(committedEvents)
      /\ progress \in 0..Len(committedEvents)
      /\ "snapshotSequence" \in DOMAIN readModel /\ sn \in 0..Len(log)
      /\ dispatchStartSequence \in Nat
  BY <1>1, SeqDomain DEF IInv, DatabaseInv, BatchInv
<1>3. phase # "idle" => status = "running"
  BY DEF IInv, ControlInv
<1>4. CASE UNCHANGED <<worker, log, readModel, status>>
  BY <1>1, <1>4 DEF worker
<1>5. CASE Start
  BY <1>1, <1>3, <1>5 DEF Start, worker
<1>6. CASE Replay
  <2>1. /\ status = "replaying" /\ phase = "idle" /\ sn + 1 \in DOMAIN log
        /\ readModel' = projectEvent(readModel, log[sn + 1])
        /\ UNCHANGED <<worker, log, status>>
    <3>1. status = "replaying" /\ sn < Len(log)
      BY <1>6 DEF Replay
    <3>2. sn + 1 \in DOMAIN log
      BY <1>2, <3>1
    <3> QED
      BY <1>3, <1>6, <3>1, <3>2 DEF Replay, database
  <2>2. log[sn + 1].sequence = sn + 1
    BY <1>1, <1>2, <2>1 DEF IInv, DatabaseInv, Numbered
  <2>3. Snapshot(readModel', sn + 1)
    BY <1>2, <2>1, <2>2, FoldSetsSequence DEF Snapshot
  <2>4. "snapshotSequence" \in DOMAIN readModel' /\ readModel'.snapshotSequence \in 0..Len(log')
    BY <1>1, <1>2, <2>1, <2>3 DEF Snapshot
  <2> QED
    BY <1>1, <2>1, <2>4 DEF worker
<1>7. CASE Serve
  BY <1>1, <1>2, <1>3, <1>7 DEF Serve, worker, database
<1>8. CASE Crash
  BY <1>1, <1>8 DEF Crash, WorkerReset, createEmptyReadModel, database
<1>9. CASE Take
  BY <1>1, <1>9 DEF Take, database
<1>10. CASE ReceiptFound
  BY <1>1, <1>10 DEF ReceiptFound, Reply, WorkerReset, database
<1>11. CASE ReceiptMissing
  BY <1>1, <1>11 DEF ReceiptMissing, GoTo, database
<1>12. CASE LookupFails
  BY <1>1, <1>12 DEF LookupFails, Fail, GoTo, database
<1>13. CASE DecideRejects
  BY <1>1, <1>13 DEF DecideRejects, Fail, GoTo, database
<1>14. CASE DecideAccepts
  <2>1. committedEvents' = <<>>
    BY <1>14 DEF DecideAccepts, IInv, BatchInv
  <2> QED
    BY <1>1, <1>14, <2>1 DEF DecideAccepts, GoTo, database, Snapshot
<1>15. CASE AppendEvent
  <2> DEFINE event == Put(Head(eventBases), "sequence", Len(log) + Len(committedEvents) + 1)
  <2>1. /\ phase = "transaction" /\ phase' = phase
        /\ nextReadModel' = projectEvent(nextReadModel, event)
        /\ committedEvents' = Append(committedEvents, event)
        /\ UNCHANGED <<log, status, readModel, dispatchStartSequence>>
    BY <1>15 DEF AppendEvent, database
  <2>2. event.sequence = Len(log) + Len(committedEvents) + 1
    BY DEF Put
  <2> HIDE DEF event
  <2>3. Len(committedEvents') = Len(committedEvents) + 1
    BY <2>1, AppendFacts DEF IInv, BatchInv
  <2>4. committedEvents' # <<>>
    <3>1. Len(committedEvents') # 0
      BY <1>2, <2>3
    <3> QED
      BY <3>1, NilFacts
  <2>5. "snapshotSequence" \in DOMAIN nextReadModel
    BY <1>1, <2>1 DEF Snapshot
  <2>6. Snapshot(nextReadModel', event.sequence)
    BY <2>1, <2>5, FoldSetsSequence DEF Snapshot
  <2>7. event.sequence = Len(log') + Len(committedEvents')
    BY <1>1, <2>1, <2>2, <2>3
  <2> QED
    BY <1>1, <2>1, <2>4, <2>6, <2>7
<1>16. CASE TransactionFails
  BY <1>1, <1>16 DEF TransactionFails, Fail, GoTo, database
<1>17. CASE Commit
  <2>1. Persist
    BY <1>17 DEF Commit
  <2>2. committedEvents # <<>> /\ Len(log') = Len(log) + Len(committedEvents)
    BY <2>1, PersistFacts
  <2>3. Snapshot(nextReadModel, Len(log'))
    BY <1>1, <2>1, <2>2 DEF Persist
  <2>4. sn \in 0..Len(log')
    BY <1>2, <2>2
  <2> QED
    BY <1>1, <1>17, <2>1, <2>3, <2>4 DEF Commit, Persist, GoTo
<1>18. CASE CommitReportedAsFailed
  <2>1. Persist
    BY <1>18 DEF CommitReportedAsFailed
  <2>2. Len(log') = Len(log) + Len(committedEvents)
    BY <2>1, PersistFacts
  <2>3. sn \in 0..Len(log')
    BY <1>2, <2>2
  <2> QED
    BY <1>1, <1>18, <2>1, <2>3 DEF CommitReportedAsFailed, Persist, Fail, GoTo
<1>19. CASE AdoptReadModel
  <2>1. Snapshot(nextReadModel, Len(log))
    BY <1>1, <1>19 DEF AdoptReadModel
  <2>2. /\ "snapshotSequence" \in DOMAIN readModel' /\ readModel'.snapshotSequence = Len(log)
        /\ phase' \in {"publish", "republish"}
        /\ UNCHANGED <<log, dispatchStartSequence>>
    BY <1>19, <2>1 DEF AdoptReadModel, database, Snapshot
  <2>3. readModel'.snapshotSequence \in 0..Len(log') /\ dispatchStartSequence' \in Nat
    BY <1>2, <2>2
  <2> QED
    BY <2>2, <2>3
<1>20. CASE PublishEvent
  BY <1>1, <1>20 DEF PublishEvent, database
<1>21. CASE Succeed
  BY <1>1, <1>21 DEF Succeed, Reply, WorkerReset, database
<1>22. CASE ReadPersistedEvents
  <2>1. /\ sn = dispatchStartSequence
        /\ committedEvents' = SubSeq(log, dispatchStartSequence + 1, Len(log))
        /\ phase' = IF committedEvents' = <<>> THEN "answer" ELSE "fold"
        /\ progress' = 0 /\ nextReadModel' = readModel
        /\ UNCHANGED <<log, status, readModel, dispatchStartSequence>>
    BY <1>1, <1>22 DEF ReadPersistedEvents, GoTo, database
  <2>2. Len(committedEvents') = Len(log) - dispatchStartSequence
    BY <1>1, <1>2, <2>1, SubSeqFacts DEF IInv, DatabaseInv
  <2>3. committedEvents' = <<>> => sn = Len(log)
    <3>1. HAVE committedEvents' = <<>>
    <3>2. Len(log) - dispatchStartSequence = 0
      BY <2>2, <3>1, NilFacts
    <3>3. Len(log) \in Nat /\ dispatchStartSequence \in Nat
      BY <1>2
    <3>4. Len(log) = dispatchStartSequence
      BY <3>2, <3>3
    <3> QED
      BY <2>1, <3>4
  <2>4. dispatchStartSequence + Len(committedEvents') = Len(log)
    BY <1>2, <2>2
  <2>5. Snapshot(readModel, dispatchStartSequence + 0)
    BY <1>2, <2>1 DEF Snapshot
  <2> QED
    BY <1>1, <2>1, <2>3, <2>4, <2>5
<1>23. CASE FoldPersistedEvent
  <2> DEFINE event == committedEvents[progress + 1]
  <2>1. /\ phase = "fold" /\ phase' = phase /\ progress < Len(committedEvents)
        /\ nextReadModel' = projectEvent(nextReadModel, event)
        /\ progress' = progress + 1
        /\ UNCHANGED <<log, status, readModel, dispatchStartSequence, committedEvents>>
    BY <1>23 DEF FoldPersistedEvent, database
  <2>2. event.sequence = Len(log) - Len(committedEvents) + (progress + 1)
    <3>1. Numbered(committedEvents, Len(log) - Len(committedEvents))
      BY <2>1 DEF IInv, BatchInv
    <3>2. progress + 1 \in DOMAIN committedEvents
      BY <1>2, <2>1
    <3> QED
      BY <3>1, <3>2 DEF Numbered
  <2>3. /\ dispatchStartSequence + Len(committedEvents) = Len(log)
        /\ Snapshot(nextReadModel, dispatchStartSequence + progress)
    BY <1>1, <2>1
  <2>4. event.sequence = dispatchStartSequence + progress'
    BY <1>2, <2>1, <2>2, <2>3
  <2> HIDE DEF event
  <2>5. Snapshot(nextReadModel', dispatchStartSequence + progress')
    BY <2>1, <2>3, <2>4, FoldSetsSequence DEF Snapshot
  <2> QED
    BY <1>1, <2>1, <2>3, <2>5
<1>24. CASE EndReconcile
  BY <1>1, <1>24 DEF EndReconcile, GoTo, database
<1>25. CASE ReconcileFails
  BY <1>1, <1>25 DEF ReconcileFails, GoTo, database
<1>26. CASE RejectWithReceipt \/ RejectWithoutReceipt \/ AnswerFailure
  BY <1>1, <1>26 DEF RejectWithReceipt, RejectWithoutReceipt, AnswerFailure, Reply,
                     WorkerReset, database
<1>27. CASE (\E c \in Calls : dispatch(c))
            \/ (\E s \in Subscribers : streamDomainEvents(s) \/ GetSnapshot(s))
            \/ UNCHANGED vars
  BY <1>4, <1>27 DEF dispatch, streamDomainEvents, GetSnapshot, vars, database
<1> QED
  BY <1>5, <1>6, <1>7, <1>8, <1>9, <1>10, <1>11, <1>12, <1>13, <1>14, <1>15, <1>16,
     <1>17, <1>18, <1>19, <1>20, <1>21, <1>22, <1>23, <1>24, <1>25, <1>26, <1>27
  DEF Next, WorkerStep

-----------------------------------------------------------------------------
(* What callers and subscribers are told *)

\* The step answers the call the worker has in hand, and no other.
Replies(outcome, sequence) ==
    answer' = [answer EXCEPT ![envelope] = [status |-> outcome, sequence |-> sequence]]

\* While it is published, the batch ends where the log does.
LEMMA LastOfBatch ==
    ASSUME IInv, phase = "publish"
    PROVE  LastOf(committedEvents).sequence = Len(log) /\ Len(log) \in Nat
<1>1. /\ committedEvents # <<>> /\ Numbered(committedEvents, Len(log) - Len(committedEvents))
      /\ IsSeq(committedEvents) /\ IsSeq(log)
  BY DEF IInv, BatchInv, DatabaseInv
<1>2. Len(committedEvents) > 0
  BY <1>1, TailFacts
<1>3. Len(log) \in Nat /\ Len(committedEvents) \in DOMAIN committedEvents
  BY <1>1, <1>2, SeqDomain
<1> QED
  BY <1>1, <1>3, SeqDomain DEF Numbered, LastOf

\* The ways in which a step changes what callers know.
LEMMA AnswerChanges ==
    ASSUME IInv, [Next]_vars
    PROVE  \/ UNCHANGED answer
           \/ \E c \in Calls : /\ answer[c] = NotAnswered
                               /\ answer' = [answer EXCEPT ![c] = Waiting]
           \/ Crash
           \/ /\ phase = "lookup" /\ Accepted(commandId) /\ UNCHANGED receipts
              /\ Replies("ok", receipts[commandId].resultSequence)
           \/ /\ phase = "lookup" /\ Rejected(commandId) /\ UNCHANGED receipts
              /\ Replies("previouslyRejected", 0)
           \/ /\ phase = "publish" /\ UNCHANGED receipts
              /\ Replies("ok", LastOf(committedEvents).sequence)
           \/ RejectWithReceipt
           \/ /\ phase = "answer" /\ "receipt" \in Faults /\ UNCHANGED receipts
              /\ commandId \notin DOMAIN receipts
              /\ Replies("rejected", 0)
           \/ /\ phase = "answer" /\ UNCHANGED receipts
              /\ Replies("failed", 0)
<1>1. CASE ReceiptFound
  <2>1. /\ phase = "lookup" /\ commandId \in DOMAIN receipts /\ UNCHANGED receipts
        /\ IF receipts[commandId].status = "accepted"
             THEN Replies("ok", receipts[commandId].resultSequence)
             ELSE Replies("previouslyRejected", 0)
    BY <1>1 DEF ReceiptFound, Reply, Replies, database
  <2>2. receipts[commandId].status \in {"accepted", "rejected"}
    BY <2>1 DEF IInv, DatabaseInv, Receipts
  <2> QED
    BY <2>1, <2>2 DEF Accepted, Rejected
<1>2. CASE Succeed
  BY <1>2 DEF Succeed, Reply, Replies, database
<1>3. CASE RejectWithoutReceipt \/ AnswerFailure
  <2>1. error = "invariant" => commandId \notin DOMAIN receipts
    BY DEF IInv, ControlInv
  <2> QED
    BY <1>3, <2>1 DEF RejectWithoutReceipt, AnswerFailure, Reply, Replies, database
<1>4. CASE \E c \in Calls : dispatch(c)
  BY <1>4 DEF dispatch
<1>5. CASE \/ Start \/ Replay \/ Serve \/ Take \/ ReceiptMissing \/ LookupFails
           \/ DecideRejects \/ DecideAccepts \/ AppendEvent \/ TransactionFails
           \/ Commit \/ CommitReportedAsFailed \/ AdoptReadModel \/ PublishEvent
           \/ ReadPersistedEvents \/ FoldPersistedEvent \/ EndReconcile \/ ReconcileFails
           \/ (\E s \in Subscribers : streamDomainEvents(s) \/ GetSnapshot(s))
           \/ UNCHANGED vars
  BY <1>5 DEF Start, Replay, Serve, Take, ReceiptMissing, LookupFails,
     DecideRejects, DecideAccepts, AppendEvent, TransactionFails, Persist,
     Commit, CommitReportedAsFailed, AdoptReadModel, PublishEvent,
     ReadPersistedEvents, FoldPersistedEvent, EndReconcile, ReconcileFails,
     streamDomainEvents, GetSnapshot, vars
<1> QED
  BY <1>1, <1>2, <1>3, <1>4, <1>5 DEF Next, WorkerStep

\* What AnswersMatchReceipts says of one call.
AnswerMatches(c) ==
    LET id == CommandOf[c].commandId
    IN  /\ answer[c].status = "ok" =>
              Accepted(id) /\ answer[c].sequence = receipts[id].resultSequence
        /\ answer[c].status = "previouslyRejected" => Rejected(id)
        /\ answer[c].status = "rejected" /\ "receipt" \notin Faults => Rejected(id)

\* Every step preserves what callers are told: an answer that stands stays right
\* because receipts are final, and a new one repeats its receipt.
LEMMA AnswerStep ==
    ASSUME IInv, [Next]_vars
    PROVE  /\ (answer \in [Calls -> [status : Outcomes, sequence : Nat]])'
           /\ AnswersMatchReceipts'
<1> DEFINE T == [Calls -> [status : Outcomes, sequence : Nat]]
<1>1. answer \in T /\ \A c \in Calls : AnswerMatches(c)
  BY DEF IInv, ClientInv, AnswersMatchReceipts, AnswerMatches
<1>2. ASSUME NEW c \in Calls, answer'[c] = answer[c] PROVE AnswerMatches(c)'
  BY <1>1, <1>2, Finality DEF AnswerMatches, Accepted, Rejected
<1>3. SUFFICES answer' \in T /\ \A c \in Calls : AnswerMatches(c)'
  BY DEF AnswersMatchReceipts, AnswerMatches
<1>4. ASSUME NEW e \in Calls, NEW outcome \in Outcomes, NEW n \in Nat,
             answer' = [answer EXCEPT ![e] = [status |-> outcome, sequence |-> n]],
             outcome = "ok" => /\ Accepted(CommandOf[e].commandId)'
                               /\ n = receipts'[CommandOf[e].commandId].resultSequence,
             outcome = "previouslyRejected" => Rejected(CommandOf[e].commandId)',
             outcome = "rejected" /\ "receipt" \notin Faults => Rejected(CommandOf[e].commandId)'
      PROVE  answer' \in T /\ \A c \in Calls : AnswerMatches(c)'
  <2> DEFINE a == [status |-> outcome, sequence |-> n]
  <2>1. a \in [status : Outcomes, sequence : Nat] /\ a.status = outcome /\ a.sequence = n
    OBVIOUS
  <2>2. answer' = [answer EXCEPT ![e] = a]
    BY <1>4
  <2> HIDE DEF a
  <2>3. answer' \in T
    BY <1>1, <2>1, <2>2
  <2>4. answer'[e] = a /\ \A c \in Calls : c # e => answer'[c] = answer[c]
    BY <1>1, <2>2
  <2>5. AnswerMatches(e)'
    BY <1>4, <2>1, <2>4 DEF AnswerMatches
  <2> QED
    BY <1>2, <2>3, <2>4, <2>5
<1>5. ASSUME phase # "idle"
      PROVE  \E e \in Calls : e = envelope /\ commandId = CommandOf[e].commandId
  BY <1>5 DEF IInv, ControlInv, commandId, Command
<1>6. CASE UNCHANGED answer
  BY <1>1, <1>2, <1>6
<1>7. CASE \E c \in Calls : /\ answer[c] = NotAnswered
                           /\ answer' = [answer EXCEPT ![c] = Waiting]
  BY <1>4, <1>7 DEF Waiting, Outcomes
<1>8. CASE Crash
  <2>1. \A c \in Calls : answer'[c] = IF answer[c] = Waiting
                                        THEN [answer[c] EXCEPT !.status = "lost"] ELSE answer[c]
    BY <1>8 DEF Crash
  <2>2. answer' \in T
    BY <1>1, <1>8 DEF Crash, Waiting, Outcomes
  <2>3. ASSUME NEW c \in Calls PROVE AnswerMatches(c)'
    <3>1. CASE answer[c] = Waiting
      <4>1. answer'[c].status = "lost"
        BY <2>1, <3>1 DEF Waiting
      <4> QED
        BY <4>1 DEF AnswerMatches
    <3>2. CASE answer[c] # Waiting
      BY <1>2, <2>1, <3>2
    <3> QED
      BY <3>1, <3>2
  <2> QED
    BY <2>2, <2>3
<1>9. CASE /\ phase = "lookup" /\ Accepted(commandId) /\ UNCHANGED receipts
           /\ Replies("ok", receipts[commandId].resultSequence)
  <2>1. PICK e \in Calls : e = envelope /\ commandId = CommandOf[e].commandId
    BY <1>5, <1>9
  <2>2. receipts[commandId].resultSequence \in Nat
    BY <1>9 DEF Accepted, IInv, DatabaseInv, Receipts
  <2>3. /\ Accepted(CommandOf[e].commandId)'
        /\ receipts[commandId].resultSequence = receipts'[CommandOf[e].commandId].resultSequence
    BY <1>9, <2>1 DEF Accepted
  <2> QED
    BY <1>4, <1>9, <2>1, <2>2, <2>3 DEF Replies, Outcomes
<1>10. CASE /\ phase = "lookup" /\ Rejected(commandId) /\ UNCHANGED receipts
            /\ Replies("previouslyRejected", 0)
  <2>1. PICK e \in Calls : e = envelope /\ commandId = CommandOf[e].commandId
    BY <1>5, <1>10
  <2>2. Rejected(CommandOf[e].commandId)'
    BY <1>10, <2>1 DEF Rejected
  <2> QED
    BY <1>4, <1>10, <2>1, <2>2 DEF Replies, Outcomes
<1>11. CASE /\ phase = "publish" /\ UNCHANGED receipts
            /\ Replies("ok", LastOf(committedEvents).sequence)
  <2>1. PICK e \in Calls : e = envelope /\ commandId = CommandOf[e].commandId
    BY <1>5, <1>11
  <2>2. /\ Accepted(commandId) /\ receipts[commandId].resultSequence = Len(log)
        /\ LastOf(committedEvents).sequence = Len(log) /\ Len(log) \in Nat
    BY <1>11, LastOfBatch DEF IInv, BatchInv
  <2>3. /\ Accepted(CommandOf[e].commandId)'
        /\ Len(log) = receipts'[CommandOf[e].commandId].resultSequence
    BY <1>11, <2>1, <2>2 DEF Accepted
  <2> QED
    BY <1>4, <1>11, <2>1, <2>2, <2>3 DEF Replies, Outcomes
<1>12. CASE RejectWithReceipt
  <2>1. PICK e \in Calls : e = envelope /\ commandId = CommandOf[e].commandId
    BY <1>5, <1>12 DEF RejectWithReceipt
  <2>2. PICK n \in Nat : receipts' = Put(receipts, commandId, [status |-> "rejected",
                                                               resultSequence |-> n])
    BY <1>12, RejectFacts
  <2>3. Rejected(CommandOf[e].commandId)'
    BY <2>1, <2>2 DEF Rejected, Put
  <2> QED
    BY <1>4, <1>12, <2>1, <2>3 DEF RejectWithReceipt, Reply, Outcomes
<1>13. CASE /\ phase = "answer" /\ "receipt" \in Faults /\ UNCHANGED receipts
            /\ commandId \notin DOMAIN receipts
            /\ Replies("rejected", 0)
  BY <1>4, <1>5, <1>13 DEF Replies, Outcomes
<1>14. CASE /\ phase = "answer" /\ UNCHANGED receipts
            /\ Replies("failed", 0)
  BY <1>4, <1>5, <1>14 DEF Replies, Outcomes
<1> QED
  BY <1>6, <1>7, <1>8, <1>9, <1>10, <1>11, <1>12, <1>13, <1>14, AnswerChanges

\* Every step preserves what subscribers were told: an event is published only once the
\* read model and the projections have it, and outside a crash neither goes back.
LEMMA DeliveryStep ==
    ASSUME IInv, [Next]_vars
    PROVE  /\ (inbox \in [Subscribers -> Seq(Nat)])'
           /\ DeliveredIsVisible'
<1> DEFINE sn == readModel.snapshotSequence
<1>1. /\ Len(log) \in Nat /\ sn \in 0..Len(log) /\ projection = Len(log)
      /\ inbox \in [Subscribers -> Seq(Nat)]
      /\ \A s \in Subscribers : \A i \in DOMAIN inbox[s] :
            inbox[s][i] <= sn /\ inbox[s][i] <= projection
  BY SeqDomain DEF IInv, DatabaseInv, ModelInv, ClientInv, DeliveredIsVisible
<1>2. /\ Len(log') \in Nat /\ readModel'.snapshotSequence \in 0..Len(log')
      /\ projection' = Len(log')
  BY DatabaseStep, ModelStep, SeqDomain DEF DatabaseInv, ModelInv
<1>3. Len(log) <= Len(log')
  BY Finality
<1>4. CASE UNCHANGED inbox /\ sn <= readModel'.snapshotSequence
  <2>1. ASSUME NEW s \in Subscribers, NEW i \in DOMAIN inbox[s]
        PROVE  inbox[s][i] <= readModel'.snapshotSequence /\ inbox[s][i] <= projection'
    <3>1. inbox[s][i] \in Nat /\ inbox[s][i] <= sn
      BY <1>1
    <3> QED
      BY <1>1, <1>2, <1>3, <1>4, <3>1
  <2> QED
    BY <1>1, <1>4, <2>1 DEF DeliveredIsVisible
<1>5. CASE Crash
  BY <1>5 DEF Crash, DeliveredIsVisible
<1>6. CASE PublishEvent
  <2> DEFINE e == committedEvents[progress + 1].sequence
  <2>1. /\ readModel' = readModel /\ projection' = projection
        /\ inbox' = [s \in Subscribers |-> IF s \in subscribed THEN Append(inbox[s], e)
                                                               ELSE inbox[s]]
    BY <1>6 DEF PublishEvent, database
  <2>2. sn = Len(log)
    BY <1>6 DEF PublishEvent, IInv, ModelInv
  <2>3. e \in Nat /\ e <= Len(log)
    <3>1. /\ IsSeq(committedEvents) /\ progress \in 0..Len(committedEvents)
          /\ progress < Len(committedEvents)
          /\ Numbered(committedEvents, Len(log) - Len(committedEvents))
          /\ \A i \in DOMAIN committedEvents : committedEvents[i].sequence \in Nat
      BY <1>6 DEF PublishEvent, IInv, BatchInv
    <3>2. progress + 1 \in DOMAIN committedEvents /\ Len(committedEvents) \in Nat
      BY <3>1, SeqDomain
    <3>3. e = Len(log) - Len(committedEvents) + (progress + 1) /\ e \in Nat
      BY <3>1, <3>2 DEF Numbered
    <3> QED
      BY <1>1, <3>1, <3>2, <3>3
  <2> HIDE DEF e
  <2>4. inbox' \in [Subscribers -> Seq(Nat)]
    BY <1>1, <2>1, <2>3
  <2>5. ASSUME NEW s \in Subscribers, NEW i \in DOMAIN inbox'[s]
        PROVE  inbox'[s][i] <= Len(log)
    <3>1. inbox[s] \in Seq(Nat)
      BY <1>1
    <3>2. CASE inbox'[s] = inbox[s]
      BY <1>1, <3>2
    <3>3. CASE inbox'[s] = Append(inbox[s], e)
      <4>1. i \in DOMAIN inbox[s] \/ inbox'[s][i] = e
        BY <2>3, <3>1, <3>3
      <4>2. i \in DOMAIN inbox[s] => inbox'[s][i] = inbox[s][i]
        BY <2>3, <3>1, <3>3
      <4> QED
        BY <1>1, <2>3, <4>1, <4>2
    <3> QED
      BY <2>1, <3>2, <3>3
  <2> QED
    BY <1>1, <2>1, <2>2, <2>4, <2>5 DEF DeliveredIsVisible
<1>7. CASE Replay
  <2>1. UNCHANGED inbox
    BY <1>7 DEF Replay, streams
  <2>2. readModel'.snapshotSequence = log[sn + 1].sequence /\ sn + 1 \in 1..Len(log)
    BY <1>1, <1>7, FoldSetsSequence DEF Replay, IInv, ModelInv
  <2>3. log[sn + 1].sequence = sn + 1
    BY <1>1, <2>2, SeqDomain DEF IInv, DatabaseInv, Numbered
  <2> QED
    BY <1>1, <1>4, <2>1, <2>2, <2>3
<1>8. CASE AdoptReadModel
  <2>1. UNCHANGED <<inbox, log>> /\ phase' \in {"publish", "republish"}
    BY <1>8 DEF AdoptReadModel, streams, database
  <2>2. readModel'.snapshotSequence = Len(log)
    BY <2>1, ModelStep DEF ModelInv
  <2> QED
    BY <1>1, <1>4, <2>1, <2>2
<1>9. CASE UNCHANGED <<inbox, readModel>>
  BY <1>1, <1>4, <1>9
<1> QED
  BY <1>5, <1>6, <1>7, <1>8, <1>9 DEF Next, WorkerStep, vars, streams, Start, Serve, dispatch,
     streamDomainEvents, GetSnapshot, Take, ReceiptFound, ReceiptMissing, LookupFails,
     DecideRejects, DecideAccepts, AppendEvent, TransactionFails, Persist, Commit,
     CommitReportedAsFailed, Succeed, ReadPersistedEvents, FoldPersistedEvent, EndReconcile,
     ReconcileFails, RejectWithReceipt, RejectWithoutReceipt, AnswerFailure

\* Every step preserves ClientInv.
LEMMA ClientStep ==
    ASSUME IInv, [Next]_vars
    PROVE  ClientInv'
<1>1. commandQueue' \in Seq(Calls) /\ subscribed' \subseteq Subscribers
  <2>1. commandQueue \in Seq(Calls) /\ subscribed \subseteq Subscribers
    BY DEF IInv, ClientInv
  <2>2. CASE Crash
    BY <2>2 DEF Crash
  <2>3. CASE \E c \in Calls : dispatch(c)
    BY <2>1, <2>3 DEF dispatch, streams
  <2>4. CASE Take
    BY <2>1, <2>4 DEF Take, streams
  <2>5. CASE \E s \in Subscribers : streamDomainEvents(s)
    BY <2>1, <2>5 DEF streamDomainEvents
  <2>6. CASE UNCHANGED <<commandQueue, subscribed>>
    BY <2>1, <2>6
  <2> QED
    BY <2>2, <2>3, <2>4, <2>5, <2>6 DEF Next, WorkerStep, vars, streams, Start, Replay, Serve,
       GetSnapshot, ReceiptFound, ReceiptMissing, LookupFails,
       DecideRejects, DecideAccepts, AppendEvent, TransactionFails, Persist, Commit,
       CommitReportedAsFailed, AdoptReadModel, PublishEvent, Succeed, ReadPersistedEvents,
       FoldPersistedEvent, EndReconcile, ReconcileFails, RejectWithReceipt,
       RejectWithoutReceipt, AnswerFailure
<1> QED
  BY <1>1, AnswerStep, DeliveryStep DEF ClientInv

\* Every step preserves QueueInv.
LEMMA QueueStep ==
    ASSUME IInv, [Next]_vars
    PROVE  QueueInv'
<1>1. /\ QueueInv
      /\ commandQueue \in Seq(Calls)
      /\ DOMAIN answer = Calls
      /\ phase # "idle" => envelope \in Calls
  BY DEF IInv, ControlInv, ClientInv
<1>2. CASE UNCHANGED <<commandQueue, answer, envelope>> /\ (phase' # "idle" => phase # "idle")
  BY <1>1, <1>2 DEF QueueInv
<1>3. CASE Crash
  BY <1>3 DEF Crash, WorkerReset, QueueInv
<1>4. CASE Take
  <2>1. /\ commandQueue # <<>> /\ envelope' = Head(commandQueue)
        /\ commandQueue' = Tail(commandQueue) /\ answer' = answer
    BY <1>4 DEF Take
  <2>2. /\ Len(commandQueue) \in Nat /\ DOMAIN commandQueue = 1..Len(commandQueue)
        /\ IsSeq(commandQueue)
    BY <1>1 DEF IsSeq
  <2>3. /\ Len(commandQueue) > 0 /\ Head(commandQueue) = commandQueue[1]
        /\ IsSeq(commandQueue') /\ Len(commandQueue') = Len(commandQueue) - 1
        /\ \A i \in 1..Len(commandQueue') : commandQueue'[i] = commandQueue[i + 1]
    BY <2>1, <2>2, TailFacts
  <2>4. DOMAIN commandQueue' = 1..(Len(commandQueue) - 1)
    BY <2>3, SeqDomain
  <2>5. /\ 1 \in DOMAIN commandQueue
        /\ \A i \in DOMAIN commandQueue' :
              /\ i \in Nat \ {0} /\ i + 1 \in DOMAIN commandQueue
              /\ commandQueue'[i] = commandQueue[i + 1]
    BY <2>2, <2>3, <2>4
  <2>6. /\ answer'[envelope'] = Waiting
        /\ \A i \in DOMAIN commandQueue' : answer'[commandQueue'[i]] = Waiting
    BY <1>1, <2>1, <2>3, <2>5 DEF QueueInv
  <2>7. \A i \in DOMAIN commandQueue' : commandQueue'[i] # envelope'
    <3> TAKE i \in DOMAIN commandQueue'
    <3>1. i + 1 # 1
      BY <2>5
    <3> QED
      BY <1>1, <2>1, <2>3, <2>5, <3>1 DEF QueueInv
  <2>8. \A i, j \in DOMAIN commandQueue' : commandQueue'[i] = commandQueue'[j] => i = j
    <3> TAKE i, j \in DOMAIN commandQueue'
    <3>1. HAVE commandQueue'[i] = commandQueue'[j]
    <3>2. i + 1 = j + 1
      BY <1>1, <2>5, <3>1 DEF QueueInv
    <3> QED
      BY <2>5, <3>2
  <2> QED
    BY <2>6, <2>7, <2>8 DEF QueueInv
<1>5. ASSUME NEW c \in Calls, dispatch(c) PROVE QueueInv'
  <2>1. /\ answer[c] = NotAnswered /\ commandQueue' = Append(commandQueue, c)
        /\ answer' = [answer EXCEPT ![c] = Waiting]
        /\ UNCHANGED <<phase, envelope>>
    BY <1>5 DEF dispatch, worker
  <2>2. NotAnswered # Waiting
    BY DEF NotAnswered, Waiting
  <2>3. /\ Len(commandQueue) \in Nat /\ DOMAIN commandQueue = 1..Len(commandQueue)
        /\ IsSeq(commandQueue)
    BY <1>1 DEF IsSeq
  <2>4. /\ IsSeq(commandQueue') /\ Len(commandQueue') = Len(commandQueue) + 1
        /\ \A i \in 1..Len(commandQueue) : commandQueue'[i] = commandQueue[i]
        /\ commandQueue'[Len(commandQueue) + 1] = c
    BY <2>1, <2>3, AppendFacts
  <2>5. \A i \in DOMAIN commandQueue' :
            i \in DOMAIN commandQueue \/ i = Len(commandQueue) + 1
    BY <2>3, <2>4, SeqDomain
  <2>6. /\ answer'[c] = Waiting
        /\ \A d \in Calls : answer[d] = Waiting => answer'[d] = Waiting /\ d # c
    BY <1>1, <2>1, <2>2
  <2>7. \A i \in DOMAIN commandQueue : commandQueue[i] \in Calls /\ commandQueue[i] # c
    BY <1>1, <2>6 DEF QueueInv
  <2>8. \A i \in DOMAIN commandQueue' : answer'[commandQueue'[i]] = Waiting
    BY <1>1, <2>3, <2>4, <2>5, <2>6, <2>7 DEF QueueInv
  <2>9. \A i, j \in DOMAIN commandQueue' : commandQueue'[i] = commandQueue'[j] => i = j
    BY <1>1, <2>3, <2>4, <2>5, <2>7 DEF QueueInv
  <2>10. phase' # "idle" => /\ answer'[envelope'] = Waiting
                            /\ \A i \in DOMAIN commandQueue' : commandQueue'[i] # envelope'
    BY <1>1, <2>1, <2>3, <2>4, <2>5, <2>6 DEF QueueInv
  <2> QED
    BY <2>8, <2>9, <2>10 DEF QueueInv
<1>6. ASSUME NEW outcome, NEW n, phase # "idle", Reply(outcome, n), UNCHANGED commandQueue
      PROVE  QueueInv'
  <2>1. phase' = "idle" /\ answer' = [answer EXCEPT ![envelope] = [status |-> outcome, sequence |-> n]]
    BY <1>6 DEF Reply, WorkerReset
  <2>2. \A i \in DOMAIN commandQueue : answer'[commandQueue[i]] = answer[commandQueue[i]]
    BY <1>1, <1>6, <2>1 DEF QueueInv
  <2> QED
    BY <1>1, <1>6, <2>1, <2>2 DEF QueueInv
<1>7. CASE ReceiptFound \/ Succeed \/ RejectWithReceipt \/ RejectWithoutReceipt \/ AnswerFailure
  BY <1>6, <1>7 DEF ReceiptFound, Succeed, RejectWithReceipt, RejectWithoutReceipt, AnswerFailure
<1>8. CASE (\E s \in Subscribers : streamDomainEvents(s) \/ GetSnapshot(s)) \/ UNCHANGED vars
           \/ Start \/ Replay \/ Serve
  BY <1>2, <1>8 DEF streamDomainEvents, GetSnapshot, vars, worker, Start, Replay, Serve
<1>9. CASE ReceiptMissing \/ LookupFails \/ DecideRejects \/ DecideAccepts
  BY <1>2, <1>9 DEF ReceiptMissing, LookupFails, DecideRejects, DecideAccepts, Fail, GoTo
<1>10. CASE AppendEvent \/ TransactionFails \/ Commit \/ CommitReportedAsFailed
  BY <1>2, <1>10 DEF AppendEvent, TransactionFails, Persist, Commit, CommitReportedAsFailed,
                     Fail, GoTo
<1>11. CASE AdoptReadModel \/ PublishEvent
  BY <1>2, <1>11 DEF AdoptReadModel, PublishEvent
<1>12. CASE ReadPersistedEvents \/ FoldPersistedEvent \/ EndReconcile \/ ReconcileFails
  BY <1>2, <1>12 DEF ReadPersistedEvents, FoldPersistedEvent, EndReconcile, ReconcileFails, GoTo
<1> QED
  BY <1>3, <1>4, <1>5, <1>7, <1>8, <1>9, <1>10, <1>11, <1>12 DEF Next, WorkerStep

-----------------------------------------------------------------------------
(* The theorems *)

\* The invariant is inductive.
LEMMA InductiveStep == IInv /\ [Next]_vars => IInv'
BY DatabaseStep, ControlStep, BatchStep, ModelStep, ClientStep, QueueStep DEF IInv

\* Every reachable state of the engine satisfies the inductive invariant.
THEOREM Invariance == Spec => []IInv
<1>1. Init => IInv
  BY InitIInv
<1>2. IInv /\ [Next]_vars => IInv'
  BY InductiveStep
<1> QED
  BY <1>1, <1>2, PTL DEF Spec

\* The engine is type correct, and an event's sequence is its place in the log.
THEOREM TypeCorrectness == Spec => []TypeOK
BY Invariance, IInvImpliesTypeOK, PTL

\* Whatever is retried, fails or crashes, an accepted command is in the log exactly
\* once and as a whole, and a command that was not accepted not at all.
THEOREM ExactlyOnceHolds == Spec => []ExactlyOnce
<1>1. IInv => ExactlyOnce
  BY DEF IInv, DatabaseInv
<1> QED
  BY <1>1, Invariance, PTL

\* Callers are told what the receipts record.
THEOREM AnswersMatchReceiptsHolds == Spec => []AnswersMatchReceipts
<1>1. IInv => AnswersMatchReceipts
  BY DEF IInv, ClientInv
<1> QED
  BY <1>1, Invariance, PTL

\* The read model holds only committed events, and unless a read back failed the worker
\* decides against all of them.
THEOREM DecidesOnWholeLogHolds == Spec => []DecidesOnWholeLog
<1>1. IInv => DecidesOnWholeLog
  BY DEF IInv, ModelInv
<1> QED
  BY <1>1, Invariance, PTL

\* A subscriber hears of an event only when the read model and the SQL projections have it.
THEOREM DeliveredIsVisibleHolds == Spec => []DeliveredIsVisible
<1>1. IInv => DeliveredIsVisible
  BY DEF IInv, ClientInv
<1> QED
  BY <1>1, Invariance, PTL

\* No step of the engine changes or drops a stored event or a receipt.
THEOREM FinalityHolds == Spec => LogAndReceiptsAreFinal
<1> DEFINE Kept == /\ Len(log) <= Len(log')
                   /\ \A i \in DOMAIN log : log'[i] = log[i]
                   /\ \A id \in DOMAIN receipts :
                         id \in DOMAIN receipts' /\ receipts'[id] = receipts[id]
<1>1. IInv /\ [Next]_vars => [Kept]_vars
  BY Finality
<1>2. LogAndReceiptsAreFinal <=> [][Kept]_vars
  BY DEF LogAndReceiptsAreFinal
<1> HIDE DEF Kept
<1>3. Spec => [][Kept]_vars
  BY <1>1, Invariance, PTL DEF Spec
<1> QED
  BY <1>2, <1>3

-----------------------------------------------------------------------------
(* The engine implements the command log. *)

\* The log and the decisions as the command log sees them.
AbstractLog == [i \in DOMAIN log |-> log[i].commandId]
AbstractDecision == [id \in CommandIds |-> DecisionOf(id)]

\* A commit, reported as such or not, accepts its command.
LEMMA AcceptStep ==
    ASSUME IInv, Persist, NEW id, id = commandId
    PROVE  id \in CommandIds /\ Abstract!Accept(id)
<1> DEFINE k == Len(committedEvents)
           X == [i \in 1..k |-> id]
<1>1. id \in CommandIds /\ DecisionOf(id) = [status |-> "undecided", sequence |-> 0]
  BY PersistFacts DEF DecisionOf, Accepted, Rejected
<1>2. /\ Len(log) \in Nat /\ DOMAIN log = 1..Len(log)
      /\ \A i \in DOMAIN log : log[i].commandId \in CommandIds
  BY SeqDomain DEF IInv, DatabaseInv
<1>3. k \in 1..2
  BY PersistFacts DEF EventCount
<1>4. AbstractLog \in Seq(CommandIds) /\ Len(AbstractLog) = Len(log)
  BY <1>2 DEF AbstractLog
<1>5. X \in Seq(CommandIds) /\ Len(X) = k /\ \A i \in 1..k : X[i] = id
  BY <1>1, <1>3
<1>6. /\ Len(log') = Len(log) + k /\ Len(log') \in Nat
      /\ DOMAIN log' = 1..Len(log')
      /\ \A i \in 1..Len(log) : log'[i] = log[i]
      /\ \A i \in 1..k : log'[Len(log) + i].commandId = id
  BY <1>2, <1>3, PersistFacts
<1>7. \A i \in 1..Len(log') : i \in 1..Len(log) \/ \E j \in 1..k : i = Len(log) + j
  <2>1. \A i \in 1..Len(log') : i \in 1..Len(log) \/ i - Len(log) \in 1..k
    BY <1>2, <1>3, <1>6
  <2> QED
    BY <1>2, <2>1
<1> HIDE DEF X, k
<1>8. \A i \in 1..Len(log') : log'[i].commandId \in CommandIds
  BY <1>1, <1>2, <1>6, <1>7
<1>9. AbstractLog' \in Seq(CommandIds) /\ Len(AbstractLog') = Len(log')
  BY <1>6, <1>8 DEF AbstractLog
<1>10. /\ AbstractLog \o X \in Seq(CommandIds)
       /\ Len(AbstractLog \o X) = Len(log')
       /\ \A i \in 1..Len(log) : (AbstractLog \o X)[i] = AbstractLog[i]
       /\ \A i \in 1..k : (AbstractLog \o X)[Len(log) + i] = id
  BY <1>3, <1>4, <1>5, <1>6, ConcatFacts DEF IsSeq
<1>11. \A i \in 1..Len(log') : AbstractLog'[i] = (AbstractLog \o X)[i]
  BY <1>2, <1>6, <1>7, <1>10 DEF AbstractLog
<1>12. AbstractLog' = AbstractLog \o X
  BY <1>9, <1>10, <1>11, SeqEqual
<1>13. /\ \A d : Accepted(d)' <=> Accepted(d) \/ d = id
       /\ \A d : Rejected(d)' <=> Rejected(d)
       /\ \A d \in DOMAIN receipts : receipts'[d] = receipts[d]
       /\ receipts'[id].resultSequence = Len(log')
  BY PersistFacts DEF Accepted, Rejected, Put
<1>14. AbstractDecision' = [AbstractDecision EXCEPT ![id] = [status |-> "accepted",
                                                           sequence |-> Len(AbstractLog')]]
  <2>1. \A d \in CommandIds : d # id => DecisionOf(d)' = DecisionOf(d)
    BY <1>13 DEF DecisionOf, Accepted
  <2>2. DecisionOf(id)' = [status |-> "accepted", sequence |-> Len(AbstractLog')]
    <3>1. Accepted(id)' /\ ~Rejected(id)'
      BY <1>13 DEF Accepted, Rejected
    <3>2. receipts'[id].resultSequence = Len(AbstractLog')
      BY <1>9, <1>13
    <3> QED
      BY <3>1, <3>2 DEF DecisionOf
  <2> QED
    BY <1>1, <2>1, <2>2 DEF AbstractDecision
<1>15. answer' = answer
  BY DEF Persist
<1> QED
  BY <1>1, <1>3, <1>12, <1>14, <1>15
  DEF Abstract!Accept, Abstract!Undecided, AbstractLog, AbstractDecision, X

\* Writing a rejected receipt rejects the command and tells its caller.
LEMMA RejectStep ==
    ASSUME IInv, RejectWithReceipt, NEW c \in Calls, c = envelope
    PROVE  Abstract!Reject(c)
<1> DEFINE id == CommandOf[c].commandId
<1>1. id = commandId /\ answer[c] = Waiting
  BY DEF commandId, Command, IInv, QueueInv, RejectWithReceipt
<1>2. id \in CommandIds /\ DecisionOf(id) = [status |-> "undecided", sequence |-> 0]
  BY <1>1, RejectFacts DEF DecisionOf, Accepted, Rejected
<1>3. PICK n \in Nat : receipts' = Put(receipts, id, [status |-> "rejected",
                                                      resultSequence |-> n])
  BY <1>1, RejectFacts
<1>4. log' = log /\ answer' = [answer EXCEPT ![c] = [status |-> "rejected", sequence |-> 0]]
  BY DEF RejectWithReceipt, Reply
<1>5. id \notin DOMAIN receipts
  BY <1>1, RejectFacts
<1> HIDE DEF id
<1>6. \A d : d # id => (Accepted(d)' <=> Accepted(d)) /\ (Rejected(d)' <=> Rejected(d))
                       /\ (Accepted(d) => receipts'[d] = receipts[d])
  BY <1>3, <1>5 DEF Accepted, Rejected, Put
<1>7. ~Accepted(id)' /\ Rejected(id)'
  BY <1>3 DEF Accepted, Rejected, Put
<1>8. DecisionOf(id)' = [status |-> "rejected", sequence |-> 0]
  BY <1>7 DEF DecisionOf
<1>9. \A d \in CommandIds : d # id => DecisionOf(d)' = DecisionOf(d)
  BY <1>6 DEF DecisionOf
<1>10. AbstractDecision' = [AbstractDecision EXCEPT ![id] = [status |-> "rejected", sequence |-> 0]]
  BY <1>2, <1>8, <1>9 DEF AbstractDecision
<1>11. CommandOfId[c] = id /\ AbstractDecision[id] = [status |-> "undecided", sequence |-> 0]
  BY <1>2 DEF CommandOfId, AbstractDecision, id
<1> QED
  BY <1>1, <1>4, <1>10, <1>11
  DEF Abstract!Reject, Abstract!Waiting, Waiting, Abstract!Undecided, Abstract!Rejection, AbstractLog, AbstractDecision

\* Every other answer tells a decision that was made, or a failure.
LEMMA TellStep ==
    ASSUME IInv, UNCHANGED <<log, receipts>>, NEW c \in Calls, c = envelope, phase # "idle",
           \/ /\ Accepted(commandId)
              /\ Replies("ok", receipts[commandId].resultSequence)
           \/ Rejected(commandId) /\ Replies("previouslyRejected", 0)
           \/ Replies("failed", 0)
    PROVE  Abstract!Tell(c)
<1> DEFINE id == CommandOf[c].commandId
<1>1. id = commandId /\ answer[c] = Waiting /\ id \in CommandIds
  BY DEF commandId, Command, CommandIds, IInv, QueueInv
<1>2. Accepted(id) => DecisionOf(id) = [status |-> "accepted",
                                        sequence |-> receipts[id].resultSequence]
  BY DEF DecisionOf, Accepted, Rejected
<1>3. Rejected(id) => DecisionOf(id) = [status |-> "rejected", sequence |-> 0]
  BY DEF DecisionOf, Accepted, Rejected
<1>4. CommandOfId[c] = id /\ AbstractDecision[id] = DecisionOf(id)
  BY <1>1 DEF CommandOfId, AbstractDecision
<1>5. AbstractLog' = AbstractLog /\ AbstractDecision' = AbstractDecision
  BY DEF AbstractLog, AbstractDecision, DecisionOf, Accepted, Rejected
<1> HIDE DEF id
<1>6. \/ /\ DecisionOf(id).status = "accepted"
         /\ answer' = [answer EXCEPT ![c] = [status |-> "ok", sequence |-> DecisionOf(id).sequence]]
      \/ /\ DecisionOf(id) = [status |-> "rejected", sequence |-> 0]
         /\ answer' = [answer EXCEPT ![c] = [status |-> "previouslyRejected", sequence |-> 0]]
      \/ answer' = [answer EXCEPT ![c] = [status |-> "failed", sequence |-> 0]]
  BY <1>1, <1>2, <1>3 DEF Replies
<1> QED
  BY <1>1, <1>4, <1>5, <1>6
  DEF Abstract!Tell, Abstract!Waiting, Waiting, Abstract!Rejection, AbstractLog, AbstractDecision

\* Every step of the engine is a step of the command log or leaves it as it is.
LEMMA RefinementStep ==
    ASSUME IInv, [Next]_vars
    PROVE  [Abstract!Next]_(Abstract!vars)
<1>1. ASSUME phase # "idle"
      PROVE  \E c \in Calls : c = envelope /\ commandId = CommandOf[c].commandId
                              /\ answer[c] = Waiting
  BY <1>1 DEF IInv, ControlInv, QueueInv, commandId, Command
<1>2. CASE Persist
  BY <1>2, AcceptStep DEF Abstract!Next
<1>3. CASE RejectWithReceipt
  <2>1. PICK c \in Calls : c = envelope
    BY <1>1, <1>3 DEF RejectWithReceipt
  <2>2. Abstract!Reject(c)
    BY <1>3, <2>1, RejectStep
  <2> QED
    BY <2>2 DEF Abstract!Next
<1>4. CASE UNCHANGED database /\ ~RejectWithReceipt
  <2>1. log' = log /\ receipts' = receipts /\ AbstractLog' = AbstractLog
        /\ AbstractDecision' = AbstractDecision
    BY <1>4 DEF database, AbstractLog, AbstractDecision, DecisionOf, Accepted, Rejected
  <2>2. CASE UNCHANGED answer
    BY <2>1, <2>2 DEF Abstract!vars, AbstractLog, AbstractDecision
  <2>3. ASSUME NEW c \in Calls, answer[c] = NotAnswered, answer' = [answer EXCEPT ![c] = Waiting]
        PROVE  Abstract!Next
    <3>1. Abstract!Ask(c)
      BY <2>1, <2>3 DEF Abstract!Ask, Abstract!NotAnswered, Abstract!Waiting, NotAnswered,
                        Waiting, AbstractLog, AbstractDecision
    <3> QED
      BY <3>1 DEF Abstract!Next
  <2>4. CASE Crash
    <3>1. \A c \in Calls : answer[c] = Waiting =>
              [answer[c] EXCEPT !.status = "lost"] = [status |-> "lost", sequence |-> 0]
      BY DEF Waiting
    <3>2. answer' = [c \in Calls |-> IF answer[c] = Waiting
                                       THEN [status |-> "lost", sequence |-> 0] ELSE answer[c]]
      BY <2>4, <3>1 DEF Crash
    <3>3. Abstract!Lose
      BY <2>1, <3>2 DEF Abstract!Lose, Abstract!Waiting, Waiting, AbstractLog, AbstractDecision
    <3> QED
      BY <3>3 DEF Abstract!Next
  <2>5. ASSUME phase # "idle",
               \/ /\ Accepted(commandId)
                  /\ Replies("ok", receipts[commandId].resultSequence)
               \/ Rejected(commandId) /\ Replies("previouslyRejected", 0)
               \/ Replies("failed", 0)
        PROVE  Abstract!Next
    <3>1. PICK c \in Calls : c = envelope
      BY <1>1, <2>5
    <3>2. Abstract!Tell(c)
      BY <2>1, <2>5, <3>1, TellStep
    <3> QED
      BY <3>2 DEF Abstract!Next
  <2>6. CASE phase = "publish" /\ Replies("ok", LastOf(committedEvents).sequence)
    <3>1. Accepted(commandId) /\ LastOf(committedEvents).sequence = receipts[commandId].resultSequence
      BY <2>6, LastOfBatch DEF IInv, BatchInv
    <3> QED
      BY <2>5, <2>6, <3>1
  <2>7. CASE phase = "answer" /\ commandId \notin DOMAIN receipts /\ Replies("rejected", 0)
    <3>1. PICK c \in Calls : c = envelope /\ commandId = CommandOf[c].commandId
                             /\ answer[c] = Waiting
      BY <1>1, <2>7
    <3> DEFINE id == CommandOf[c].commandId
    <3>2. id \in CommandIds /\ CommandOfId[c] = id
      BY DEF CommandIds, CommandOfId
    <3>3. AbstractDecision[id] = [status |-> "undecided", sequence |-> 0]
      BY <2>7, <3>1, <3>2 DEF AbstractDecision, DecisionOf, Accepted, Rejected
    <3>4. answer' = [answer EXCEPT ![c] = [status |-> "rejected", sequence |-> 0]]
      BY <2>7, <3>1 DEF Replies
    <3> HIDE DEF id
    <3>5. Abstract!Reject(c)
      BY <2>1, <3>1, <3>2, <3>3, <3>4 DEF Abstract!Reject, Abstract!Waiting, Waiting,
         Abstract!Undecided, Abstract!Rejection, AbstractLog, AbstractDecision
    <3> QED
      BY <3>5 DEF Abstract!Next
  <2> QED
    BY <1>4, <2>2, <2>3, <2>4, <2>5, <2>6, <2>7, AnswerChanges
<1> QED
  BY <1>2, <1>3, <1>4, DatabaseChanges

\* The engine starts where the command log does.
LEMMA RefinementInit == Init => Abstract!Init
<1> SUFFICES ASSUME Init PROVE Abstract!Init
  OBVIOUS
<1>1. \A id \in CommandIds : DecisionOf(id) = [status |-> "undecided", sequence |-> 0]
  BY DEF Init, DecisionOf, Accepted, Rejected
<1>2. AbstractDecision = [id \in CommandIds |-> [status |-> "undecided", sequence |-> 0]]
  BY <1>1 DEF AbstractDecision
<1>3. AbstractLog = <<>>
  BY NilFacts DEF Init, AbstractLog
<1> QED
  BY <1>2, <1>3 DEF Init, NotAnswered, Abstract!Init, Abstract!Undecided, Abstract!NotAnswered, AbstractLog, AbstractDecision

\* The engine implements the command log, for every set of calls and every fault.
THEOREM Refinement == Spec => ImplementsCommandLog
<1>1. Init => Abstract!Init
  BY RefinementInit
<1>2. IInv /\ [Next]_vars => [Abstract!Next]_(Abstract!vars)
  BY RefinementStep
<1> QED
  BY <1>1, <1>2, Invariance, PTL DEF Spec, ImplementsCommandLog, Abstract!Spec

-----------------------------------------------------------------------------
(* The replay of a sequence of events *)

NextModel(models, events, n) ==
    IF n = 0 THEN createEmptyReadModel ELSE projectEvent(models[n - 1], events[n])

\* models are the read models up to the n-th event.
Replays(models, events, k) == models = [n \in 0..k |-> NextModel(models, events, n)]

LEMMA ReplaysFacts ==
    ASSUME NEW models, NEW events, NEW k \in Nat, Replays(models, events, k)
    PROVE  /\ models[0] = createEmptyReadModel
           /\ \A n \in 1..k : models[n] = projectEvent(models[n - 1], events[n])
<1>1. \A n \in 0..k : models[n] = NextModel(models, events, n)
  BY Zenon DEF Replays
<1>2. 0 \in 0..k /\ \A n \in 1..k : n \in 0..k /\ n # 0
  OBVIOUS
<1> QED
  BY <1>1, <1>2 DEF NextModel

LEMMA ReplayExists ==
    ASSUME NEW events, NEW k \in Nat
    PROVE  \E models : Replays(models, events, k)
<1> DEFINE T == {n \in Nat : \E models : Replays(models, events, n)}
<1>1. 0 \in T
  <2> DEFINE f == [n \in 0..0 |-> createEmptyReadModel]
  <2>1. \A n \in 0..0 : NextModel(f, events, n) = createEmptyReadModel
    BY DEF NextModel
  <2>2. Replays(f, events, 0)
    BY <2>1, Zenon DEF Replays
  <2> QED
    BY <2>2
<1>2. ASSUME NEW n \in T PROVE n + 1 \in T
  <2>1. PICK f : Replays(f, events, n)
    OBVIOUS
  <2> DEFINE g == [i \in 0..(n + 1) |-> IF i <= n THEN f[i] ELSE projectEvent(f[n], events[n + 1])]
  <2>2. ASSUME NEW i \in 0..(n + 1) PROVE g[i] = NextModel(g, events, i)
    <3>1. CASE i = 0
      <4>1. g[i] = f[0] /\ f[0] = createEmptyReadModel
        BY <2>1, <3>1, ReplaysFacts
      <4> QED
        BY <3>1, <4>1 DEF NextModel
    <3>2. CASE i \in 1..n
      <4>1. g[i] = f[i] /\ g[i - 1] = f[i - 1] /\ f[i] = projectEvent(f[i - 1], events[i])
        BY <2>1, <3>2, ReplaysFacts
      <4> HIDE DEF g
      <4> QED
        BY <3>2, <4>1 DEF NextModel
    <3>3. CASE i = n + 1
      <4>1. g[i] = projectEvent(f[n], events[n + 1]) /\ g[i - 1] = f[n]
        BY <3>3
      <4> HIDE DEF g
      <4> QED
        BY <3>3, <4>1 DEF NextModel
    <3> QED
      BY <3>1, <3>2, <3>3
  <2>3. g = [i \in 0..(n + 1) |-> g[i]]
    OBVIOUS
  <2> HIDE DEF g
  <2>4. Replays(g, events, n + 1)
    BY <2>2, <2>3 DEF Replays
  <2> QED
    BY <2>4
<1> HIDE DEF T
<1>3. T = Nat
  <2>1. T \subseteq Nat
    BY DEF T
  <2> QED
    BY <1>1, <1>2, <2>1, SetInduction
<1> QED
  BY <1>3 DEF T

\* Events that begin alike have replays that begin alike.
LEMMA ReplayAgrees ==
    ASSUME NEW f, NEW g, NEW d, NEW e, NEW k \in Nat, NEW l \in Nat, k <= l,
           Replays(f, d, k), Replays(g, e, l), \A i \in 1..k : d[i] = e[i]
    PROVE  \A n \in 0..k : f[n] = g[n]
<1> DEFINE T == {n \in Nat : n <= k => f[n] = g[n]}
<1>1. /\ f[0] = createEmptyReadModel /\ g[0] = createEmptyReadModel
      /\ \A n \in 1..k : f[n] = projectEvent(f[n - 1], d[n])
      /\ \A n \in 1..l : g[n] = projectEvent(g[n - 1], e[n])
  BY ReplaysFacts
<1>2. 0 \in T
  BY <1>1
<1>3. ASSUME NEW n \in T PROVE n + 1 \in T
  <2> SUFFICES ASSUME n + 1 <= k PROVE f[n + 1] = g[n + 1]
    OBVIOUS
  <2>1. n + 1 \in 1..k /\ n + 1 \in 1..l /\ (n + 1) - 1 = n /\ f[n] = g[n]
    OBVIOUS
  <2>2. f[n + 1] = projectEvent(f[n], d[n + 1]) /\ g[n + 1] = projectEvent(g[n], e[n + 1])
    BY <1>1, <2>1
  <2> QED
    BY <2>1, <2>2
<1> HIDE DEF T
<1>4. T = Nat
  <2>1. T \subseteq Nat
    BY DEF T
  <2> QED
    BY <1>2, <1>3, <2>1, SetInduction
<1> QED
  BY <1>4 DEF T

LEMMA ModelsReplay ==
    ASSUME NEW events, Len(events) \in Nat
    PROVE  Replays(ModelsOf(events), events, Len(events))
<1>1. PICK models : Replays(models, events, Len(events))
  BY ReplayExists
<1>2. ModelsOf(events) = CHOOSE f : Replays(f, events, Len(events))
  BY Zenon DEF ModelsOf, Replays, NextModel
<1> QED
  BY <1>1, <1>2, Zenon

\* What the read models of a log are, and that a longer log does not change them.
LEMMA ModelsFacts ==
    ASSUME NEW d, Len(d) \in Nat
    PROVE  /\ ModelsOf(d)[0] = createEmptyReadModel
           /\ \A n \in 1..Len(d) : ModelsOf(d)[n] = projectEvent(ModelsOf(d)[n - 1], d[n])
BY ModelsReplay, ReplaysFacts

LEMMA ModelsPrefix ==
    ASSUME NEW d, NEW e, Len(d) \in Nat, Len(e) \in Nat, Len(d) <= Len(e),
           \A i \in 1..Len(d) : d[i] = e[i]
    PROVE  \A n \in 0..Len(d) : ModelsOf(d)[n] = ModelsOf(e)[n]
<1>1. Replays(ModelsOf(d), d, Len(d)) /\ Replays(ModelsOf(e), e, Len(e))
  BY ModelsReplay
<1> QED
  BY <1>1, ReplayAgrees

-----------------------------------------------------------------------------
(* The invariant *)

Decision == decideOrchestrationCommand(readModel, Command)

\* The command in the transaction is valid on the whole log, the events appended are the
\* first ones decided there, numbered and folded, and the others are left to append.
InHand ==
    /\ Accepts(readModel, Command)
    /\ Len(committedEvents) + Len(eventBases) = Len(Decision)
    /\ \A i \in 1..Len(committedEvents) :
          committedEvents[i] = Put(Decision[i], "sequence", Len(log) + i)
    /\ \A i \in 1..Len(eventBases) : eventBases[i] = Decision[Len(committedEvents) + i]
    /\ nextReadModel = ModelsOf(log \o committedEvents)[Len(log) + Len(committedEvents)]

ReplayInv ==
    /\ ReadModelIsReplay
    /\ phase = "transaction" => InHand
    /\ phase = "committed" => nextReadModel = Replayed(Len(log))
    /\ phase = "fold" =>
          /\ nextReadModel = Replayed(dispatchStartSequence + progress)
          /\ \A i \in 1..Len(committedEvents) :
                committedEvents[i] = log[dispatchStartSequence + i]
    /\ LogIsSerial

LEMMA Lengths ==
    ASSUME IInv
    PROVE  /\ IsSeq(log) /\ Len(log) \in Nat /\ DOMAIN log = 1..Len(log)
           /\ IsSeq(committedEvents) /\ Len(committedEvents) \in Nat
           /\ IsSeq(eventBases) /\ Len(eventBases) \in Nat
           /\ readModel.snapshotSequence \in 0..Len(log)
           /\ phase # "idle" => envelope \in Calls /\ commandId \in CommandIds
           /\ progress \in 0..Len(committedEvents)
           /\ \A i \in 1..Len(log) : log[i].sequence = i
<1>1. IsSeq(log) /\ IsSeq(committedEvents) /\ IsSeq(eventBases)
  BY DEF IInv, DatabaseInv, BatchInv
<1>2. phase # "idle" => envelope \in Calls /\ commandId \in CommandIds
  BY DEF IInv, ControlInv, CommandIds, commandId, Command
<1>3. \A i \in 1..Len(log) : log[i].sequence = i
  BY <1>1, SeqDomain DEF IInv, DatabaseInv, Numbered
<1> QED
  BY <1>1, <1>2, <1>3, SeqDomain DEF IInv, BatchInv, ModelInv

\* The worker decides and appends on a read model of the whole log.
LEMMA WholeLog ==
    ASSUME IInv, "reconcile" \notin Faults, phase \in {"lookup", "decide", "transaction"}
    PROVE  readModel.snapshotSequence = Len(log)
BY DEF IInv, ControlInv, ModelInv, DecidesOnWholeLog

\* What a prefix of the log replays to stays as it is.
LEMMA ReplayedKept ==
    ASSUME IInv, [Next]_vars
    PROVE  /\ \A n \in 0..Len(log) : ModelsOf(log')[n] = ModelsOf(log)[n]
           /\ Len(log') \in Nat /\ Len(log) <= Len(log')
<1>1. Len(log) \in Nat /\ DOMAIN log = 1..Len(log)
  BY Lengths
<1>2. Len(log') \in Nat
  <2>1. IsSeq(log')
    BY DatabaseStep DEF DatabaseInv
  <2> QED
    BY <2>1, SeqDomain
<1>3. Len(log) <= Len(log') /\ \A i \in 1..Len(log) : log'[i] = log[i]
  BY <1>1, Finality
<1> QED
  BY <1>1, <1>2, <1>3, ModelsPrefix

\* The command of an accepted receipt is the one that was decided.
LEMMA CommandOfItsId ==
    ASSUME NEW c \in Calls
    PROVE  CommandOfIdentity(CommandOf[c].commandId) = CommandOf[c]
<1> DEFINE d == CHOOSE d \in Calls : CommandOf[d].commandId = CommandOf[c].commandId
<1>1. d \in Calls /\ CommandOf[d].commandId = CommandOf[c].commandId
  OBVIOUS
<1> QED
  BY <1>1, EngineAssumption DEF CommandOfIdentity

\* The events of an accepted command are all in the log.
LEMMA AcceptedRange ==
    ASSUME IInv, NEW id \in CommandIds, Accepted(id)
    PROVE  /\ EventCount(id) \in 1..2
           /\ receipts[id].resultSequence \in Nat /\ receipts[id].resultSequence <= Len(log)
           /\ receipts[id].resultSequence - EventCount(id) \in 0..Len(log)
<1>1. EventCount(id) \in 1..2
  BY DEF EventCount
<1>2. receipts[id].resultSequence \in Nat
  BY DEF IInv, DatabaseInv, Receipts, Accepted
<1> DEFINE last == receipts[id].resultSequence
           n == EventCount(id)
<1>3. {i \in DOMAIN log : log[i].commandId = id} = (last - n + 1)..last
  BY DEF IInv, DatabaseInv, ExactlyOnce
<1> HIDE DEF last, n
<1>4. last \in (last - n + 1)..last /\ (last - n + 1) \in (last - n + 1)..last
  BY <1>1, <1>2 DEF last, n
<1>5. last \in DOMAIN log /\ (last - n + 1) \in DOMAIN log
  BY <1>3, <1>4
<1>6. last \in 1..Len(log) /\ (last - n + 1) \in 1..Len(log) /\ Len(log) \in Nat
  BY <1>5, Lengths
<1>7. last \in Nat /\ n \in 1..2
  BY <1>1, <1>2 DEF last, n
<1>8. last <= Len(log) /\ last - n \in 0..Len(log)
  BY <1>6, <1>7
<1> QED
  BY <1>1, <1>2, <1>8 DEF last, n

-----------------------------------------------------------------------------
(* The log stays serial *)

\* The events of the command id are those decided on the replay of what is before them.
Serial(id) ==
    LET first  == receipts[id].resultSequence - EventCount(id)
        events == decideOrchestrationCommand(Replayed(first), CommandOfIdentity(id))
    IN  /\ Accepts(Replayed(first), CommandOfIdentity(id))
        /\ \A i \in DOMAIN events : log[first + i] = Put(events[i], "sequence", first + i)

LEMMA SerialStep ==
    ASSUME IInv, ReplayInv, [Next]_vars, "reconcile" \notin Faults
    PROVE  LogIsSerial'
<1> SUFFICES ASSUME NEW id \in CommandIds, Accepted(id)' PROVE Serial(id)'
  BY DEF LogIsSerial, Serial
<1> DEFINE n == EventCount(id)
<1>1. PICK c \in Calls : id = CommandOf[c].commandId
  BY DEF CommandIds
<1>2. CommandOfIdentity(id) = CommandOf[c]
  BY <1>1, CommandOfItsId
<1>3. \A m : /\ DOMAIN decideOrchestrationCommand(m, CommandOfIdentity(id)) = 1..n
             /\ Len(decideOrchestrationCommand(m, CommandOfIdentity(id))) = n
  <2> TAKE m
  <2> DEFINE d == decideOrchestrationCommand(m, CommandOf[c])
  <2>1. IsSeq(d) /\ Len(d) = n
    BY <1>1, DecisionShape
  <2>2. DOMAIN d = 1..Len(d)
    BY <2>1, SeqDomain
  <2> HIDE DEF d
  <2>3. DOMAIN d = 1..n /\ Len(d) = n
    BY <2>1, <2>2
  <2> QED
    BY <1>2, <2>3 DEF d
<1> HIDE DEF n
<1>4. CASE Accepted(id)
  <2> DEFINE first == receipts[id].resultSequence - EventCount(id)
             command == CommandOfIdentity(id)
             events == decideOrchestrationCommand(Replayed(first), command)
  <2>1. receipts'[id] = receipts[id]
    BY <1>4, Finality DEF Accepted
  <2>2. Serial(id)
    BY <1>4 DEF ReplayInv, LogIsSerial, Serial
  <2>3. first \in 0..Len(log) /\ first + n <= Len(log) /\ n \in 1..2 /\ Len(log) \in Nat
    BY <1>4, AcceptedRange, Lengths DEF n
  <2>4. ModelsOf(log')[first] = ModelsOf(log)[first]
    BY <2>3, ReplayedKept
  <2>5. DOMAIN events = 1..n
    BY <1>3
  <2>6. Accepts(Replayed(first), command)
        /\ \A i \in DOMAIN events : log[first + i] = Put(events[i], "sequence", first + i)
    BY <2>2 DEF Serial
  <2> HIDE DEF first, command
  <2>7. ASSUME NEW i \in 1..n PROVE log'[first + i] = log[first + i]
    <3>1. first + i \in 1..Len(log)
      BY <2>3
    <3> QED
      BY <3>1, Finality, Lengths
  <2>8. ModelsOf(log')[first] = Replayed(first)
    BY <2>4 DEF Replayed
  <2> HIDE DEF events
  <2>9. \A i \in DOMAIN events : log'[first + i] = Put(events[i], "sequence", first + i)
    BY <2>5, <2>6, <2>7
  <2>10. first = receipts'[id].resultSequence - EventCount(id)
    BY <2>1 DEF first
  <2> QED
    BY <2>6, <2>8, <2>9, <2>10 DEF Serial, Replayed, events, command
<1>5. CASE ~Accepted(id)
  <2>1. Persist /\ id = commandId
    <3>1. ~(UNCHANGED database)
      BY <1>5 DEF database, Accepted
    <3>2. ~RejectWithReceipt
      BY <1>5, RejectFacts DEF Accepted, Put
    <3>3. Persist
      BY <3>1, <3>2, DatabaseChanges
    <3>4. receipts' = Put(receipts, commandId, [status |-> "accepted",
                                                resultSequence |-> Len(log')])
      BY <3>3, PersistFacts
    <3>5. id # commandId => (id \in DOMAIN receipts' <=> id \in DOMAIN receipts)
                            /\ (id \in DOMAIN receipts => receipts'[id] = receipts[id])
      BY <3>4 DEF Put
    <3> QED
      BY <1>5, <3>3, <3>5 DEF Accepted
  <2>2. phase = "transaction" /\ eventBases = <<>>
    BY <2>1 DEF Persist
  <2>3. /\ receipts' = Put(receipts, commandId, [status |-> "accepted",
                                                 resultSequence |-> Len(log')])
        /\ Len(log') = Len(log) + n /\ n \in Nat /\ Len(log) \in Nat
        /\ Len(committedEvents) = n
        /\ \A i \in 1..n : log'[Len(log) + i] = committedEvents[i]
    BY <2>1, PersistFacts DEF n
  <2>4. receipts'[id].resultSequence - EventCount(id) = Len(log)
    BY <2>1, <2>3 DEF Put, n
  <2>5. readModel = ModelsOf(log')[Len(log)]
    <3>1. readModel = ModelsOf(log)[Len(log)]
      BY <2>2, WholeLog DEF ReplayInv, ReadModelIsReplay, Replayed
    <3>2. Len(log) \in 0..Len(log)
      BY <2>3
    <3> QED
      BY <3>1, <3>2, ReplayedKept
  <2>6. CommandOfIdentity(id) = Command
    BY <2>1, <2>2, Lengths, CommandOfItsId DEF commandId, Command
  <2>7. Accepts(readModel, Command)
        /\ \A i \in 1..Len(committedEvents) :
             committedEvents[i] = Put(Decision[i], "sequence", Len(log) + i)
    BY <2>2 DEF ReplayInv, InHand
  <2>8. DOMAIN Decision = 1..n
    BY <1>3, <2>6 DEF Decision
  <2>9. \A i \in DOMAIN Decision : log'[Len(log) + i] = Put(Decision[i], "sequence", Len(log) + i)
    BY <2>3, <2>7, <2>8
  <2> QED
    BY <2>4, <2>5, <2>6, <2>7, <2>9 DEF Serial, Replayed, Decision
<1> QED
  BY <1>4, <1>5

-----------------------------------------------------------------------------
(* The read models stay replays *)

LEMMA ReplayedRange ==
    ASSUME IInv
    PROVE  \A n \in 1..Len(log) :
              ModelsOf(log)[n] = projectEvent(ModelsOf(log)[n - 1], log[n])
BY Lengths, ModelsFacts

\* A step that leaves the adopted read model alone leaves it a replay.
LEMMA AdoptedKept ==
    ASSUME IInv, ReplayInv, [Next]_vars, readModel' = readModel
    PROVE  ReadModelIsReplay'
<1>1. readModel.snapshotSequence \in 0..Len(log)
  BY Lengths
<1> QED
  BY <1>1, ReplayedKept DEF ReplayInv, ReadModelIsReplay, Replayed

LEMMA AdoptStep ==
    ASSUME IInv, ReplayInv, [Next]_vars
    PROVE  ReadModelIsReplay'
<1>1. CASE readModel' = readModel
  BY <1>1, AdoptedKept
<1>2. CASE Replay
  <2> DEFINE n == readModel.snapshotSequence
  <2>1. /\ n < Len(log) /\ log' = log
        /\ readModel' = projectEvent(readModel, log[n + 1])
    BY <1>2 DEF Replay, database
  <2>2. n + 1 \in 1..Len(log) /\ (n + 1) - 1 = n
    BY <2>1, Lengths
  <2>3. readModel'.snapshotSequence = n + 1
    BY <2>1, <2>2, FoldSetsSequence, Lengths DEF IInv, ModelInv
  <2>4. readModel' = ModelsOf(log)[n + 1]
    BY <2>1, <2>2, ReplayedRange DEF ReplayInv, ReadModelIsReplay, Replayed
  <2> QED
    BY <2>1, <2>3, <2>4 DEF ReadModelIsReplay, Replayed
<1>3. CASE Crash
  <2>1. readModel' = createEmptyReadModel /\ log' = log
    BY <1>3 DEF Crash, database
  <2>2. readModel'.snapshotSequence = 0
    BY <2>1 DEF createEmptyReadModel
  <2> QED
    BY <2>1, <2>2, Lengths, ModelsFacts DEF ReadModelIsReplay, Replayed
<1>4. CASE AdoptReadModel
  <2>1. /\ readModel' = nextReadModel /\ log' = log /\ phase \in {"committed", "fold"}
        /\ phase = "fold" => progress = Len(committedEvents)
    BY <1>4 DEF AdoptReadModel, database
  <2>2. nextReadModel = Replayed(Len(log)) /\ nextReadModel.snapshotSequence = Len(log)
    BY <2>1 DEF ReplayInv, IInv, ModelInv, Snapshot
  <2> QED
    BY <2>1, <2>2 DEF ReadModelIsReplay, Replayed
<1> QED
  BY <1>1, <1>2, <1>3, <1>4
     DEF Next, WorkerStep, vars, Start, Serve, dispatch, streamDomainEvents, GetSnapshot,
         Take, ReceiptFound, ReceiptMissing, LookupFails, DecideRejects, DecideAccepts,
         AppendEvent, TransactionFails, Commit, CommitReportedAsFailed, Persist, PublishEvent,
         Succeed, ReadPersistedEvents, FoldPersistedEvent, EndReconcile, ReconcileFails,
         RejectWithReceipt, RejectWithoutReceipt, AnswerFailure

\* The decision is made, and one of its events appended.
LEMMA InHandStep ==
    ASSUME IInv, ReplayInv, [Next]_vars, phase' = "transaction", "reconcile" \notin Faults
    PROVE  InHand'
<1>1. CASE DecideAccepts
  <2>1. /\ phase = "decide" /\ Accepts(readModel, Command) /\ eventBases' = Decision
        /\ nextReadModel' = readModel
        /\ UNCHANGED <<log, readModel, committedEvents, envelope>>
    BY <1>1 DEF DecideAccepts, Decision, GoTo, database
  <2>2. committedEvents = <<>> /\ Len(committedEvents) = 0
    BY <2>1, NilFacts DEF IInv, BatchInv
  <2>3. IsSeq(Decision) /\ Len(Decision) \in Nat
    <3>1. envelope \in Calls
      BY <2>1, Lengths
    <3>2. IsSeq(Decision)
      BY <3>1, DecisionShape DEF Decision, Command
    <3> QED
      BY <3>2, SeqDomain
  <2>4. Command' = Command /\ Decision' = Decision
    BY <2>1 DEF Command, Decision
  <2>5. readModel = ModelsOf(log)[Len(log)]
    BY <2>1, WholeLog DEF ReplayInv, ReadModelIsReplay, Replayed
  <2>6. /\ IsSeq(log \o <<>>) /\ Len(log \o <<>>) = Len(log) /\ Len(log) \in Nat
        /\ \A i \in 1..Len(log) : log[i] = (log \o <<>>)[i]
    <3>1. /\ IsSeq(log \o <<>>) /\ Len(log \o <<>>) = Len(log) + Len(<<>>)
          /\ \A i \in 1..Len(log) : (log \o <<>>)[i] = log[i]
      BY Lengths, NilFacts, ConcatFacts
    <3> QED
      BY <3>1, Lengths, NilFacts
  <2>7. ModelsOf(log)[Len(log)] = ModelsOf(log \o <<>>)[Len(log)]
    <3>1. \A i \in 0..Len(log) : ModelsOf(log)[i] = ModelsOf(log \o <<>>)[i]
      BY <2>6, ModelsPrefix
    <3> QED
      BY <2>6, <3>1
  <2>8. nextReadModel' = ModelsOf(log' \o committedEvents')[Len(log') + Len(committedEvents')]
    BY <2>1, <2>2, <2>5, <2>6, <2>7
  <2>9. Len(committedEvents') + Len(eventBases') = Len(Decision)
    BY <2>1, <2>2, <2>3
  <2>10. \A i \in 1..Len(committedEvents') : FALSE
    BY <2>1, <2>2
  <2>11. \A i \in 1..Len(eventBases') : eventBases'[i] = Decision[Len(committedEvents') + i]
    BY <2>1, <2>2, <2>3
  <2> QED
    BY <2>1, <2>4, <2>8, <2>9, <2>10, <2>11 DEF InHand
<1>2. CASE AppendEvent
  <2> DEFINE k == Len(committedEvents)
             saved == Put(Head(eventBases), "sequence", Len(log) + k + 1)
             more == Append(committedEvents, saved)
  <2>1. /\ phase = "transaction" /\ eventBases # <<>>
        /\ nextReadModel' = projectEvent(nextReadModel, saved)
        /\ committedEvents' = more /\ eventBases' = Tail(eventBases)
        /\ UNCHANGED <<log, readModel, envelope>>
    BY <1>2 DEF AppendEvent, database
  <2>2. InHand /\ k \in Nat /\ IsSeq(committedEvents) /\ IsSeq(eventBases)
        /\ Len(eventBases) \in Nat /\ IsSeq(log) /\ Len(log) \in Nat
    BY <2>1, Lengths DEF ReplayInv
  <2>3. /\ Len(eventBases) > 0 /\ Head(eventBases) = eventBases[1]
        /\ Len(Tail(eventBases)) = Len(eventBases) - 1
        /\ \A i \in 1..Len(Tail(eventBases)) : Tail(eventBases)[i] = eventBases[i + 1]
    BY <2>1, <2>2, TailFacts
  <2>4. /\ IsSeq(more) /\ Len(more) = k + 1 /\ more[k + 1] = saved
        /\ \A i \in 1..k : more[i] = committedEvents[i]
    BY <2>2, AppendFacts
  <2>5. Command' = Command /\ Decision' = Decision
    BY <2>1 DEF Command, Decision
  <2>6. saved = Put(Decision[k + 1], "sequence", Len(log) + (k + 1))
    BY <2>2, <2>3 DEF InHand
  <2> HIDE DEF saved, more
  <2>7. Len(more) + Len(Tail(eventBases)) = Len(Decision)
    <3> DEFINE a == Len(more)
               b == Len(Tail(eventBases))
               c == Len(eventBases)
               d == Len(Decision)
    <3>1. k + c = d
      BY <2>2 DEF InHand
    <3>2. a = k + 1 /\ b = c - 1 /\ k \in Nat /\ c \in Nat
      BY <2>2, <2>3, <2>4
    <3> HIDE DEF k, a, b, c, d
    <3>3. a + b = d
      BY <3>1, <3>2
    <3> QED
      BY <3>3 DEF a, b, d
  <2>8. ASSUME NEW i \in 1..Len(more) PROVE more[i] = Put(Decision[i], "sequence", Len(log) + i)
    <3>1. CASE i \in 1..k
      BY <2>2, <2>4, <3>1 DEF InHand
    <3>2. CASE i = k + 1
      BY <2>4, <2>6, <3>2
    <3> QED
      BY <2>2, <2>4, <3>1, <3>2
  <2>9. ASSUME NEW i \in 1..Len(Tail(eventBases))
        PROVE  Tail(eventBases)[i] = Decision[Len(more) + i]
    <3>1. i + 1 \in 1..Len(eventBases) /\ k + (i + 1) = (k + 1) + i
      BY <2>2, <2>3
    <3> QED
      BY <2>2, <2>3, <2>4, <3>1 DEF InHand
  <2>10. projectEvent(nextReadModel, saved) = ModelsOf(log \o more)[Len(log) + (k + 1)]
    <3> DEFINE d == log \o committedEvents
               e == log \o more
    <3>1. /\ Len(d) = Len(log) + k /\ \A i \in 1..Len(log) : d[i] = log[i]
          /\ \A i \in 1..k : d[Len(log) + i] = committedEvents[i]
      BY <2>2, ConcatFacts
    <3>2. /\ Len(e) = Len(log) + (k + 1) /\ \A i \in 1..Len(log) : e[i] = log[i]
          /\ \A i \in 1..(k + 1) : e[Len(log) + i] = more[i]
      BY <2>2, <2>4, ConcatFacts
    <3> HIDE DEF d, e
    <3>3. ASSUME NEW i \in 1..Len(d) PROVE d[i] = e[i]
      <4>1. CASE i \in 1..Len(log)
        BY <3>1, <3>2, <4>1
      <4>2. CASE i \notin 1..Len(log)
        <5>1. i - Len(log) \in 1..k /\ i = Len(log) + (i - Len(log))
          BY <2>2, <3>1, <4>2
        <5>2. i - Len(log) \in 1..(k + 1)
          BY <2>2, <5>1
        <5>3. d[i] = committedEvents[i - Len(log)] /\ e[i] = more[i - Len(log)]
          BY <3>1, <3>2, <5>1, <5>2
        <5> QED
          BY <2>4, <5>1, <5>3
      <4> QED
        BY <4>1, <4>2
    <3>4. Len(d) \in Nat /\ Len(e) \in Nat /\ Len(d) <= Len(e) /\ Len(d) \in 0..Len(d)
      BY <2>2, <3>1, <3>2
    <3>5. ModelsOf(d)[Len(d)] = ModelsOf(e)[Len(d)]
      <4>1. \A n \in 0..Len(d) : ModelsOf(d)[n] = ModelsOf(e)[n]
        BY <3>3, <3>4, ModelsPrefix
      <4> QED
        BY <3>4, <4>1
    <3>6. ModelsOf(e)[Len(e)] = projectEvent(ModelsOf(e)[Len(e) - 1], e[Len(e)])
      <4>1. Len(e) \in 1..Len(e)
        BY <2>2, <3>2
      <4> QED
        BY <3>4, <4>1, ModelsFacts
    <3>7. Len(e) - 1 = Len(d) /\ e[Len(e)] = saved
      <4>1. k + 1 \in 1..(k + 1)
        BY <2>2
      <4> QED
        BY <2>2, <2>4, <3>1, <3>2, <4>1
    <3>8. nextReadModel = ModelsOf(d)[Len(d)]
      BY <2>2, <3>1 DEF InHand, d
    <3> QED
      BY <3>2, <3>5, <3>6, <3>7, <3>8 DEF e
  <2>11. nextReadModel' = ModelsOf(log' \o committedEvents')[Len(log') + Len(committedEvents')]
    BY <2>1, <2>4, <2>10
  <2>12. Accepts(readModel', Command')
    BY <2>1, <2>2, <2>5 DEF InHand
  <2> QED
    BY <2>1, <2>5, <2>7, <2>8, <2>9, <2>11, <2>12 DEF InHand
<1>3. CASE /\ phase = "transaction"
           /\ UNCHANGED <<log, readModel, envelope, committedEvents, eventBases, nextReadModel>>
  BY <1>3 DEF ReplayInv, InHand, Command, Decision
<1>4. phase = "transaction" => status = "running"
  BY DEF IInv, ControlInv
<1> QED
  BY <1>1, <1>2, <1>3, <1>4
     DEF Next, WorkerStep, vars, worker, database, Start, Replay, Serve, Crash, dispatch,
         streamDomainEvents, GetSnapshot, Take, ReceiptFound, ReceiptMissing, LookupFails,
         DecideRejects, TransactionFails, Commit, CommitReportedAsFailed, Persist,
         AdoptReadModel, PublishEvent, Succeed, ReadPersistedEvents, FoldPersistedEvent,
         EndReconcile, ReconcileFails, RejectWithReceipt, RejectWithoutReceipt, AnswerFailure,
         Reply, WorkerReset, GoTo, Fail

LEMMA CommittedStep ==
    ASSUME IInv, ReplayInv, [Next]_vars, phase' = "committed"
    PROVE  nextReadModel' = ModelsOf(log')[Len(log')]
<1>1. CASE Commit
  <2>1. /\ phase = "transaction" /\ nextReadModel' = nextReadModel
        /\ log' = log \o committedEvents
    BY <1>1 DEF Commit, Persist
  <2>2. Len(log') = Len(log) + Len(committedEvents)
    BY <2>1, Lengths, ConcatFacts
  <2> QED
    BY <2>1, <2>2 DEF ReplayInv, InHand
<1>2. CASE phase = "committed" /\ UNCHANGED <<log, nextReadModel>>
  BY <1>2 DEF ReplayInv, Replayed
<1>3. phase = "committed" => status = "running"
  BY DEF IInv, ControlInv
<1> QED
  BY <1>1, <1>2, <1>3
     DEF Next, WorkerStep, vars, worker, database, Start, Replay, Serve, Crash, dispatch,
         streamDomainEvents, GetSnapshot, Take, ReceiptFound, ReceiptMissing, LookupFails,
         DecideRejects, DecideAccepts, AppendEvent, TransactionFails, CommitReportedAsFailed,
         Persist, AdoptReadModel, PublishEvent, Succeed, ReadPersistedEvents,
         FoldPersistedEvent, EndReconcile, ReconcileFails, RejectWithReceipt,
         RejectWithoutReceipt, AnswerFailure, Reply, WorkerReset, GoTo, Fail

\* What is read back after a failure is folded in the order of the log.
LEMMA FoldStep ==
    ASSUME IInv, ReplayInv, [Next]_vars, phase' = "fold"
    PROVE  /\ nextReadModel' = ModelsOf(log')[dispatchStartSequence' + progress']
           /\ \A i \in 1..Len(committedEvents') :
                 committedEvents'[i] = log'[dispatchStartSequence' + i]
<1>1. CASE ReadPersistedEvents
  <2> DEFINE m == readModel.snapshotSequence
  <2>1. /\ phase = "failed" /\ log' = log /\ nextReadModel' = readModel /\ progress' = 0
        /\ committedEvents' = SubSeq(log, dispatchStartSequence + 1, Len(log))
        /\ dispatchStartSequence' = dispatchStartSequence
    BY <1>1 DEF ReadPersistedEvents, GoTo, database
  <2>2. dispatchStartSequence = m /\ m \in 0..Len(log) /\ IsSeq(log) /\ Len(log) \in Nat
    BY <2>1, Lengths DEF IInv, ModelInv
  <2> HIDE DEF m
  <2>3. /\ Len(SubSeq(log, m + 1, Len(log))) = Len(log) - m
        /\ \A i \in 1..(Len(log) - m) : SubSeq(log, m + 1, Len(log))[i] = log[m + i]
    BY <2>2, SubSeqFacts
  <2>4. readModel = ModelsOf(log)[m]
    BY DEF ReplayInv, ReadModelIsReplay, Replayed, m
  <2>5. m + 0 = m
    BY <2>2
  <2> QED
    BY <2>1, <2>2, <2>3, <2>4, <2>5
<1>2. CASE FoldPersistedEvent
  <2> DEFINE n == dispatchStartSequence + (progress + 1)
  <2>1. /\ phase = "fold" /\ progress < Len(committedEvents)
        /\ nextReadModel' = projectEvent(nextReadModel, committedEvents[progress + 1])
        /\ progress' = progress + 1
        /\ UNCHANGED <<log, dispatchStartSequence, committedEvents>>
    BY <1>2 DEF FoldPersistedEvent, database
  <2>2. /\ progress \in 0..Len(committedEvents) /\ Len(committedEvents) \in Nat
        /\ dispatchStartSequence \in Nat
        /\ dispatchStartSequence + Len(committedEvents) = Len(log)
    BY <2>1, Lengths DEF IInv, ModelInv
  <2>3. progress + 1 \in 1..Len(committedEvents) /\ n \in 1..Len(log)
        /\ n - 1 = dispatchStartSequence + progress
    BY <2>1, <2>2
  <2>4. /\ nextReadModel = ModelsOf(log)[n - 1] /\ committedEvents[progress + 1] = log[n]
        /\ \A i \in 1..Len(committedEvents) : committedEvents[i] = log[dispatchStartSequence + i]
    BY <2>1, <2>3 DEF ReplayInv, Replayed
  <2>5. ModelsOf(log)[n] = projectEvent(ModelsOf(log)[n - 1], log[n])
    BY <2>3, ReplayedRange
  <2> QED
    BY <2>1, <2>4, <2>5
<1>3. CASE /\ phase = "fold"
           /\ UNCHANGED <<log, nextReadModel, dispatchStartSequence, progress, committedEvents>>
  BY <1>3 DEF ReplayInv, Replayed
<1>4. phase = "fold" => status = "running"
  BY DEF IInv, ControlInv
<1> QED
  BY <1>1, <1>2, <1>3, <1>4
     DEF Next, WorkerStep, vars, worker, database, Start, Replay, Serve, Crash, dispatch,
         streamDomainEvents, GetSnapshot, Take, ReceiptFound, ReceiptMissing, LookupFails,
         DecideRejects, DecideAccepts, AppendEvent, TransactionFails, Commit,
         CommitReportedAsFailed, Persist, AdoptReadModel, PublishEvent, Succeed,
         EndReconcile, ReconcileFails, RejectWithReceipt, RejectWithoutReceipt,
         AnswerFailure, Reply, WorkerReset, GoTo, Fail

LEMMA ReplayStep ==
    ASSUME IInv, ReplayInv, [Next]_vars, "reconcile" \notin Faults
    PROVE  ReplayInv'
<1>1. ReadModelIsReplay'
  BY AdoptStep
<1>2. phase' = "transaction" => InHand'
  BY InHandStep
<1>3. phase' = "committed" => nextReadModel' = ModelsOf(log')[Len(log')]
  BY CommittedStep
<1>4. phase' = "fold" =>
        /\ nextReadModel' = ModelsOf(log')[dispatchStartSequence' + progress']
        /\ \A i \in 1..Len(committedEvents') :
              committedEvents'[i] = log'[dispatchStartSequence' + i]
  BY FoldStep
<1>5. LogIsSerial'
  BY SerialStep
<1> QED
  BY <1>1, <1>2, <1>3, <1>4, <1>5 DEF ReplayInv, Replayed

LEMMA ReplayInit == Init => ReplayInv
<1> SUFFICES ASSUME Init PROVE ReplayInv
  OBVIOUS
<1>1. log = <<>> /\ readModel = createEmptyReadModel /\ phase = "idle" /\ receipts = <<>>
  BY DEF Init
<1>2. readModel.snapshotSequence = 0
  BY <1>1 DEF createEmptyReadModel
<1>3. ReadModelIsReplay
  BY <1>1, <1>2, NilFacts, ModelsFacts DEF ReadModelIsReplay, Replayed
<1>4. LogIsSerial
  <2>1. DOMAIN receipts = {}
    BY <1>1, NilFacts
  <2> QED
    BY <2>1 DEF LogIsSerial, Accepted
<1> QED
  BY <1>1, <1>3, <1>4 DEF ReplayInv

LEMMA ReplayInvariance ==
    ASSUME "reconcile" \notin Faults
    PROVE  Spec => []ReplayInv
<1>1. Init => ReplayInv
  BY ReplayInit
<1>2. IInv /\ ReplayInv /\ [Next]_vars => ReplayInv'
  BY ReplayStep
<1> QED
  BY <1>1, <1>2, Invariance, PTL DEF Spec

\* If the events can be read back after a failure, the read model is at all times the
\* replay of a prefix of the log: no rollback, crash or commit reported as failed leaves
\* a trace in it or a hole.
THEOREM ReadModelIsReplayHolds ==
    ASSUME "reconcile" \notin Faults
    PROVE  Spec => []ReadModelIsReplay
<1>1. ReplayInv => ReadModelIsReplay
  BY DEF ReplayInv
<1> QED
  BY <1>1, ReplayInvariance, PTL

\* Under the same condition the log is serial: the events of every accepted command are
\* the ones decided against the replay of exactly the events before them, where the
\* command was valid.
THEOREM LogIsSerialHolds ==
    ASSUME "reconcile" \notin Faults
    PROVE  Spec => []LogIsSerial
<1>1. ReplayInv => LogIsSerial
  BY DEF ReplayInv
<1> QED
  BY <1>1, ReplayInvariance, PTL

-----------------------------------------------------------------------------
(* The stream *)

\* The sequence of the last event that was published, or is known to every snapshot.
Heard ==
    IF phase = "failed" THEN readModel.snapshotSequence
    ELSE IF phase \in {"committed", "fold"} THEN Len(log) - Len(committedEvents)
    ELSE IF phase \in {"publish", "republish"} THEN Len(log) - Len(committedEvents) + progress
    ELSE Len(log)

\* box is a run of sequences that ends at n, and with the snapshot taken at snap leaves
\* no gap below n.
Holds(box, snap, n) ==
    /\ \A i \in 2..Len(box) : box[i] = box[i - 1] + 1
    /\ box # <<>> => LastOf(box) = n /\ box[1] <= n
    /\ snap # Null /\ snap < n => box # <<>> /\ box[1] <= snap + 1

\* What the worker publishes next is in the log.
BatchInLog ==
    phase \in {"committed", "publish", "fold", "republish"} => Len(committedEvents) <= Len(log)

StreamInv ==
    /\ BatchInLog
    /\ snapshotAt \in [Subscribers -> Nat \cup {Null}]
    /\ \A s \in Subscribers : inbox[s] # <<>> \/ snapshotAt[s] # Null => s \in subscribed
    /\ \A s \in Subscribers : Holds(inbox[s], snapshotAt[s], Heard)

\* Who neither heard nor read anything misses nothing.
LEMMA HoldsNothing == ASSUME NEW n PROVE Holds(<<>>, Null, n)
BY NilFacts DEF Holds

\* A snapshot of the database covers all that was published.
LEMMA HoldsSnapshot ==
    ASSUME NEW box, NEW snap, NEW n \in Nat, NEW m \in Nat, n <= m, Holds(box, snap, n)
    PROVE  Holds(box, m, n)
BY DEF Holds

\* Hearing of the next event leaves no gap.
LEMMA HoldsNext ==
    ASSUME NEW box \in Seq(Nat), NEW n \in Nat, NEW snap \in Nat \cup {Null}, Holds(box, snap, n)
    PROVE  Holds(Append(box, n + 1), snap, n + 1)
<1> DEFINE more == Append(box, n + 1)
<1>1. /\ Len(more) = Len(box) + 1 /\ Len(box) \in Nat
      /\ \A i \in 1..Len(box) : more[i] = box[i] /\ box[i] \in Nat
      /\ more[Len(box) + 1] = n + 1
  OBVIOUS
<1> HIDE DEF more
<1>2. CASE box = <<>>
  <2>1. Len(more) = 1 /\ more[1] = n + 1
    BY <1>1, <1>2
  <2>2. snap # Null => ~(snap < n) /\ snap \in Nat
    BY <1>2 DEF Holds
  <2>3. more # <<>>
    <3>1. Len(more) # Len(<<>>)
      BY <2>1, NilFacts
    <3> QED
      BY <3>1, Zenon
  <2>4. LastOf(more) = n + 1
    BY <2>1 DEF LastOf
  <2>5. \A i \in 2..Len(more) : FALSE
    BY <2>1
  <2>6. Holds(more, snap, n + 1)
    BY <2>1, <2>2, <2>3, <2>4, <2>5 DEF Holds
  <2> QED
    BY <2>6 DEF more
<1>3. CASE box # <<>>
  <2>1. Len(box) > 0 /\ box[Len(box)] = n /\ box[1] <= n /\ box[1] \in Nat
    BY <1>1, <1>3 DEF Holds, LastOf
  <2>2. more # <<>> /\ LastOf(more) = n + 1 /\ more[1] = box[1]
    BY <1>1, <2>1 DEF LastOf
  <2>3. ASSUME NEW i \in 2..Len(more) PROVE more[i] = more[i - 1] + 1
    <3>1. CASE i \in 2..Len(box)
      <4>1. box[i] = box[i - 1] + 1
        BY <3>1 DEF Holds
      <4>2. i \in 1..Len(box) /\ i - 1 \in 1..Len(box)
        BY <1>1, <3>1
      <4> QED
        BY <1>1, <4>1, <4>2
    <3>2. CASE i = Len(box) + 1
      <4>1. i - 1 = Len(box) /\ Len(box) \in 1..Len(box)
        BY <1>1, <2>1, <3>2
      <4> QED
        BY <1>1, <2>1, <3>2, <4>1
    <3> QED
      BY <1>1, <2>1, <3>1, <3>2
  <2>4. snap # Null => more[1] <= snap + 1
    BY <2>1, <2>2, <1>3 DEF Holds
  <2>5. more[1] <= n + 1
    BY <2>1, <2>2
  <2>6. Holds(more, snap, n + 1)
    BY <2>2, <2>3, <2>4, <2>5 DEF Holds
  <2> QED
    BY <2>6 DEF more
<1> QED
  BY <1>2, <1>3

\* Publication never runs ahead of the log.
LEMMA HeardWithinLog ==
    ASSUME IInv, BatchInLog
    PROVE  Len(log) \in Nat /\ Heard \in 0..Len(log)
<1>1. /\ Len(log) \in Nat /\ Len(committedEvents) \in Nat
      /\ progress \in 0..Len(committedEvents)
      /\ readModel.snapshotSequence \in 0..Len(log)
  BY SeqDomain DEF IInv, DatabaseInv, BatchInv, ModelInv
<1> QED
  BY <1>1 DEF Heard, BatchInLog

\* What is read back or committed is a suffix of the log.
LEMMA BatchStaysInLog ==
    ASSUME IInv, BatchInLog, [Next]_vars
    PROVE  BatchInLog'
<1>1. /\ IsSeq(log) /\ Len(log) \in Nat
      /\ IsSeq(committedEvents) /\ Len(committedEvents) \in Nat
      /\ readModel.snapshotSequence \in 0..Len(log)
  BY SeqDomain DEF IInv, DatabaseInv, BatchInv, ModelInv
<1>2. CASE phase' \notin {"committed", "publish", "fold", "republish"}
  BY <1>2 DEF BatchInLog
<1>3. CASE Commit
  <2>1. log' = log \o committedEvents /\ UNCHANGED committedEvents
    BY <1>3 DEF Commit, Persist
  <2>2. Len(log') = Len(log) + Len(committedEvents)
    BY <1>1, <2>1, ConcatFacts
  <2> QED
    BY <1>1, <2>1, <2>2 DEF BatchInLog
<1>4. CASE ReadPersistedEvents
  <2>1. /\ UNCHANGED log /\ phase = "failed"
        /\ committedEvents' = SubSeq(log, dispatchStartSequence + 1, Len(log))
    BY <1>4 DEF ReadPersistedEvents, database
  <2>2. dispatchStartSequence = readModel.snapshotSequence
    BY <2>1 DEF IInv, ModelInv
  <2>3. Len(committedEvents') = Len(log) - readModel.snapshotSequence
    BY <1>1, <2>1, <2>2, SubSeqFacts
  <2>4. Len(log') = Len(log)
    BY <2>1
  <2> QED
    BY <1>1, <2>3, <2>4 DEF BatchInLog
<1>5. CASE /\ UNCHANGED <<log, committedEvents>>
           /\ phase' \in {"committed", "publish", "fold", "republish"} =>
                phase \in {"committed", "publish", "fold", "republish"}
  BY <1>5 DEF BatchInLog
<1> QED
  BY <1>2, <1>3, <1>4, <1>5
     DEF Next, WorkerStep, vars, worker, streams, database, Start, Serve, Replay, Crash, dispatch,
         streamDomainEvents, GetSnapshot, Take, ReceiptFound, ReceiptMissing, LookupFails,
         DecideRejects, DecideAccepts, AppendEvent, TransactionFails, CommitReportedAsFailed,
         AdoptReadModel, PublishEvent, Succeed, FoldPersistedEvent, EndReconcile, ReconcileFails,
         RejectWithReceipt, RejectWithoutReceipt, AnswerFailure, Reply, WorkerReset, GoTo, Fail

\* Only the publication of an event moves Heard, by one, unless the process dies.
LEMMA HeardKept ==
    ASSUME IInv, [Next]_vars, ~Crash, ~PublishEvent, "reconcile" \notin Faults
    PROVE  Heard' = Heard
<1>1. /\ IsSeq(log) /\ Len(log) \in Nat
      /\ IsSeq(committedEvents) /\ Len(committedEvents) \in Nat
      /\ progress \in 0..Len(committedEvents)
      /\ readModel.snapshotSequence \in 0..Len(log)
  BY SeqDomain DEF IInv, DatabaseInv, BatchInv, ModelInv
<1>2. phase # "idle" => status = "running"
  BY DEF IInv, ControlInv
<1>3. phase \in {"lookup", "decide", "transaction", "answer"} =>
          readModel.snapshotSequence = Len(log)
  BY <1>2 DEF IInv, ModelInv, DecidesOnWholeLog
<1>4. CASE UNCHANGED <<log, phase, committedEvents, progress, readModel>>
  BY <1>4 DEF Heard
<1>5. CASE Replay
  BY <1>2, <1>5 DEF Replay, Heard, database, worker
<1>6. CASE \/ Take \/ ReceiptFound \/ ReceiptMissing \/ DecideAccepts \/ AppendEvent
           \/ RejectWithReceipt \/ RejectWithoutReceipt \/ AnswerFailure
  <2>1. /\ UNCHANGED log
        /\ phase \in {"idle", "lookup", "decide", "transaction", "answer"}
        /\ phase' \in {"idle", "lookup", "decide", "transaction", "answer"}
    BY <1>6 DEF Take, ReceiptFound, ReceiptMissing, DecideAccepts, AppendEvent,
       RejectWithReceipt, RejectWithoutReceipt, AnswerFailure, Reply, WorkerReset, GoTo, database
  <2> QED
    BY <2>1 DEF Heard
<1>7. CASE LookupFails \/ DecideRejects \/ TransactionFails
  <2>1. /\ UNCHANGED <<log, readModel>>
        /\ phase \in {"lookup", "decide", "transaction"} /\ phase' = "failed"
    BY <1>7 DEF LookupFails, DecideRejects, TransactionFails, Fail, GoTo, database
  <2> QED
    BY <1>3, <2>1 DEF Heard
<1>8. CASE Commit \/ CommitReportedAsFailed
  <2>1. /\ log' = log \o committedEvents /\ UNCHANGED <<committedEvents, readModel>>
        /\ phase = "transaction" /\ phase' \in {"committed", "failed"}
    BY <1>8 DEF Commit, CommitReportedAsFailed, Persist, Fail, GoTo
  <2>2. Len(log') = Len(log) + Len(committedEvents)
    BY <1>1, <2>1, ConcatFacts
  <2> QED
    BY <1>1, <1>3, <2>1, <2>2 DEF Heard
<1>9. CASE AdoptReadModel
  <2>1. /\ UNCHANGED <<log, committedEvents>>
        /\ progress' = 0
        /\ phase \in {"committed", "fold"} /\ phase' \in {"publish", "republish"}
    BY <1>9 DEF AdoptReadModel, database
  <2> QED
    BY <1>1, <2>1 DEF Heard
<1>10. CASE Succeed \/ EndReconcile
  <2>1. /\ UNCHANGED log /\ progress = Len(committedEvents)
        /\ phase \in {"publish", "republish"} /\ phase' \in {"idle", "answer"}
    BY <1>10 DEF Succeed, EndReconcile, Reply, WorkerReset, GoTo, database
  <2> QED
    BY <1>1, <2>1 DEF Heard
<1>11. CASE ReadPersistedEvents
  <2> DEFINE m == readModel.snapshotSequence
  <2>1. /\ UNCHANGED log /\ phase = "failed"
        /\ committedEvents' = SubSeq(log, dispatchStartSequence + 1, Len(log))
        /\ phase' = IF committedEvents' = <<>> THEN "answer" ELSE "fold"
    BY <1>11 DEF ReadPersistedEvents, GoTo, database
  <2>2. dispatchStartSequence = m
    BY <2>1 DEF IInv, ModelInv
  <2>3. Len(committedEvents') = Len(log) - m
    BY <1>1, <2>1, <2>2, SubSeqFacts
  <2>4. committedEvents' = <<>> => Len(committedEvents') = 0
    BY NilFacts
  <2>5. Heard = m
    BY <2>1 DEF Heard
  <2>6. CASE committedEvents' = <<>>
    <3>1. phase' = "answer"
      BY <2>1, <2>6
    <3>2. Heard' = Len(log')
      BY <3>1 DEF Heard
    <3>3. Len(log) - m = 0
      BY <2>3, <2>4, <2>6
    <3>4. Len(log') = Len(log)
      BY <2>1
    <3> QED
      BY <1>1, <2>5, <3>2, <3>3, <3>4
  <2>7. CASE committedEvents' # <<>>
    <3>1. phase' = "fold"
      BY <2>1, <2>7
    <3>2. Heard' = Len(log') - Len(committedEvents')
      BY <3>1 DEF Heard
    <3>3. Len(log') = Len(log)
      BY <2>1
    <3> QED
      BY <1>1, <2>3, <2>5, <3>2, <3>3
  <2> QED
    BY <2>6, <2>7
<1>12. CASE FoldPersistedEvent
  BY <1>12 DEF FoldPersistedEvent, Heard, database
<1>13. CASE ReconcileFails
  BY <1>13 DEF ReconcileFails
<1> QED
  BY <1>4, <1>5, <1>6, <1>7, <1>8, <1>9, <1>10, <1>11, <1>12, <1>13
     DEF Next, WorkerStep, vars, worker, streams, database, Start, Serve, dispatch,
         streamDomainEvents, GetSnapshot

\* An event that is published follows what was published before.
LEMMA HeardGrows ==
    ASSUME IInv, PublishEvent
    PROVE  /\ Heard' = Heard + 1
           /\ committedEvents[progress + 1].sequence = Heard + 1
<1>1. /\ Len(log) \in Nat /\ Len(committedEvents) \in Nat
      /\ DOMAIN committedEvents = 1..Len(committedEvents)
      /\ progress \in 0..Len(committedEvents)
  BY SeqDomain DEF IInv, DatabaseInv, BatchInv
<1>2. /\ phase \in {"publish", "republish"} /\ UNCHANGED <<log, phase, committedEvents>>
      /\ progress < Len(committedEvents) /\ progress' = progress + 1
  BY DEF PublishEvent, database
<1>3. Numbered(committedEvents, Len(log) - Len(committedEvents))
  BY <1>2 DEF IInv, BatchInv
<1>4. committedEvents[progress + 1].sequence = Len(log) - Len(committedEvents) + (progress + 1)
  BY <1>1, <1>2, <1>3 DEF Numbered
<1> QED
  BY <1>1, <1>2, <1>4 DEF Heard

\* Publishing an event extends the inbox of whoever listens by the next sequence.
LEMMA PublishKeepsStreams ==
    ASSUME IInv, StreamInv, PublishEvent, NEW s \in Subscribers
    PROVE  Holds(inbox[s], snapshotAt[s], Heard)'
<1>1. PICK h \in Nat : h = Heard
  BY HeardWithinLog DEF StreamInv
<1>2. Heard' = h + 1
  BY <1>1, HeardGrows
<1>3. /\ inbox'[s] = IF s \in subscribed THEN Append(inbox[s], h + 1) ELSE inbox[s]
      /\ snapshotAt'[s] = snapshotAt[s]
  BY <1>1, HeardGrows DEF PublishEvent
<1>4. inbox[s] \in Seq(Nat) /\ snapshotAt[s] \in Nat \cup {Null}
  BY DEF IInv, ClientInv, StreamInv
<1>5. Holds(inbox[s], snapshotAt[s], h)
  BY <1>1 DEF StreamInv
<1>6. CASE s \in subscribed
  <2>1. Holds(Append(inbox[s], h + 1), snapshotAt[s], h + 1)
    BY <1>4, <1>5, HoldsNext
  <2> QED
    BY <1>2, <1>3, <1>6, <2>1
<1>7. CASE s \notin subscribed
  <2>1. inbox[s] = <<>> /\ snapshotAt[s] = Null
    BY <1>7 DEF StreamInv
  <2> QED
    BY <1>3, <1>7, <2>1, HoldsNothing
<1> QED
  BY <1>6, <1>7

\* A snapshot that is read now covers all that was published.
LEMMA SnapshotKeepsStreams ==
    ASSUME IInv, StreamInv, NEW t \in Subscribers, GetSnapshot(t), Heard' = Heard
    PROVE  StreamInv'
<1>1. PICK h \in Nat : h = Heard /\ h <= Len(log)
  BY HeardWithinLog DEF StreamInv
<1>2. /\ snapshotAt' = [snapshotAt EXCEPT ![t] = Len(log)]
      /\ t \in subscribed /\ Len(log) \in Nat
      /\ UNCHANGED <<inbox, subscribed, log, phase, committedEvents>>
  BY HeardWithinLog DEF GetSnapshot, IInv, DatabaseInv, StreamInv, database, worker
<1>3. snapshotAt' \in [Subscribers -> Nat \cup {Null}]
  BY <1>2 DEF StreamInv
<1>4. ASSUME NEW s \in Subscribers
      PROVE  /\ inbox'[s] # <<>> \/ snapshotAt'[s] # Null => s \in subscribed'
             /\ Holds(inbox'[s], snapshotAt'[s], h)
  <2>1. Holds(inbox[s], snapshotAt[s], h)
    BY <1>1 DEF StreamInv
  <2>2. Holds(inbox[s], Len(log), h)
    BY <1>1, <1>2, <2>1, HoldsSnapshot
  <2>3. snapshotAt'[s] = IF s = t THEN Len(log) ELSE snapshotAt[s]
    BY <1>2 DEF StreamInv
  <2> QED
    BY <1>2, <2>1, <2>2, <2>3 DEF StreamInv
<1>5. BatchInLog'
  BY <1>2 DEF StreamInv, BatchInLog
<1> QED
  BY <1>1, <1>3, <1>4, <1>5 DEF StreamInv

\* Every step preserves StreamInv.
LEMMA StreamStep ==
    ASSUME IInv, StreamInv, [Next]_vars, "reconcile" \notin Faults
    PROVE  StreamInv'
<1>1. BatchInLog'
  BY BatchStaysInLog DEF StreamInv
<1>2. CASE Crash
  <2>1. /\ inbox' = [s \in Subscribers |-> <<>>]
        /\ snapshotAt' = [s \in Subscribers |-> Null]
    BY <1>2 DEF Crash
  <2>2. ASSUME NEW s \in Subscribers PROVE Holds(inbox'[s], snapshotAt'[s], Heard')
    BY <2>1, HoldsNothing
  <2> QED
    BY <1>1, <2>1, <2>2 DEF StreamInv
<1>3. CASE PublishEvent
  <2>1. \A s \in Subscribers : Holds(inbox[s], snapshotAt[s], Heard)'
    BY <1>3, PublishKeepsStreams
  <2>2. \A s \in Subscribers : s \notin subscribed => inbox'[s] = inbox[s]
    BY <1>3 DEF PublishEvent
  <2>3. UNCHANGED <<snapshotAt, subscribed>>
    BY <1>3 DEF PublishEvent
  <2> QED
    BY <1>1, <2>1, <2>2, <2>3 DEF StreamInv
<1>4. CASE ~Crash /\ ~PublishEvent
  <2>1. Heard' = Heard
    BY <1>4, HeardKept
  <2>2. CASE UNCHANGED <<inbox, snapshotAt>> /\ subscribed \subseteq subscribed'
    BY <1>1, <2>1, <2>2 DEF StreamInv
  <2>3. CASE \E s \in Subscribers : GetSnapshot(s)
    BY <2>1, <2>3, SnapshotKeepsStreams
  <2> QED
    BY <1>4, <2>2, <2>3 DEF Next, WorkerStep, vars, streams, Start, Replay, Serve, dispatch,
       streamDomainEvents, Take, ReceiptFound, ReceiptMissing, LookupFails,
       DecideRejects, DecideAccepts, AppendEvent, TransactionFails, Persist, Commit,
       CommitReportedAsFailed, AdoptReadModel, Succeed, ReadPersistedEvents,
       FoldPersistedEvent, EndReconcile, ReconcileFails, RejectWithReceipt,
       RejectWithoutReceipt, AnswerFailure
<1> QED
  BY <1>2, <1>3, <1>4

\* If the events can be read back after a failure, a subscriber that listens and then
\* reads the snapshot hears of every event past it once and in order.
THEOREM SnapshotThenStreamHolds ==
    ASSUME "reconcile" \notin Faults
    PROVE  Spec => []SnapshotThenStreamIsComplete
<1>1. Init => StreamInv
  <2> SUFFICES ASSUME Init PROVE StreamInv
    OBVIOUS
  <2>1. inbox = [s \in Subscribers |-> <<>>] /\ snapshotAt = [s \in Subscribers |-> Null]
    BY DEF Init
  <2>2. ASSUME NEW s \in Subscribers PROVE Holds(inbox[s], snapshotAt[s], Heard)
    BY <2>1, HoldsNothing
  <2>3. BatchInLog
    BY DEF Init, BatchInLog
  <2> QED
    BY <2>1, <2>2, <2>3 DEF StreamInv
<1>2. IInv /\ StreamInv /\ [Next]_vars => StreamInv'
  BY StreamStep
<1>3. IInv /\ StreamInv => SnapshotThenStreamIsComplete
  <2> SUFFICES ASSUME IInv, StreamInv PROVE SnapshotThenStreamIsComplete
    OBVIOUS
  <2>1. phase = "idle" => Heard = Len(log)
    BY DEF Heard
  <2> QED
    BY <2>1 DEF StreamInv, Holds, SnapshotThenStreamIsComplete
<1> QED
  BY <1>1, <1>2, <1>3, Invariance, PTL DEF Spec
=============================================================================
