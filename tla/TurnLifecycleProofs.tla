--------------------------- MODULE TurnLifecycleProofs ---------------------------
(***************************************************************************)
(* Two facts of the life of turns, for every number of turns, commands,    *)
(* chunks and faults.                                                      *)
(*                                                                         *)
(* No turn start is lost (NoTurnStartIsLostHolds). A message of the user   *)
(* waits in the reactor's queue, is in hand of the run of the reactor,     *)
(* which may hang with it, has reached the provider, or has its failure    *)
(* among the thread's activities (AnswerInv). What is hard is that the     *)
(* read model forgets nothing that this needs: no command of the ingestion *)
(* touches the user's messages or drops a failure (Owes), and the          *)
(* activities, which the projector cuts to the last 500, hold one failure  *)
(* of each turn and one that is of none.                                   *)
(*                                                                         *)
(* runStopAll leaves no session of the Codex adapter behind                *)
(* (CodexStopsEverySession). The adapter's map has every session that      *)
(* runs: a start stops the session it replaces, whether a turn start, a    *)
(* change of the runtime mode or a recovery asks for it (SInv).            *)
(***************************************************************************)
EXTENDS TurnLifecycle, FiniteSetTheorems, SequenceTheorems, TLAPS

(***************************************************************************)
(* What dispatch makes of the read model: the events of one command are    *)
(* one or two, and the fold of the projector over them is one or two steps.*)
(***************************************************************************)

Recorded(e) == Put(Put(e, "sequence", 0), "threadId", T)
Folded(model, events) == FoldLeft(LAMBDA m, e : projectEvent(m, Recorded(e)), model, events)

LEMMA FoldOne ==
    ASSUME NEW model, NEW e
    PROVE  Folded(model, <<e>>) = projectEvent(model, Recorded(e))
<1> DEFINE Op(d, m) == projectEvent(m, Recorded(d))
           IsIter(it) == it = [s \in SUBSET {1} |-> IF s = {} THEN model ELSE Op(<<e>>[Max(s)], it[s \ {Max(s)}])]
           W == [s \in SUBSET {1} |-> IF s = {} THEN model ELSE Op(e, model)]
<1>1. Max({1}) = 1
  BY DEF Max
<1>2. SUBSET {1} = {{}, {1}}
  OBVIOUS
<1>3. {1} \ {1} = {} /\ {1} # {} /\ <<e>>[1] = e
  OBVIOUS
<1>4. \A s \in SUBSET {1} : W[s] = IF s = {} THEN model ELSE Op(<<e>>[Max(s)], W[s \ {Max(s)}])
  <2> HIDE DEF Op
  <2> QED
    BY <1>1, <1>2, <1>3
<1>5. IsIter(W)
  <2> HIDE DEF Op
  <2> QED
    BY <1>4
<1>6. \A it : IsIter(it) => it[{1}] = Op(e, model)
  <2> HIDE DEF Op
  <2> SUFFICES ASSUME NEW it, IsIter(it) PROVE it[{1}] = Op(e, model)
    OBVIOUS
  <2>1. it[{}] = model
    BY <1>2
  <2>4. \A s \in SUBSET {1} : it[s] = IF s = {} THEN model ELSE Op(<<e>>[Max(s)], it[s \ {Max(s)}])
    OBVIOUS
  <2>2. it[{1}] = Op(<<e>>[Max({1})], it[{1} \ {Max({1})}])
    BY <2>4, <1>3
  <2>3. <<e>>[Max({1})] = e /\ {1} \ {Max({1})} = {}
    BY <1>1, <1>3
  <2> QED
    BY <2>1, <2>2, <2>3
<1>7. Folded(model, <<e>>) = (CHOOSE it : IsIter(it))[{1}]
  <2>1. DOMAIN <<e>> = {1}
    OBVIOUS
  <2> QED
    BY <2>1 DEF Folded, FoldLeft, MapThenFoldSet
<1> HIDE DEF IsIter
<1>8. IsIter(CHOOSE it : IsIter(it))
  BY <1>5
<1> QED
  BY <1>6, <1>7, <1>8

LEMMA FoldTwo ==
    ASSUME NEW model, NEW d, NEW e
    PROVE  Folded(model, <<d, e>>) = projectEvent(projectEvent(model, Recorded(d)), Recorded(e))
<1> DEFINE Op(x, m) == projectEvent(m, Recorded(x))
           q == <<d, e>>
           S == {1, 2}
           IsIter(it) == it = [s \in SUBSET S |-> IF s = {} THEN model
                                                  ELSE Op(q[Max(s)], it[s \ {Max(s)}])]
           W == [s \in SUBSET S |-> IF s = {} THEN model
                                    ELSE IF s = {1} THEN Op(d, model)
                                    ELSE IF s = {2} THEN Op(e, model)
                                    ELSE Op(e, Op(d, model))]
           Value(w, s) == IF s = {} THEN model ELSE Op(q[Max(s)], w[s \ {Max(s)}])
<1>1. Max({1}) = 1 /\ Max({2}) = 2 /\ Max(S) = 2
  <2>1. Max(S) \in S /\ \A y \in S : Max(S) >= y
    <3>1. 2 \in S /\ \A y \in S : 2 >= y
      OBVIOUS
    <3> QED
      BY <3>1 DEF Max
  <2> QED
    BY <2>1 DEF Max
<1>2. /\ SUBSET S = {{}, {1}, {2}, S}
      /\ {} # {1} /\ {} # {2} /\ {} # S /\ {1} # {2} /\ {1} # S /\ {2} # S
      /\ S \ {2} = {1} /\ {1} \ {1} = {} /\ {2} \ {2} = {}
  OBVIOUS
<1>3. q[1] = d /\ q[2] = e /\ DOMAIN q = S
  OBVIOUS
<1>9. q[Max({1})] = d /\ {1} \ {Max({1})} = {} /\ q[Max(S)] = e /\ S \ {Max(S)} = {1}
  BY <1>1, <1>2, <1>3
<1>4. \A s \in SUBSET S : W[s] = Value(W, s)
  <2> HIDE DEF Op, q, S
  <2>1. W[{}] = model /\ W[{1}] = Op(d, model) /\ W[{2}] = Op(e, model) /\ W[S] = Op(e, Op(d, model))
    BY <1>2
  <2>2. Value(W, {}) = model
    OBVIOUS
  <2>3. Value(W, {1}) = Op(d, model)
    BY <2>1, <1>1, <1>2, <1>3
  <2>4. Value(W, {2}) = Op(e, model)
    BY <2>1, <1>1, <1>2, <1>3
  <2>5. Value(W, S) = Op(e, Op(d, model))
    BY <2>1, <1>1, <1>2, <1>3
  <2> HIDE DEF W, Value
  <2> QED
    BY <1>2, <2>1, <2>2, <2>3, <2>4, <2>5
<1>5. IsIter(W)
  <2> HIDE DEF Op, q
  <2> QED
    BY <1>4
<1>6. ASSUME NEW it, IsIter(it) PROVE it[S] = Op(e, Op(d, model))
  <2>0. \A s \in SUBSET S : it[s] = Value(it, s)
    <3> HIDE DEF Op, q, S
    <3> QED
      BY <1>6
  <2> HIDE DEF Op, q, S
  <2>1. it[{}] = model
    BY <1>2, <2>0
  <2>2. it[{1}] = Op(d, model)
    <3>1. it[{1}] = Value(it, {1})
      BY <1>2, <2>0
    <3>2. Value(it, {1}) = Op(q[Max({1})], it[{1} \ {Max({1})}])
      BY <1>2
    <3> QED
      BY <3>1, <3>2, <2>1, <1>9
  <2>3. it[S] = Value(it, S)
    BY <1>2, <2>0
  <2>4. Value(it, S) = Op(q[Max(S)], it[S \ {Max(S)}])
    BY <1>2
  <2> QED
    BY <2>2, <2>3, <2>4, <1>9
<1>7. Folded(model, q) = (CHOOSE it : IsIter(it))[S]
  BY <1>3 DEF Folded, FoldLeft, MapThenFoldSet
<1> HIDE DEF IsIter
<1>8. IsIter(CHOOSE it : IsIter(it))
  BY <1>5
<1> QED
  BY <1>6, <1>7, <1>8

-----------------------------------------------------------------------------

ThreadFields == {"projectId", "meta", "runtimeMode", "interactionMode", "latestTurn", "archived",
                 "deleted", "messages", "proposedPlans", "activities", "checkpoints", "session"}

IsModel(m) ==
    /\ {"snapshotSequence", "threads"} \subseteq DOMAIN m
    /\ T \in DOMAIN m.threads
    /\ ThreadFields \subseteq DOMAIN m.threads[T]

\* An event of the thread replaces the fields of its patch.
LEMMA ProjectFacts ==
    ASSUME NEW m, IsModel(m), NEW e, e.threadId = T,
           e.type \notin {"project.created", "project.meta-updated", "project.deleted",
                           "thread.created"}
    PROVE  /\ IsModel(projectEvent(m, e))
           /\ projectEvent(m, e).threads[T] = Patch(m.threads[T], ThreadPatch(m.threads[T], e))
<1> DEFINE n == [m EXCEPT !.snapshotSequence = e.sequence]
<1>1. projectEvent(m, e) = updateThread(n, e)
  BY DEF projectEvent
<1>2. n.threads = m.threads /\ "threads" \in DOMAIN n /\ "snapshotSequence" \in DOMAIN n
  BY DEF IsModel
<1>3. updateThread(n, e) = [n EXCEPT !.threads[T] = Patch(@, ThreadPatch(@, e))]
  BY <1>2 DEF updateThread, IsModel
<1> HIDE DEF n
<1>4. updateThread(n, e).threads[T] = Patch(m.threads[T], ThreadPatch(m.threads[T], e))
  BY <1>2, <1>3 DEF IsModel
<1>5. {"snapshotSequence", "threads"} \subseteq DOMAIN updateThread(n, e)
      /\ T \in DOMAIN updateThread(n, e).threads
  BY <1>2, <1>3 DEF IsModel
<1>6. ThreadFields \subseteq DOMAIN Patch(m.threads[T], ThreadPatch(m.threads[T], e))
  BY DEF IsModel, Patch
<1> QED
  BY <1>1, <1>4, <1>5, <1>6 DEF IsModel

\* What the command's event is, as the read model gets it.
LEMMA DispatchOne ==
    ASSUME NEW m, NEW c, "type" \in DOMAIN c, c.type # "thread.turn.start"
    PROVE  dispatch(m, c) = projectEvent(m, Recorded(EventOf(m, Put(c, "threadId", T))))
<1> DEFINE d == Put(c, "threadId", T)
<1>1. d.type = c.type
  BY DEF Put
<1>2. decideOrchestrationCommand(m, d) = <<EventOf(m, d)>>
  BY <1>1 DEF decideOrchestrationCommand
<1>3. dispatch(m, c) = Folded(m, decideOrchestrationCommand(m, d))
  BY DEF dispatch, Folded, Recorded
<1> QED
  BY <1>2, <1>3, FoldOne

\* The events of the commands that the reactors and the ingestion dispatch.
LEMMA CommandEventFacts ==
    /\ EventTypeOf["thread.session.set"] = "thread.session-set"
    /\ EventTypeOf["thread.runtime-mode.set"] = "thread.runtime-mode-set"
    /\ EventTypeOf["thread.turn.start"] = "thread.turn-start-requested"
    /\ EventTypeOf["thread.activity.append"] = "thread.activity-appended"
    /\ EventTypeOf["thread.message.assistant.delta"] = "thread.message-sent"
    /\ EventTypeOf["thread.message.assistant.complete"] = "thread.message-sent"
<1> DEFINE D == {p[1] : p \in CommandEvents}
<1>1. \A p \in CommandEvents : p[1] \in D /\ EventTypeOf[p[1]] = (CHOOSE q \in CommandEvents : q[1] = p[1])[2]
  BY DEF EventTypeOf
<1>2. \A p, q \in CommandEvents : p[1] = q[1] => p = q
  BY DEF CommandEvents
<1>3. \A p \in CommandEvents : EventTypeOf[p[1]] = p[2]
  BY <1>1, <1>2
<1>4. {<<"thread.session.set", "thread.session-set">>, 
       <<"thread.runtime-mode.set", "thread.runtime-mode-set">>,
       <<"thread.turn.start", "thread.turn-start-requested">>,
       <<"thread.activity.append", "thread.activity-appended">>,
       <<"thread.message.assistant.delta", "thread.message-sent">>,
       <<"thread.message.assistant.complete", "thread.message-sent">>} \subseteq CommandEvents
  BY DEF CommandEvents
<1> QED
  BY <1>3, <1>4

\* What each command does to the thread: a session, a mode, a failure, a piece of a
\* message, the end of a message, a message of the user.
LEMMA SetSessionFacts ==
    ASSUME NEW m, IsModel(m), NEW status, NEW turn, NEW mode
    PROVE  LET n == SetSession(m, status, turn, mode)
               s == [status |-> status, activeTurnId |-> turn, runtimeMode |-> mode]
           IN  IsModel(n) /\ n.threads[T] = Patch(m.threads[T], SessionPatch(m.threads[T], s))
<1> DEFINE s == [status |-> status, activeTurnId |-> turn, runtimeMode |-> mode]
           c == [type |-> "thread.session.set", session |-> s]
           d == Put(c, "threadId", T)
           e == Recorded(EventOf(m, d))
<1>1. d.type = "thread.session.set" /\ d.session = s /\ DOMAIN d = {"type", "session", "threadId"}
  BY DEF Put
<1> HIDE DEF s
<1>2. PayloadPatch(m, d) = <<>>
  BY <1>1 DEF PayloadPatch, NoPatch
<1>3. /\ Patch(d, PayloadPatch(m, d)).session = s
      /\ {"type", "session", "threadId"} \subseteq DOMAIN Patch(d, PayloadPatch(m, d))
  BY <1>1, <1>2 DEF Patch
<1>4. e.type = "thread.session-set" /\ e.threadId = T /\ e.session = s
  BY <1>1, <1>3, CommandEventFacts DEF EventOf, Recorded, Put
<1> HIDE DEF d, e
<1>5. ThreadPatch(m.threads[T], e) = SessionPatch(m.threads[T], s)
  BY <1>4 DEF ThreadPatch
<1>6. dispatch(m, c) = projectEvent(m, e)
  BY DispatchOne DEF d, e
<1> QED
  BY <1>4, <1>5, <1>6, ProjectFacts DEF SetSession, s

LEMMA SetModeFacts ==
    ASSUME NEW m, IsModel(m), NEW mode
    PROVE  LET n == dispatch(m, [type |-> "thread.runtime-mode.set", runtimeMode |-> mode])
           IN  IsModel(n) /\ n.threads[T] = Patch(m.threads[T], [runtimeMode |-> mode])
<1> DEFINE c == [type |-> "thread.runtime-mode.set", runtimeMode |-> mode]
           d == Put(c, "threadId", T)
           e == Recorded(EventOf(m, d))
<1>1. /\ d.type = "thread.runtime-mode.set" /\ d.runtimeMode = mode
      /\ DOMAIN d = {"type", "runtimeMode", "threadId"}
  BY DEF Put
<1>2. PayloadPatch(m, d) = <<>>
  BY <1>1 DEF PayloadPatch, NoPatch
<1>3. /\ Patch(d, PayloadPatch(m, d)).runtimeMode = mode
      /\ {"type", "runtimeMode", "threadId"} \subseteq DOMAIN Patch(d, PayloadPatch(m, d))
  BY <1>1, <1>2 DEF Patch
<1>4. e.type = "thread.runtime-mode-set" /\ e.threadId = T /\ e.runtimeMode = mode
  BY <1>1, <1>3, CommandEventFacts DEF EventOf, Recorded, Put
<1> HIDE DEF d, e
<1>5. ThreadPatch(m.threads[T], e) = [runtimeMode |-> mode]
  BY <1>4 DEF ThreadPatch
<1>6. dispatch(m, c) = projectEvent(m, e)
  BY DispatchOne DEF d, e
<1> QED
  BY <1>4, <1>5, <1>6, ProjectFacts

LEMMA FailureFacts ==
    ASSUME NEW m, IsModel(m), NEW id
    PROVE  LET n == FailureActivity(m, id)
               a == [id |-> id, turnId |-> Null]
           IN  /\ IsModel(n)
               /\ n.threads[T] = Patch(m.threads[T],
                     [activities |-> KeepLast(UpsertById(m.threads[T].activities, a),
                                              MAX_THREAD_ACTIVITIES)])
<1> DEFINE a == [id |-> id, turnId |-> Null]
           c == [type |-> "thread.activity.append", activity |-> a]
           d == Put(c, "threadId", T)
           e == Recorded(EventOf(m, d))
<1>1. /\ d.type = "thread.activity.append" /\ d.activity = a
      /\ DOMAIN d = {"type", "activity", "threadId"}
  BY DEF Put
<1> HIDE DEF a
<1>2. PayloadPatch(m, d) = <<>>
  BY <1>1 DEF PayloadPatch, NoPatch
<1>3. /\ Patch(d, PayloadPatch(m, d)).activity = a
      /\ {"type", "activity", "threadId"} \subseteq DOMAIN Patch(d, PayloadPatch(m, d))
  BY <1>1, <1>2 DEF Patch
<1>4. e.type = "thread.activity-appended" /\ e.threadId = T /\ e.activity = a
  BY <1>1, <1>3, CommandEventFacts DEF EventOf, Recorded, Put
<1> HIDE DEF d, e
<1>5. ThreadPatch(m.threads[T], e) =
        [activities |-> KeepLast(UpsertById(m.threads[T].activities, a), MAX_THREAD_ACTIVITIES)]
  BY <1>4 DEF ThreadPatch
<1>6. dispatch(m, c) = projectEvent(m, e)
  BY DispatchOne DEF d, e
<1> QED
  BY <1>4, <1>5, <1>6, ProjectFacts DEF FailureActivity, a

\* The event of a message that the assistant sends.
IsSaid(e, turn, text, streaming) ==
    /\ e.type = "thread.message-sent" /\ e.role = "assistant"
    /\ e.messageId = turn /\ e.turnId = turn /\ e.text = text /\ e.streaming = streaming

LEMMA DeltaFacts ==
    ASSUME NEW m, IsModel(m), NEW turn, NEW text, text # <<>>
    PROVE  LET n == AssistantDelta(m, turn, text)
           IN  /\ IsModel(n)
               /\ \E e : /\ IsSaid(e, turn, text, TRUE)
                         /\ n.threads[T] = Patch(m.threads[T],
                               [messages |-> MessagesAfterSent(m.threads[T].messages, e)])
<1> DEFINE c == [type |-> "thread.message.assistant.delta", messageId |-> turn,
                 turnId |-> turn, text |-> text]
           d == Put(c, "threadId", T)
           e == Recorded(EventOf(m, d))
           p == PayloadPatch(m, d)
<1>1. /\ d.type = "thread.message.assistant.delta" /\ d.messageId = turn
      /\ d.turnId = turn /\ d.text = text
      /\ DOMAIN d = {"type", "messageId", "turnId", "text", "threadId"}
  BY DEF Put
<1>2. p = [role |-> "assistant", streaming |-> TRUE]
  BY <1>1 DEF PayloadPatch
<1> HIDE DEF d, p
<1>3. /\ Patch(d, p).role = "assistant" /\ Patch(d, p).streaming = TRUE
      /\ Patch(d, p).messageId = turn /\ Patch(d, p).turnId = turn /\ Patch(d, p).text = text
      /\ DOMAIN Patch(d, p) = {"type", "messageId", "turnId", "text", "threadId", "role", "streaming"}
  BY <1>1, <1>2 DEF Patch
<1>4. IsSaid(e, turn, text, TRUE) /\ e.threadId = T
  BY <1>1, <1>3, CommandEventFacts DEF EventOf, Recorded, Put, IsSaid, p
<1> HIDE DEF e
<1>5. ThreadPatch(m.threads[T], e) =
        [messages |-> MessagesAfterSent(m.threads[T].messages, e)]
  BY <1>4 DEF ThreadPatch, IsSaid
<1>6. dispatch(m, c) = projectEvent(m, e)
  BY DispatchOne DEF d, e
<1>7. AssistantDelta(m, turn, text) = dispatch(m, c)
  BY DEF AssistantDelta
<1> HIDE DEF c
<1> QED
  BY <1>4, <1>5, <1>6, <1>7, ProjectFacts DEF IsSaid

Complete(m, turn) ==
    dispatch(m, [type |-> "thread.message.assistant.complete", messageId |-> turn,
                 turnId |-> turn])

LEMMA CompleteFacts ==
    ASSUME NEW m, IsModel(m), NEW turn
    PROVE  LET n == Complete(m, turn)
           IN  /\ IsModel(n)
               /\ \E e : /\ IsSaid(e, turn, <<>>, FALSE)
                         /\ n.threads[T] = Patch(m.threads[T],
                               [messages |-> MessagesAfterSent(m.threads[T].messages, e)])
<1> DEFINE c == [type |-> "thread.message.assistant.complete", messageId |-> turn,
                 turnId |-> turn]
           d == Put(c, "threadId", T)
           e == Recorded(EventOf(m, d))
           p == PayloadPatch(m, d)
<1>1. /\ d.type = "thread.message.assistant.complete" /\ d.messageId = turn /\ d.turnId = turn
      /\ DOMAIN d = {"type", "messageId", "turnId", "threadId"}
  BY DEF Put
<1>2. p = [role |-> "assistant", streaming |-> FALSE, text |-> <<>>]
  BY <1>1 DEF PayloadPatch
<1> HIDE DEF d, p
<1>3. /\ Patch(d, p).role = "assistant" /\ Patch(d, p).streaming = FALSE
      /\ Patch(d, p).messageId = turn /\ Patch(d, p).turnId = turn /\ Patch(d, p).text = <<>>
      /\ DOMAIN Patch(d, p) = {"type", "messageId", "turnId", "text", "threadId", "role", "streaming"}
  BY <1>1, <1>2 DEF Patch
<1>4. IsSaid(e, turn, <<>>, FALSE) /\ e.threadId = T
  BY <1>1, <1>3, CommandEventFacts DEF EventOf, Recorded, Put, IsSaid, p
<1> HIDE DEF e
<1>5. ThreadPatch(m.threads[T], e) =
        [messages |-> MessagesAfterSent(m.threads[T].messages, e)]
  BY <1>4 DEF ThreadPatch, IsSaid
<1>6. dispatch(m, c) = projectEvent(m, e)
  BY DispatchOne DEF d, e
<1> HIDE DEF c
<1> QED
  BY <1>4, <1>5, <1>6, ProjectFacts DEF IsSaid, Complete, c

\* The event of a message of the user, and the turn start that sends it.
IsAsked(e, id) ==
    /\ e.role = "user" /\ e.messageId = id /\ e.turnId = Null
    /\ e.text = <<>> /\ e.streaming = FALSE

AskTurn(m, id) ==
    dispatch(m, [type |-> "thread.turn.start", text |-> <<>>, messageId |-> id])

LEMMA TurnStartFacts ==
    ASSUME NEW m, IsModel(m), NEW id
    PROVE  LET n == AskTurn(m, id)
           IN  /\ IsModel(n)
               /\ \E e : /\ IsAsked(e, id)
                         /\ n.threads[T] = Patch(m.threads[T],
                               [messages |-> MessagesAfterSent(m.threads[T].messages, e)])
<1> DEFINE c == [type |-> "thread.turn.start", text |-> <<>>, messageId |-> id]
           d == Put(c, "threadId", T)
           e == Recorded(UserMessageEvent(d))
           f == Recorded(EventOf(m, d))
           p == PayloadPatch(m, d)
           k == projectEvent(m, e)
<1>1. /\ d.type = "thread.turn.start" /\ d.messageId = id /\ d.text = <<>>
      /\ DOMAIN d = {"type", "messageId", "text", "threadId"}
  BY DEF Put
<1> HIDE DEF d, p
<1>2. UserMessageEvent(d) = Patch(d, [type |-> "thread.message-sent", role |-> "user",
                    turnId |-> Null, streaming |-> FALSE])
  BY DEF UserMessageEvent
<1>3. /\ UserMessageEvent(d).role = "user" /\ UserMessageEvent(d).streaming = FALSE
      /\ UserMessageEvent(d).turnId = Null
      /\ UserMessageEvent(d).messageId = id /\ UserMessageEvent(d).text = <<>>
      /\ UserMessageEvent(d).type = "thread.message-sent"
      /\ DOMAIN UserMessageEvent(d)
            = {"type", "messageId", "turnId", "text", "threadId", "role", "streaming"}
  BY <1>1, <1>2 DEF Patch
<1>4. /\ e.type = "thread.message-sent" /\ e.role = "user" /\ e.messageId = id /\ e.text = <<>>
      /\ e.streaming = FALSE /\ e.turnId = Null /\ e.threadId = T
  BY <1>3 DEF Recorded, Put
<1>5. f.type = "thread.turn-start-requested" /\ f.threadId = T
  BY <1>1, CommandEventFacts DEF EventOf, Recorded, Put, Patch
<1> HIDE DEF e, f
<1>6. ThreadPatch(m.threads[T], e) =
        [messages |-> MessagesAfterSent(m.threads[T].messages, e)]
  BY <1>4 DEF ThreadPatch
<1>7. ThreadPatch(k.threads[T], f) = <<>>
  BY <1>5 DEF ThreadPatch, NoPatch
<1>8. /\ IsModel(k)
      /\ k.threads[T] = Patch(m.threads[T], ThreadPatch(m.threads[T], e))
  BY <1>4, ProjectFacts
<1>9. /\ IsModel(projectEvent(k, f))
      /\ projectEvent(k, f).threads[T] = Patch(k.threads[T], <<>>)
  BY <1>5, <1>7, <1>8, ProjectFacts
<1>10. Patch(k.threads[T], <<>>) = k.threads[T]
  <2>1. k.threads[T] = [x \in DOMAIN k.threads[T] |-> k.threads[T][x]]
    BY <1>8 DEF Patch
  <2>2. DOMAIN <<>> = {}
    OBVIOUS
  <2> HIDE DEF k
  <2> QED
    BY <2>1, <2>2 DEF Patch
<1>11. dispatch(m, c) = projectEvent(k, f)
  <2>1. decideOrchestrationCommand(m, d) = <<UserMessageEvent(d), EventOf(m, d)>>
    BY <1>1 DEF decideOrchestrationCommand
  <2>2. dispatch(m, c) = Folded(m, decideOrchestrationCommand(m, d))
    BY DEF dispatch, Folded, Recorded, d
  <2> QED
    BY <2>1, <2>2, FoldTwo DEF e, f
<1> HIDE DEF c, k
<1> QED
  BY <1>4, <1>6, <1>8, <1>9, <1>10, <1>11 DEF c, AskTurn, IsAsked

-----------------------------------------------------------------------------

IsCut(k, q, S) == k \in Seq(S) /\ \A i \in DOMAIN k : \E j \in DOMAIN q : k[i] = q[j]

\* What is cut has nothing that was not there.
LEMMA KeepLastFacts ==
    ASSUME NEW S, NEW q \in Seq(S), NEW n \in Nat
    PROVE  IsCut(KeepLast(q, n), q, S)
BY DEF KeepLast, IsCut

MessageFields == {"id", "role", "text", "turnId", "streaming"}

IsMessages(q) == \E S : q \in Seq(S) /\ \A m \in S : MessageFields \subseteq DOMAIN m

UserIds(q) == {q[i].id : i \in {j \in DOMAIN q : q[j].role = "user"}}

\* Only a message of the user adds to what the user asked.
LEMMA MessageFacts ==
    ASSUME NEW q, IsMessages(q), NEW e
    PROVE  /\ IsMessages(MessagesAfterSent(q, e))
           /\ UserIds(MessagesAfterSent(q, e))
                 \subseteq UserIds(q) \cup {x \in {e.messageId} : e.role = "user"}
<1> DEFINE merge(m) == [m EXCEPT !.text = MergedText(@, e), !.streaming = e.streaming,
                                 !.turnId = e.turnId]
           new == [id |-> e.messageId, role |-> e.role, text |-> e.text,
                   turnId |-> e.turnId, streaming |-> e.streaming]
           merged == [i \in DOMAIN q |-> IF q[i].id = e.messageId THEN merge(q[i]) ELSE q[i]]
           p == IF e.messageId \in Ids(q) THEN merged ELSE Append(q, new)
<1>1. PICK S : q \in Seq(S) /\ \A m \in S : MessageFields \subseteq DOMAIN m
  BY DEF IsMessages
<1>2. ASSUME NEW m \in S
      PROVE  /\ MessageFields \subseteq DOMAIN merge(m)
             /\ merge(m).id = m.id /\ merge(m).role = m.role
  BY <1>1 DEF MessageFields
<1>3. MessageFields \subseteq DOMAIN new /\ new.id = e.messageId /\ new.role = e.role
  BY DEF MessageFields
<1> DEFINE S2 == S \cup {merge(m) : m \in S} \cup {new}
<1> HIDE DEF merge, new
<1>4. merged \in Seq(S2) /\ DOMAIN merged = DOMAIN q
  <2>1. DOMAIN q = 1..Len(q) /\ Len(q) \in Nat /\ \A i \in DOMAIN q : q[i] \in S
    BY <1>1
  <2>2. \A i \in DOMAIN q : merged[i] \in S2
    BY <2>1
  <2> HIDE DEF S2
  <2> QED
    BY <2>1, <2>2
<1>5. Append(q, new) \in Seq(S2) /\ DOMAIN Append(q, new) = 1..(Len(q) + 1)
      /\ DOMAIN q = 1..Len(q) /\ Len(q) \in Nat
      /\ Append(q, new)[Len(q) + 1] = new
      /\ \A i \in DOMAIN q : Append(q, new)[i] = q[i]
  <2>1. S \subseteq S2 /\ new \in S2
    OBVIOUS
  <2> HIDE DEF S2
  <2>2. q \in Seq(S2)
    BY <1>1, <2>1
  <2> QED
    BY <2>1, <2>2
<1>6. \A m \in S2 : MessageFields \subseteq DOMAIN m
  BY <1>1, <1>2, <1>3
<1>7. p \in Seq(S2)
  BY <1>4, <1>5
<1>8. \A i \in DOMAIN p : p[i].role = "user"
         => p[i].id \in UserIds(q) \/ (e.role = "user" /\ p[i].id = e.messageId)
  <2>1. ASSUME NEW i \in DOMAIN q PROVE merged[i].role = q[i].role /\ merged[i].id = q[i].id
    <3>1. q[i] \in S
      BY <1>1
    <3> QED
      BY <3>1, <1>2
  <2>2. CASE e.messageId \in Ids(q)
    BY <2>1, <2>2, <1>4 DEF UserIds
  <2>3. CASE e.messageId \notin Ids(q)
    BY <2>3, <1>3, <1>5 DEF UserIds
  <2> QED
    BY <2>2, <2>3
<1>9. MessagesAfterSent(q, e) = KeepLast(p, MAX_THREAD_MESSAGES)
  BY DEF MessagesAfterSent, merge, new
<1> HIDE DEF p, S2
<1>10. KeepLast(p, MAX_THREAD_MESSAGES) \in Seq(S2)
       /\ \A i \in DOMAIN KeepLast(p, MAX_THREAD_MESSAGES) :
             \E j \in DOMAIN p : KeepLast(p, MAX_THREAD_MESSAGES)[i] = p[j]
  <2>1. MAX_THREAD_MESSAGES \in Nat
    BY CapsAssumption
  <2> HIDE DEF merged, merge, new
  <2>2. IsCut(KeepLast(p, MAX_THREAD_MESSAGES), p, S2)
    BY <1>7, <2>1, KeepLastFacts
  <2> QED
    BY <2>2 DEF IsCut
<1>11. IsMessages(MessagesAfterSent(q, e))
  BY <1>6, <1>9, <1>10 DEF IsMessages
<1>12. ASSUME NEW x \in UserIds(MessagesAfterSent(q, e))
       PROVE  x \in UserIds(q) \/ (e.role = "user" /\ x = e.messageId)
  <2>1. PICK i \in DOMAIN MessagesAfterSent(q, e) :
           MessagesAfterSent(q, e)[i].role = "user" /\ x = MessagesAfterSent(q, e)[i].id
    BY DEF UserIds
  <2>2. PICK j \in DOMAIN p : MessagesAfterSent(q, e)[i] = p[j]
    BY <1>9, <1>10
  <2> QED
    BY <2>1, <2>2, <1>8
<1> QED
  BY <1>11, <1>12

\* A turn is positive: the ids of the messages of the user are the negated turns.
LEMMA TurnsFacts ==
    /\ IsFiniteSet(Turns) /\ Cardinality(Turns) \in Nat
    /\ \A t \in Turns : t \in Nat /\ t > 0
    /\ 0 \notin Turns
<1>1. IsFiniteSet(Turns) /\ Turns = 1..Cardinality(Turns)
  BY LifecycleAssumption
<1>2. Cardinality(Turns) \in Nat
  BY <1>1, FS_CardinalityType
<1> QED
  BY <1>1, <1>2

\* Activities of the thread: failures, each of its own turn, or of none.
Failures == [id : Turns \cup {0}, turnId : {Null}]

IsFailures(q) == q \in Seq(Failures) /\ \A i, j \in DOMAIN q : q[i].id = q[j].id => i = j

\* There are no more failures than turns, and one more.
LEMMA FailuresFit ==
    ASSUME NEW q, IsFailures(q)
    PROVE  /\ Len(q) \in Nat /\ Cardinality(Turns) \in Nat
           /\ Len(q) <= Cardinality(Turns) + 1
           /\ Ids(q) # Turns \cup {0} => Len(q) <= Cardinality(Turns)
<1> DEFINE D == 1..Len(q)
           f == [i \in D |-> q[i].id]
           A == Turns \cup {0}
<1>1. q \in Seq(Failures) /\ Len(q) \in Nat /\ DOMAIN q = D
  BY DEF IsFailures
<1>2. f \in Injection(D, Ids(q))
  <2>1. \A i \in D : f[i] \in Ids(q)
    BY <1>1 DEF Ids
  <2>2. \A i, j \in D : f[i] = f[j] => i = j
    BY <1>1 DEF IsFailures
  <2> QED
    BY <2>1, <2>2 DEF Injection, IsInjective
<1>3. Ids(q) \subseteq A
  <2>1. \A i \in D : q[i] \in Failures
    BY <1>1
  <2> QED
    BY <1>1, <2>1 DEF Ids, Failures
<1>4. IsFiniteSet(A) /\ Cardinality(A) = Cardinality(Turns) + 1 /\ Cardinality(Turns) \in Nat
  <2>1. IsFiniteSet(Turns) /\ 0 \notin Turns
    BY TurnsFacts
  <2> QED
    BY <2>1, FS_AddElement, FS_CardinalityType
<1>5. /\ IsFiniteSet(Ids(q)) /\ Cardinality(Ids(q)) \in Nat /\ Cardinality(Ids(q)) <= Cardinality(A)
      /\ Ids(q) # A => Cardinality(Ids(q)) # Cardinality(A)
  <2>1. Ids(q) \in SUBSET A
    BY <1>3
  <2>2. /\ IsFiniteSet(Ids(q)) /\ Cardinality(Ids(q)) <= Cardinality(A)
        /\ Ids(q) # A => Cardinality(Ids(q)) # Cardinality(A)
    BY <2>1, <1>4, FS_Subset
  <2> QED
    BY <2>2, FS_CardinalityType
<1>6. IsFiniteSet(D) /\ Cardinality(D) = Len(q)
  BY <1>1, FS_Interval
<1>7. Cardinality(D) <= Cardinality(Ids(q))
  BY <1>2, <1>5, <1>6, FS_Injection
<1> QED
  BY <1>1, <1>4, <1>5, <1>6, <1>7

\* A new failure joins the others, and the cut drops none.
LEMMA FailureKept ==
    ASSUME Cardinality(Turns) < MAX_THREAD_ACTIVITIES,
           NEW q, IsFailures(q), NEW id \in Turns \cup {0}
    PROVE  LET n == KeepLast(UpsertById(q, [id |-> id, turnId |-> Null]), MAX_THREAD_ACTIVITIES)
           IN  IsFailures(n) /\ Ids(n) = Ids(q) \cup {id}
<1> DEFINE a == [id |-> id, turnId |-> Null]
           u == UpsertById(q, a)
<1>1. q \in Seq(Failures) /\ Len(q) \in Nat /\ DOMAIN q = 1..Len(q)
      /\ \A i \in DOMAIN q : q[i] \in Failures
  BY DEF IsFailures
<1>2. a \in Failures /\ a.id = id
  BY DEF Failures
<1> HIDE DEF a
<1>3. CASE id \in Ids(q)
  <2>1. u = [i \in DOMAIN q |-> IF q[i].id = id THEN a ELSE q[i]]
    BY <1>2, <1>3 DEF UpsertById
  <2>2. \A i \in DOMAIN q : u[i] = q[i]
    <3>1. \A i \in DOMAIN q : q[i].id = id => q[i] = a
      BY <1>1 DEF Failures, a
    <3> QED
      BY <2>1, <3>1
  <2>3. u = q
    BY <2>1, <2>2, <1>1
  <2>4. Len(q) <= MAX_THREAD_ACTIVITIES
    BY FailuresFit, CapsAssumption
  <2> QED
    BY <1>3, <2>3, <2>4 DEF KeepLast, a
<1>4. CASE id \notin Ids(q)
  <2>1. u = Append(q, a)
    BY <1>2, <1>4 DEF UpsertById
  <2>2. Len(q) <= Cardinality(Turns) /\ Cardinality(Turns) \in Nat
    BY <1>4, FailuresFit
  <2>3. /\ u \in Seq(Failures) /\ DOMAIN u = 1..(Len(q) + 1) /\ Len(u) = Len(q) + 1
        /\ u[Len(q) + 1] = a /\ \A i \in 1..Len(q) : u[i] = q[i]
    BY <1>1, <1>2, <2>1
  <2>4. Len(u) <= MAX_THREAD_ACTIVITIES
    BY <2>2, <2>3, <1>1, CapsAssumption
  <2> HIDE DEF u
  <2>5. Ids(u) = Ids(q) \cup {id}
    BY <2>3, <1>1, <1>2 DEF Ids
  <2>6. \A i, j \in DOMAIN u : u[i].id = u[j].id => i = j
    <3>1. \A i \in 1..Len(q) : u[i].id # id
      BY <2>3, <1>1, <1>4 DEF Ids
    <3> QED
      BY <3>1, <2>3, <1>1, <1>2 DEF IsFailures
  <2> QED
    BY <2>3, <2>4, <2>5, <2>6 DEF KeepLast, IsFailures, u, a
<1> QED
  BY <1>3, <1>4

-----------------------------------------------------------------------------

Requests == [type : {"turn-start"}, turn : Turns]
               \cup [type : {"runtime-mode-set", "interrupt", "stop"}]

Phases == {"start", "bind", "send", "hangs", "interrupt", "stop", "markStopped"}

\* A run of the reactor is for one request, and only a turn start gets to the send.
IsRun(r) ==
    /\ {"phase", "event", "mode"} \subseteq DOMAIN r
    /\ r.phase \in Phases /\ r.event \in Requests
    /\ r.phase \in {"send", "hangs"} => r.event.type = "turn-start"
    /\ r.phase \in {"interrupt", "stop", "markStopped"} => r.event.type # "turn-start"

QInv ==
    /\ commandQueue \in Seq(Requests)
    /\ reactor = Idle \/ reactor = [phase |-> "closed"] \/ IsRun(reactor)

LEMMA RequestTypes ==
    \A e \in Requests :
        /\ e.type \in {"turn-start", "runtime-mode-set", "interrupt", "stop"}
        /\ e.type = "turn-start" => e.turn \in Turns
BY DEF Requests

LEMMA PhaseFacts ==
    /\ QInv => (reactor.phase \in Phases => IsRun(reactor))
    /\ Idle.phase = "idle" /\ "phase" \in DOMAIN Idle
    /\ [phase |-> "closed"].phase = "closed"
BY DEF QInv, Idle, Phases

LEMMA QInit == Init => QInv
BY DEF Init, QInv

\* The run that the head of the queue gets, if it gets one.
LEMMA TakeRequest ==
    ASSUME QInv, TakeCommand
    PROVE  /\ Head(commandQueue) \in Requests
           /\ commandQueue' \in Seq(Requests)
           /\ reactor' = Idle \/ IsRun(reactor')
           /\ Head(commandQueue).type = "turn-start" =>
                 /\ reactor'.phase \in {"start", "send"}
                 /\ reactor'.event = Head(commandQueue)
<1> DEFINE e == Head(commandQueue)
<1>1. commandQueue \in Seq(Requests) /\ commandQueue # <<>> /\ commandQueue' = Tail(commandQueue)
  BY DEF QInv, TakeCommand
<1>2. e \in Requests /\ commandQueue' \in Seq(Requests)
  BY <1>1
<1> HIDE DEF e
<1>3. e.type \in {"turn-start", "runtime-mode-set", "interrupt", "stop"}
  BY <1>2, RequestTypes
<1>4. ASSUME NEW phase \in Phases,
             phase \in {"send", "hangs"} => e.type = "turn-start",
             phase \in {"interrupt", "stop", "markStopped"} => e.type # "turn-start"
      PROVE  IsRun(Run(phase, e)) /\ Run(phase, e).phase = phase /\ Run(phase, e).event = e
  BY <1>2, <1>4 DEF IsRun, Run
<1>5. CASE e.type = "turn-start"
  <2>1. reactor' = Run(IF NeedsStart(Thread) THEN "start" ELSE "send", e)
    BY <1>5 DEF TakeCommand, e
  <2> QED
    BY <1>2, <1>4, <1>5, <2>1 DEF Phases, e
<1>6. CASE e.type = "runtime-mode-set"
  <2>1. reactor' = Run("start", e) \/ reactor' = Idle
    BY <1>6 DEF TakeCommand, e
  <2> QED
    BY <1>2, <1>4, <1>6, <2>1 DEF Phases, e
<1>7. CASE e.type = "interrupt"
  <2>1. reactor' = Run("interrupt", e) \/ reactor' = Idle
    BY <1>7 DEF TakeCommand, e
  <2> QED
    BY <1>2, <1>4, <1>7, <2>1 DEF Phases, e
<1>8. CASE e.type = "stop"
  <2>1. reactor' = Run("stop", e) \/ reactor' = Run("markStopped", e)
    BY <1>8 DEF TakeCommand, e
  <2> QED
    BY <1>2, <1>4, <1>8, <2>1 DEF Phases, e
<1> QED
  BY <1>3, <1>5, <1>6, <1>7, <1>8

\* What the user asks for goes last.
LEMMA UserRequest ==
    ASSUME QInv, User
    PROVE  /\ \E e \in Requests : commandQueue' = Append(commandQueue, e)
           /\ commandQueue' \in Seq(Requests)
           /\ UNCHANGED <<reactor, adapter, sent>>
<1> USE DEF UserUnchanged, provider
<1>1. commandQueue \in Seq(Requests)
  BY DEF QInv
<1>2. ASSUME NEW t \in Turns, NEW mode, StartTurn(t, mode)
      PROVE  /\ \E e \in Requests : commandQueue' = Append(commandQueue, e)
             /\ UNCHANGED <<reactor, adapter, sent>>
  BY <1>2 DEF StartTurn, Requests
<1>3. ASSUME NEW mode, SetRuntimeMode(mode)
      PROVE  /\ \E e \in Requests : commandQueue' = Append(commandQueue, e)
             /\ UNCHANGED <<reactor, adapter, sent>>
  BY <1>3 DEF SetRuntimeMode, Requests
<1>4. ASSUME NEW type \in {"interrupt", "stop"}, Request(type)
      PROVE  /\ \E e \in Requests : commandQueue' = Append(commandQueue, e)
             /\ UNCHANGED <<reactor, adapter, sent>>
  BY <1>4 DEF Request, Requests
<1>5. /\ \E e \in Requests : commandQueue' = Append(commandQueue, e)
      /\ UNCHANGED <<reactor, adapter, sent>>
  BY <1>2, <1>3, <1>4 DEF User
<1> QED
  BY <1>1, <1>5

\* How a run goes on.
LEMMA RunStep ==
    ASSUME QInv, Reactor, ~TakeCommand
    PROVE  /\ reactor' = Idle \/ IsRun(reactor')
           /\ UNCHANGED commandQueue /\ IsRun(reactor)
<1> USE PhaseFacts DEF Phases
<1>1. CASE StartSession
  BY <1>1 DEF StartSession, IsRun
<1>2. CASE StartSessionFails \/ SendFails
  BY <1>2 DEF StartSessionFails, SendFails, Fails
<1>3. CASE Bind
  BY <1>3 DEF Bind, IsRun
<1>4. CASE Send \/ Interrupt \/ MarkStopped
  BY <1>4 DEF Send, Interrupt, MarkStopped
<1>6. CASE SendHangs
  BY <1>6 DEF SendHangs, IsRun
<1>5. CASE StopSession
  BY <1>5 DEF StopSession, IsRun
<1> QED
  BY <1>1, <1>2, <1>3, <1>4, <1>5, <1>6 DEF Reactor

\* The queue has requests, the reactor works at one of them.
LEMMA QStep == ASSUME QInv, Next PROVE QInv'
<1>1. CASE User
  BY <1>1, UserRequest DEF QInv, IsRun
<1>2. CASE TakeCommand
  BY <1>2, TakeRequest DEF QInv
<1>3. CASE Reactor /\ ~TakeCommand
  BY <1>3, RunStep DEF QInv
<1>4. CASE StopAll
  BY <1>4 DEF QInv, StopAll
<1>5. CASE Provider \/ Ingestion
  <2>1. UNCHANGED <<reactor, commandQueue>>
    BY <1>5 DEF Provider, Say, CompleteItem, CompleteTurn, SessionDies, ProviderUnchanged,
                Ingestion, TakeMode, TakeRuntimeEvent, Ingest, IngestionUnchanged
  <2> QED
    BY <2>1 DEF QInv, IsRun
<1> QED
  BY <1>1, <1>2, <1>3, <1>4, <1>5 DEF Next, Reactor

-----------------------------------------------------------------------------

IsKept(m) ==
    /\ IsModel(m)
    /\ IsMessages(m.threads[T].messages)
    /\ IsFailures(m.threads[T].activities)

\* What the user is owed an answer for does not grow, the failures do not shrink.
Owes(m, n) ==
    /\ IsKept(n)
    /\ UserIds(n.threads[T].messages) \subseteq UserIds(m.threads[T].messages)
    /\ Ids(m.threads[T].activities) \subseteq Ids(n.threads[T].activities)

\* A patch leaves the fields it does not name.
LEMMA PatchKeeps ==
    ASSUME NEW th, NEW p, ThreadFields \subseteq DOMAIN th
    PROVE  /\ "messages" \notin DOMAIN p => Patch(th, p).messages = th.messages
           /\ "activities" \notin DOMAIN p => Patch(th, p).activities = th.activities
           /\ "messages" \in DOMAIN p => Patch(th, p).messages = p.messages
           /\ "activities" \in DOMAIN p => Patch(th, p).activities = p.activities
BY DEF Patch, ThreadFields

\* No command but the turn start adds a message of the user, and none drops a failure.
LEMMA SetSessionOwes ==
    ASSUME NEW m, IsKept(m), NEW status, NEW turn, NEW mode
    PROVE  Owes(m, SetSession(m, status, turn, mode))
<1> DEFINE n == SetSession(m, status, turn, mode)
           p == SessionPatch(m.threads[T], [status |-> status, activeTurnId |-> turn, runtimeMode |-> mode])
<1>1. IsModel(n) /\ n.threads[T] = Patch(m.threads[T], p)
  BY SetSessionFacts DEF IsKept
<1>2. "messages" \notin DOMAIN p /\ "activities" \notin DOMAIN p
  BY DEF SessionPatch
<1> HIDE DEF n, p
<1>3. ThreadFields \subseteq DOMAIN m.threads[T]
  BY DEF IsKept, IsModel
<1>4. n.threads[T].messages = m.threads[T].messages /\ n.threads[T].activities = m.threads[T].activities
  BY <1>1, <1>2, <1>3, PatchKeeps
<1> QED
  BY <1>1, <1>4 DEF Owes, IsKept, n

LEMMA SetModeOwes ==
    ASSUME NEW m, IsKept(m), NEW mode
    PROVE  Owes(m, dispatch(m, [type |-> "thread.runtime-mode.set", runtimeMode |-> mode]))
<1> DEFINE n == dispatch(m, [type |-> "thread.runtime-mode.set", runtimeMode |-> mode])
           p == [runtimeMode |-> mode]
<1>1. IsModel(n) /\ n.threads[T] = Patch(m.threads[T], p)
  BY SetModeFacts DEF IsKept
<1>2. "messages" \notin DOMAIN p /\ "activities" \notin DOMAIN p
  OBVIOUS
<1> HIDE DEF n, p
<1>3. ThreadFields \subseteq DOMAIN m.threads[T]
  BY DEF IsKept, IsModel
<1>4. n.threads[T].messages = m.threads[T].messages /\ n.threads[T].activities = m.threads[T].activities
  BY <1>1, <1>2, <1>3, PatchKeeps
<1> QED
  BY <1>1, <1>4 DEF Owes, IsKept, n

LEMMA FailureOwes ==
    ASSUME Cardinality(Turns) < MAX_THREAD_ACTIVITIES,
           NEW m, IsKept(m), NEW id \in Turns \cup {0}
    PROVE  /\ Owes(m, FailureActivity(m, id))
           /\ id \in Ids(FailureActivity(m, id).threads[T].activities)
<1> DEFINE n == FailureActivity(m, id)
           p == [activities |-> KeepLast(UpsertById(m.threads[T].activities, [id |-> id, turnId |-> Null]),
                                         MAX_THREAD_ACTIVITIES)]
<1>1. IsModel(n) /\ n.threads[T] = Patch(m.threads[T], p)
  BY FailureFacts DEF IsKept
<1>2. "messages" \notin DOMAIN p /\ "activities" \in DOMAIN p
  OBVIOUS
<1>3. IsFailures(p.activities) /\ Ids(p.activities) = Ids(m.threads[T].activities) \cup {id}
  BY FailureKept DEF IsKept
<1> HIDE DEF n, p
<1>4. ThreadFields \subseteq DOMAIN m.threads[T]
  BY DEF IsKept, IsModel
<1>5. n.threads[T].messages = m.threads[T].messages /\ n.threads[T].activities = p.activities
  BY <1>1, <1>2, <1>4, PatchKeeps
<1> QED
  BY <1>1, <1>3, <1>5 DEF Owes, IsKept, n

LEMMA DeltaOwes ==
    ASSUME NEW m, IsKept(m), NEW turn, NEW text
    PROVE  Owes(m, AssistantDelta(m, turn, text))
<1>1. CASE text = <<>>
  BY <1>1 DEF AssistantDelta, Owes
<1>2. CASE text # <<>>
  <2> DEFINE n == AssistantDelta(m, turn, text)
  <2>1. /\ IsModel(n)
        /\ \E e : /\ IsSaid(e, turn, text, TRUE)
                  /\ n.threads[T] = Patch(m.threads[T],
                        [messages |-> MessagesAfterSent(m.threads[T].messages, e)])
    BY <1>2, DeltaFacts DEF IsKept
  <2> HIDE DEF n
  <2>2. PICK e : /\ IsSaid(e, turn, text, TRUE)
                 /\ n.threads[T] = Patch(m.threads[T],
                        [messages |-> MessagesAfterSent(m.threads[T].messages, e)])
    BY <2>1
  <2> DEFINE p == [messages |-> MessagesAfterSent(m.threads[T].messages, e)]
  <2>3. "messages" \in DOMAIN p /\ "activities" \notin DOMAIN p
    OBVIOUS
  <2>4. IsMessages(p.messages) /\ UserIds(p.messages) \subseteq UserIds(m.threads[T].messages)
    <3>1. IsMessages(m.threads[T].messages) /\ e.role # "user"
      BY <2>2 DEF IsKept, IsSaid
    <3> QED
      BY <3>1, MessageFacts
  <2> HIDE DEF p
  <2>5. ThreadFields \subseteq DOMAIN m.threads[T]
    BY DEF IsKept, IsModel
  <2>6. n.threads[T].messages = p.messages /\ n.threads[T].activities = m.threads[T].activities
    BY <2>2, <2>3, <2>5, PatchKeeps DEF p
  <2> QED
    BY <2>1, <2>4, <2>6 DEF Owes, IsKept, n
<1> QED
  BY <1>1, <1>2

LEMMA CompleteOwes ==
    ASSUME NEW m, IsKept(m), NEW turn
    PROVE  Owes(m, Complete(m, turn))
<1> DEFINE n == Complete(m, turn)
<1>1. /\ IsModel(n)
      /\ \E e : /\ IsSaid(e, turn, <<>>, FALSE)
                /\ n.threads[T] = Patch(m.threads[T],
                      [messages |-> MessagesAfterSent(m.threads[T].messages, e)])
  BY CompleteFacts DEF IsKept
<1> HIDE DEF n
<1>2. PICK e : /\ IsSaid(e, turn, <<>>, FALSE)
               /\ n.threads[T] = Patch(m.threads[T],
                      [messages |-> MessagesAfterSent(m.threads[T].messages, e)])
  BY <1>1
<1> DEFINE p == [messages |-> MessagesAfterSent(m.threads[T].messages, e)]
<1>3. "messages" \in DOMAIN p /\ "activities" \notin DOMAIN p
  OBVIOUS
<1>4. IsMessages(p.messages) /\ UserIds(p.messages) \subseteq UserIds(m.threads[T].messages)
  <2>1. IsMessages(m.threads[T].messages) /\ e.role # "user"
    BY <1>2 DEF IsKept, IsSaid
  <2> QED
    BY <2>1, MessageFacts
<1> HIDE DEF p
<1>5. ThreadFields \subseteq DOMAIN m.threads[T]
  BY DEF IsKept, IsModel
<1>6. n.threads[T].messages = p.messages /\ n.threads[T].activities = m.threads[T].activities
  BY <1>2, <1>3, <1>5, PatchKeeps DEF p
<1> QED
  BY <1>1, <1>4, <1>6 DEF Owes, IsKept, n

LEMMA TurnStartOwes ==
    ASSUME NEW m, IsKept(m), NEW id
    PROVE  LET n == AskTurn(m, id)
           IN  /\ IsKept(n)
               /\ UserIds(n.threads[T].messages) \subseteq UserIds(m.threads[T].messages) \cup {id}
               /\ n.threads[T].activities = m.threads[T].activities
<1> DEFINE n == AskTurn(m, id)
<1>1. /\ IsModel(n)
      /\ \E e : /\ IsAsked(e, id)
                /\ n.threads[T] = Patch(m.threads[T],
                      [messages |-> MessagesAfterSent(m.threads[T].messages, e)])
  <2>1. IsModel(m)
    BY DEF IsKept
  <2> QED
    BY <2>1, TurnStartFacts
<1> HIDE DEF n
<1>2. PICK e : /\ IsAsked(e, id)
               /\ n.threads[T] = Patch(m.threads[T],
                      [messages |-> MessagesAfterSent(m.threads[T].messages, e)])
  BY <1>1
<1> DEFINE p == [messages |-> MessagesAfterSent(m.threads[T].messages, e)]
<1>3. "messages" \in DOMAIN p /\ "activities" \notin DOMAIN p
  OBVIOUS
<1>4. IsMessages(p.messages) /\ UserIds(p.messages) \subseteq UserIds(m.threads[T].messages) \cup {id}
  <2>1. IsMessages(m.threads[T].messages)
    BY DEF IsKept
  <2>2. /\ IsMessages(p.messages)
        /\ UserIds(p.messages) \subseteq UserIds(m.threads[T].messages) \cup {x \in {e.messageId} : e.role = "user"}
    BY <2>1, MessageFacts
  <2> QED
    BY <1>2, <2>2 DEF IsAsked
<1> HIDE DEF p
<1>5. ThreadFields \subseteq DOMAIN m.threads[T]
  BY DEF IsKept, IsModel
<1>6. n.threads[T].messages = p.messages /\ n.threads[T].activities = m.threads[T].activities
  BY <1>2, <1>3, <1>5, PatchKeeps DEF p
<1> QED
  BY <1>1, <1>4, <1>6 DEF IsKept, n

LEMMA OwesTransitive ==
    ASSUME NEW l, NEW m, NEW n, Owes(l, m), Owes(m, n)
    PROVE  Owes(l, n)
BY DEF Owes

LEMMA OwesItself == ASSUME NEW m, IsKept(m) PROVE Owes(m, m)
BY DEF Owes

LEMMA FinalizeOwes ==
    ASSUME NEW m, IsKept(m), NEW turn, NEW text
    PROVE  Owes(m, finalize(m, turn, text))
<1> DEFINE said0 == IF buffered[turn] # <<>> THEN buffered[turn] ELSE text
           n == AssistantDelta(m, turn, said0)
<1>1. finalize(m, turn, text) = Complete(n, turn)
  BY DEF finalize, Complete
<1>2. Owes(m, n)
  BY DeltaOwes
<1> HIDE DEF n
<1>3. Owes(n, Complete(n, turn))
  BY <1>2, CompleteOwes DEF Owes
<1> QED
  BY <1>1, <1>2, <1>3, OwesTransitive

\* The ingestion only dispatches such commands.
LEMMA IngestOwes == ASSUME IsKept(readModel), Ingest PROVE Owes(readModel, readModel')
<1> DEFINE event == ingestion.event
           m == SessionAfter(readModel, event, ingestion.session)
<1>1. Owes(readModel, m)
  BY SetSessionOwes, OwesItself DEF SessionAfter
<1> HIDE DEF m
<1>2. IsKept(m)
  BY <1>1 DEF Owes
<1>3. CASE event.type = "delta"
  <2>1. Delta(m, event)
    BY <1>3 DEF Ingest, m
  <2>2. readModel' = m \/ \E text : readModel' = AssistantDelta(m, event.turn, text)
    BY <2>1 DEF Delta
  <2> QED
    BY <2>2, <1>1, <1>2, DeltaOwes, OwesTransitive
<1>4. CASE event.type = "item.completed"
  <2>1. ItemCompleted(m, event)
    BY <1>4 DEF Ingest, m
  <2>2. \E text : readModel' = finalize(m, event.turn, text)
    BY <2>1 DEF ItemCompleted
  <2> QED
    BY <2>2, <1>1, <1>2, FinalizeOwes, OwesTransitive
<1>5. CASE event.type \in {"turn.completed", "turn.failed"}
  <2>1. TurnCompleted(m, event)
    BY <1>5 DEF Ingest, m
  <2>2. readModel' = m \/ \E text : readModel' = finalize(m, event.turn, text)
    BY <2>1 DEF TurnCompleted
  <2> QED
    BY <2>2, <1>1, <1>2, FinalizeOwes, OwesTransitive
<1>6. CASE event.type \notin {"delta", "item.completed", "turn.completed", "turn.failed"}
  <2>1. readModel' = m
    BY <1>6 DEF Ingest, SessionExited, m
  <2> QED
    BY <2>1, <1>1
<1> QED
  BY <1>3, <1>4, <1>5, <1>6

-----------------------------------------------------------------------------

Asked == UserIds(Thread.messages)
Failed == Ids(Thread.activities)

Queued(q) == {q[i].turn : i \in {j \in DOMAIN q : q[j].type = "turn-start"}}

InHand(r) ==
    {r.event.turn : x \in {y \in {r.phase} : /\ y \in {"start", "bind", "send", "hangs"}
                                            /\ r.event.type = "turn-start"}}

\* Every message of the user waits, is worked at, has reached the provider or has failed.
AnswerInv ==
    /\ QInv
    /\ IsKept(readModel)
    /\ reactor.phase # "closed" =>
          \A x \in Asked : -x \in sent \cup Failed \cup InHand(reactor) \cup Queued(commandQueue)

\* Turn starts wait until they are taken.
LEMMA QueuedAppend ==
    ASSUME NEW S, NEW q \in Seq(S), NEW e \in S
    PROVE  /\ Queued(q) \subseteq Queued(Append(q, e))
           /\ e.type = "turn-start" => e.turn \in Queued(Append(q, e))
<1>1. /\ DOMAIN Append(q, e) = 1..(Len(q) + 1) /\ DOMAIN q = 1..Len(q) /\ Len(q) \in Nat
      /\ Append(q, e)[Len(q) + 1] = e /\ \A i \in DOMAIN q : Append(q, e)[i] = q[i]
  OBVIOUS
<1> QED
  BY <1>1 DEF Queued

LEMMA QueuedTail ==
    ASSUME NEW S, NEW q \in Seq(S), q # <<>>
    PROVE  \A t \in Queued(q) : \/ t \in Queued(Tail(q))
                                \/ Head(q).type = "turn-start" /\ t = Head(q).turn
<1>1. /\ DOMAIN Tail(q) = 1..(Len(q) - 1) /\ DOMAIN q = 1..Len(q) /\ Len(q) \in Nat
      /\ Head(q) = q[1] /\ \A i \in DOMAIN q : i = 1 \/ (i - 1 \in DOMAIN Tail(q) /\ Tail(q)[i - 1] = q[i])
  OBVIOUS
<1> HIDE DEF Queued
<1>2. ASSUME NEW i \in DOMAIN q, q[i].type = "turn-start"
      PROVE  q[i].turn \in Queued(Tail(q)) \/ (Head(q).type = "turn-start" /\ q[i].turn = Head(q).turn)
  BY <1>1, <1>2 DEF Queued
<1> QED
  BY <1>2 DEF Queued

LEMMA AnswerInit == Init => AnswerInv
<1> SUFFICES ASSUME Init PROVE AnswerInv
  OBVIOUS
<1>1. /\ "threads" \in DOMAIN readModel /\ "snapshotSequence" \in DOMAIN readModel
      /\ readModel.threads = [x \in {T} |-> InitialThread]
  BY DEF Init, createEmptyReadModel
<1>2. /\ ThreadFields \subseteq DOMAIN InitialThread
      /\ InitialThread.messages = <<>> /\ InitialThread.activities = <<>>
  BY DEF InitialThread, NewThread, ThreadFields
<1>3. Thread = InitialThread
  BY <1>1 DEF Thread
<1>4. IsMessages(<<>>)
  <2> DEFINE S == {m \in {Null} : MessageFields \subseteq DOMAIN m}
  <2>1. \A m \in S : MessageFields \subseteq DOMAIN m
    OBVIOUS
  <2> HIDE DEF S
  <2>2. <<>> \in Seq(S)
    OBVIOUS
  <2> QED
    BY <2>1, <2>2 DEF IsMessages
<1>5. IsFailures(<<>>)
  BY DEF IsFailures
<1>6. IsKept(readModel)
  BY <1>1, <1>2, <1>3, <1>4, <1>5 DEF IsKept, IsModel, Thread
<1>7. Asked = {}
  BY <1>2, <1>3 DEF Asked, UserIds
<1> QED
  BY <1>6, <1>7, QInit DEF AnswerInv

\* A step that answers nobody keeps what waits for an answer.
LEMMA AnswerKept ==
    ASSUME AnswerInv, QInv', Running, Owes(readModel, readModel'),
           sent \cup InHand(reactor) \cup Queued(commandQueue)
              \subseteq sent' \cup Failed' \cup InHand(reactor') \cup Queued(commandQueue')
    PROVE  AnswerInv'
<1>1. Asked' \subseteq Asked /\ Failed \subseteq Failed' /\ IsKept(readModel')
  BY DEF Owes, Asked, Failed, Thread
<1> QED
  BY <1>1 DEF AnswerInv, Running

\* Every action hands a waiting message on, answers it, or leaves it where it is.
LEMMA AnswerStep ==
    ASSUME Cardinality(Turns) < MAX_THREAD_ACTIVITIES, AnswerInv, Next
    PROVE  AnswerInv'
<1> USE DEF ReactorUnchanged
<1>0. QInv' /\ Running /\ commandQueue \in Seq(Requests) /\ Owes(readModel, readModel)
  BY QStep, OwesItself DEF AnswerInv, Next, QInv
<1>1. CASE \E t \in Turns, mode \in DeliveryModes : StartTurn(t, mode)
  <2>1. PICK t \in Turns, mode \in DeliveryModes : StartTurn(t, mode)
    BY <1>1
  <2> DEFINE e == [type |-> "turn-start", turn |-> t]
             n == AskTurn(readModel, -t)
  <2>2. /\ readModel' = n /\ commandQueue' = Append(commandQueue, e)
        /\ UNCHANGED <<reactor, sent>>
    BY <2>1 DEF StartTurn, UserUnchanged, provider, AskTurn
  <2>3. e \in Requests /\ e.type = "turn-start" /\ e.turn = t
    BY DEF Requests
  <2> HIDE DEF e
  <2>4. t \in Queued(commandQueue') /\ Queued(commandQueue) \subseteq Queued(commandQueue')
    BY <1>0, <2>2, <2>3, QueuedAppend
  <2>5. /\ IsKept(n) /\ UserIds(n.threads[T].messages) \subseteq Asked \cup {-t}
        /\ n.threads[T].activities = Thread.activities
    BY TurnStartOwes DEF AnswerInv, Asked, Thread
  <2> HIDE DEF n
  <2>6. IsKept(readModel') /\ Asked' \subseteq Asked \cup {-t} /\ Failed' = Failed
    BY <2>2, <2>5 DEF Asked, Failed, Thread
  <2>7. -(-t) = t
    BY TurnsFacts
  <2> QED
    BY <1>0, <2>2, <2>4, <2>6, <2>7 DEF AnswerInv, Running
<1>2. CASE \E mode \in ToSet(RuntimeModes) : SetRuntimeMode(mode)
  <2>1. PICK mode : SetRuntimeMode(mode)
    BY <1>2
  <2>2. Owes(readModel, readModel')
    BY <2>1, SetModeOwes DEF AnswerInv, SetRuntimeMode
  <2>3. UNCHANGED <<reactor, sent>> /\ Queued(commandQueue) \subseteq Queued(commandQueue')
    <3>1. User
      BY <1>2 DEF User
    <3> QED
      BY <1>0, <3>1, UserRequest, QueuedAppend DEF AnswerInv
  <2> QED
    BY <1>0, <2>2, <2>3, AnswerKept
<1>3. CASE Request("interrupt") \/ Request("stop")
  <2>1. UNCHANGED readModel
    BY <1>3 DEF Request
  <2>2. UNCHANGED <<reactor, sent>> /\ Queued(commandQueue) \subseteq Queued(commandQueue')
    <3>1. User
      BY <1>3 DEF User
    <3> QED
      BY <1>0, <3>1, UserRequest, QueuedAppend DEF AnswerInv
  <2> QED
    BY <1>0, <2>1, <2>2, AnswerKept
<1>4. CASE TakeCommand
  <2> DEFINE e == Head(commandQueue)
  <2>1. /\ e \in Requests /\ reactor = Idle /\ UNCHANGED sent
        /\ commandQueue # <<>> /\ commandQueue' = Tail(commandQueue)
        /\ e.type = "turn-start" => reactor'.phase \in {"start", "send"} /\ reactor'.event = e
    BY <1>4, TakeRequest DEF AnswerInv, TakeCommand
  <2>2. readModel' \in {readModel, FailureActivity(readModel, 0)}
    BY <1>4 DEF TakeCommand
  <2>3. Owes(readModel, readModel')
    BY <1>0, <2>2, FailureOwes DEF AnswerInv
  <2>4. \A t \in Queued(commandQueue) :
           t \in Queued(commandQueue') \/ (e.type = "turn-start" /\ t = e.turn)
    BY <1>0, <2>1, QueuedTail
  <2> HIDE DEF e
  <2>5. InHand(reactor) = {} /\ (e.type = "turn-start" => e.turn \in InHand(reactor'))
    BY <2>1 DEF InHand, Idle
  <2> QED
    BY <1>0, <2>1, <2>3, <2>4, <2>5, AnswerKept
<1>5. CASE Reactor /\ ~TakeCommand
  <2>1. UNCHANGED commandQueue /\ IsRun(reactor)
    BY <1>5, RunStep DEF AnswerInv
  <2>2. CASE StartSession
    <3>1. /\ reactor.phase = "start" /\ reactor' = [reactor EXCEPT !.phase = "bind"]
          /\ UNCHANGED <<readModel, sent>>
      BY <2>2 DEF StartSession
    <3>2. InHand(reactor) \subseteq InHand(reactor')
      BY <2>1, <3>1 DEF InHand, IsRun
    <3> QED
      BY <1>0, <2>1, <3>1, <3>2, AnswerKept
  <2>3. CASE StartSessionFails \/ SendFails
    <3> DEFINE e == reactor.event
    <3>1. Fails(e) /\ UNCHANGED sent
      BY <2>3 DEF StartSessionFails, SendFails
    <3>2. e \in Requests
      BY <2>1 DEF IsRun
    <3> HIDE DEF e
    <3>3. CASE e.type = "turn-start"
      <4>1. e.turn \in Turns /\ readModel' = FailureActivity(readModel, e.turn)
        BY <3>1, <3>2, <3>3, RequestTypes DEF Fails
      <4>2. Owes(readModel, readModel') /\ e.turn \in Failed'
        BY <4>1, FailureOwes DEF AnswerInv, Failed, Thread
      <4>3. InHand(reactor) \subseteq {e.turn}
        BY DEF InHand, e
      <4> QED
        BY <1>0, <2>1, <3>1, <4>2, <4>3, AnswerKept
    <3>4. CASE e.type # "turn-start"
      <4>1. UNCHANGED readModel /\ InHand(reactor) = {}
        BY <3>1, <3>4 DEF Fails, InHand, e
      <4> QED
        BY <1>0, <2>1, <3>1, <4>1, AnswerKept
    <3> QED
      BY <3>3, <3>4
  <2>4. CASE Bind
    <3>1. Owes(readModel, readModel') /\ UNCHANGED sent
      BY <2>4, SetSessionOwes DEF Bind, AnswerInv
    <3>2. InHand(reactor) \subseteq InHand(reactor')
      BY <2>1, <2>4 DEF Bind, InHand, IsRun
    <3> QED
      BY <1>0, <2>1, <3>1, <3>2, AnswerKept
  <2>5. CASE Send
    <3>1. sent' = sent \cup {reactor.event.turn} /\ UNCHANGED readModel
      BY <2>5 DEF Send, SendTurn
    <3>2. InHand(reactor) \subseteq {reactor.event.turn}
      BY DEF InHand
    <3> QED
      BY <1>0, <2>1, <3>1, <3>2, AnswerKept
  <2>7. CASE SendHangs
    <3>1. /\ reactor.phase = "send" /\ reactor' = [reactor EXCEPT !.phase = "hangs"]
          /\ UNCHANGED <<readModel, sent>>
      BY <2>7 DEF SendHangs
    <3>2. InHand(reactor) \subseteq InHand(reactor')
      BY <2>1, <3>1 DEF InHand, IsRun
    <3> QED
      BY <1>0, <2>1, <3>1, <3>2, AnswerKept
  <2>6. CASE Interrupt \/ StopSession \/ MarkStopped
    <3>1. UNCHANGED sent /\ reactor.phase \in {"interrupt", "stop", "markStopped"}
      BY <2>6 DEF Interrupt, StopSession, MarkStopped
    <3>2. Owes(readModel, readModel')
      BY <1>0, <2>6, SetSessionOwes DEF Interrupt, StopSession, MarkStopped, AnswerInv
    <3>3. InHand(reactor) = {}
      BY <3>1 DEF InHand
    <3> QED
      BY <1>0, <2>1, <3>1, <3>2, <3>3, AnswerKept
  <2> QED
    BY <1>5, <2>2, <2>3, <2>4, <2>5, <2>6, <2>7 DEF Reactor
<1>6. CASE StopAll
  <2>1. reactor' = [phase |-> "closed"] /\ UNCHANGED readModel
    BY <1>6 DEF StopAll
  <2> QED
    BY <1>0, <2>1 DEF AnswerInv
<1>7. CASE Provider
  <2>1. UNCHANGED <<reactor, commandQueue, sent, readModel>>
    BY <1>7 DEF Provider, Say, CompleteItem, CompleteTurn, SessionDies, ProviderUnchanged
  <2> QED
    BY <1>0, <2>1, AnswerKept
<1>8. CASE Ingestion
  <2>1. UNCHANGED <<reactor, commandQueue, sent>>
    BY <1>8 DEF Ingestion, TakeMode, TakeRuntimeEvent, Ingest, IngestionUnchanged, provider
  <2>2. Owes(readModel, readModel')
    BY <1>0, <1>8, IngestOwes DEF Ingestion, TakeMode, TakeRuntimeEvent, AnswerInv
  <2> QED
    BY <1>0, <2>1, <2>2, AnswerKept
<1> QED
  BY <1>1, <1>2, <1>3, <1>4, <1>5, <1>6, <1>7, <1>8 DEF Next, User, Reactor

\* While the server runs, every message of the user is one that the reactor has before it
\* or hangs with, has reached the provider, or has its failure in the thread.  The failures
\* of the turns, and one more, have to fit the activities that the projector keeps.
THEOREM NoTurnStartIsLostHolds ==
    ASSUME Cardinality(Turns) < MAX_THREAD_ACTIVITIES
    PROVE  Spec => []NoTurnStartIsLost
<1>1. AnswerInv /\ [Next]_vars => AnswerInv'
  <2>1. AnswerInv /\ UNCHANGED vars => AnswerInv'
    BY DEF vars, provider, AnswerInv, QInv, IsRun, Asked, Failed, Thread
  <2> QED
    BY <2>1, AnswerStep
<1>2. AnswerInv => NoTurnStartIsLost
  <2> SUFFICES ASSUME AnswerInv, reactor.phase # "closed",
                      NEW m \in ToSet(Thread.messages), m.role = "user"
               PROVE  -m.id \in sent \cup Ids(Thread.activities) \cup QueuedTurns \cup TurnInHand
    BY DEF NoTurnStartIsLost
  <2>1. m.id \in Asked
    BY DEF Asked, UserIds, ToSet
  <2>2. Queued(commandQueue) \subseteq QueuedTurns
    BY DEF Queued, QueuedTurns, ToSet
  <2>3. InHand(reactor) \subseteq TurnInHand
    BY DEF InHand, TurnInHand, Idle
  <2> QED
    BY <2>1, <2>2, <2>3 DEF AnswerInv, Failed
<1> QED
  BY <1>1, <1>2, AnswerInit, PTL DEF Spec

-----------------------------------------------------------------------------

SessionsAreMapped ==
    /\ {"active", "alive", "turn", "orphans"} \subseteq DOMAIN adapter
    /\ adapter.orphans = <<>>
    /\ reactor.phase = "closed" => adapter.active = FALSE

SInv == QInv /\ SessionsAreMapped

\* A session that Codex starts replaces the one in the map, and nothing else runs.
LEMMA StartKeepsMap ==
    ASSUME Codex, NEW a, a.orphans = <<>>
    PROVE  /\ startSession(a).adapter.orphans = <<>>
           /\ {"active", "alive", "turn", "orphans"} \subseteq DOMAIN startSession(a).adapter
<1>1. ~(a.active /\ ~StopsReplaced(a))
  BY DEF StopsReplaced
<1> QED
  BY <1>1 DEF startSession

\* No step but StopAll closes the reactor, and that one empties the map.
LEMMA StepKeepsMap ==
    ASSUME Codex, SInv, Next
    PROVE  SInv'
<1> USE DEF ReactorUnchanged, ProviderUnchanged, UserUnchanged, IngestionUnchanged
<1>1. QInv /\ QInv' /\ reactor.phase # "closed"
  BY QStep DEF SInv, Next, Running
<1>2. CASE User
  <2>1. UNCHANGED <<reactor, adapter>>
    BY <1>1, <1>2, UserRequest
  <2> QED
    BY <1>1, <2>1 DEF SInv, SessionsAreMapped
<1>3. CASE TakeCommand
  <2>1. UNCHANGED adapter /\ reactor'.phase # "closed"
    BY <1>1, <1>3, TakeRequest DEF TakeCommand, IsRun, Phases, Idle
  <2> QED
    BY <1>1, <2>1 DEF SInv, SessionsAreMapped
<1>4. CASE Reactor /\ ~TakeCommand
  <2>1. reactor'.phase # "closed"
    BY <1>1, <1>4, RunStep DEF IsRun, Phases, Idle
  <2>2. CASE StartSession
    BY <1>1, <2>1, <2>2, StartKeepsMap DEF StartSession, SInv, SessionsAreMapped
  <2>3. CASE StartSessionFails \/ StopSession
    <3>1. UNCHANGED adapter \/ adapter' = Stopped(adapter)
      BY <2>3 DEF StartSessionFails, StopSession, Fails
    <3> QED
      BY <1>1, <2>1, <3>1 DEF SInv, SessionsAreMapped, Stopped
  <2>4. CASE Bind \/ SendHangs \/ SendFails \/ MarkStopped
    <3>1. UNCHANGED adapter
      BY <2>4 DEF Bind, SendHangs, SendFails, MarkStopped, Fails
    <3> QED
      BY <1>1, <2>1, <3>1 DEF SInv, SessionsAreMapped
  <2>5. CASE Send \/ Interrupt
    <3>1. \/ adapter' \in {adapter, startSession(adapter).adapter}
          \/ \E a \in {adapter, startSession(adapter).adapter} :
                \E t : adapter' = [a EXCEPT !.turn = t]
      BY <2>5 DEF Send, SendTurn, Interrupt
    <3>2. \A a \in {adapter, startSession(adapter).adapter} :
             a.orphans = <<>> /\ {"active", "alive", "turn", "orphans"} \subseteq DOMAIN a
      BY StartKeepsMap DEF SInv, SessionsAreMapped
    <3>3. adapter'.orphans = <<>> /\ {"active", "alive", "turn", "orphans"} \subseteq DOMAIN adapter'
      BY <3>1, <3>2
    <3> QED
      BY <1>1, <2>1, <3>3 DEF SInv, SessionsAreMapped
  <2> QED
    BY <1>4, <2>2, <2>3, <2>4, <2>5 DEF Reactor
<1>5. CASE StopAll
  <2>1. adapter' = [adapter EXCEPT !.active = FALSE, !.alive = FALSE, !.turn = Null]
    BY <1>5 DEF StopAll, Stopped
  <2> QED
    BY <1>1, <2>1 DEF SInv, SessionsAreMapped
<1>6. CASE Say \/ CompleteItem \/ CompleteTurn
  <2>1. UNCHANGED reactor /\ (UNCHANGED adapter \/ adapter' = [adapter EXCEPT !.turn = Null])
    BY <1>6 DEF Say, CompleteItem, CompleteTurn
  <2> QED
    BY <1>1, <2>1 DEF SInv, SessionsAreMapped
<1>7. CASE \E k \in 0 .. Len(adapter.orphans) : SessionDies(k)
  <2>1. PICK k \in 0 .. Len(adapter.orphans) : SessionDies(k)
    BY <1>7
  <2>2. k = 0
    <3>1. Len(adapter.orphans) = 0
      BY DEF SInv, SessionsAreMapped
    <3> QED
      BY <2>1, <3>1
  <2>3. /\ adapter' = [active |-> Codex, alive |-> FALSE, turn |-> Null, orphans |-> adapter.orphans]
        /\ UNCHANGED reactor
    BY <2>1, <2>2 DEF SessionDies
  <2> QED
    BY <1>1, <2>3 DEF SInv, SessionsAreMapped
<1>8. CASE Ingestion
  <2>1. UNCHANGED <<reactor, adapter>>
    BY <1>8 DEF Ingestion, TakeMode, TakeRuntimeEvent, Ingest, provider
  <2> QED
    BY <1>1, <2>1 DEF SInv, SessionsAreMapped
<1> QED
  BY <1>2, <1>3, <1>4, <1>5, <1>6, <1>7, <1>8 DEF Next, Provider

\* With the Codex adapter no session outlives the server: none was replaced without
\* being stopped, so that all of them are in the map that runStopAll goes through.
THEOREM CodexStopsEverySession ==
    ASSUME Codex
    PROVE  Spec => []StopAllStopsEverySession
<1>1. Init => SInv
  BY QInit DEF Init, Idle, NoSession, SInv, SessionsAreMapped
<1>2. SInv /\ [Next]_vars => SInv'
  <2>1. SInv /\ UNCHANGED vars => SInv'
    BY DEF vars, provider, SInv, QInv, IsRun, SessionsAreMapped
  <2> QED
    BY <2>1, StepKeepsMap
<1>3. SInv => StopAllStopsEverySession
  BY DEF SInv, SessionsAreMapped, StopAllStopsEverySession
<1> QED
  BY <1>1, <1>2, <1>3, PTL DEF Spec
=============================================================================
