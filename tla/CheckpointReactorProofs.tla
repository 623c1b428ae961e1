------------------------- MODULE CheckpointReactorProofs -------------------------
(***************************************************************************)
(* Proofs about the checkpoints of a thread, for every number of turns,    *)
(* edits, reverts and failures.                                            *)
(*                                                                         *)
(* TypeOK says what the queues, the job and the thread consist of.         *)
(* CountInv keeps the account of the reverts: each that was asked for was  *)
(* answered, waits in the queue, or is what the reactor works on.  RefInv  *)
(* follows the refs through a capture, which adds one before the read      *)
(* model has the checkpoint, and a revert, which deletes them before, or   *)
(* breaks off and leaves some lost.                                        *)
(* PhaseInv is about the user who lets the reactor finish, with edits that *)
(* come after the baseline and captures that do not fail (~disturbed).     *)
(* Such a thread is always in one of five phases, and each says where      *)
(* files, refs, conversation and checkpoints stand: at rest (Resting), in  *)
(* a revert (Reverting), before a turn that was asked for (Starting), from *)
(* a turn's start until all its events are worked off (Working), and after *)
(* a revert that broke off once it had rolled back (BrokenOff).  It        *)
(* needs the read model to have room for a checkpoint of every turn        *)
(* (CheckpointsFit): beyond its cap it drops the oldest ones.              *)
(***************************************************************************)
EXTENDS CheckpointReactor, ArrayLemmas

-----------------------------------------------------------------------------
(* Types *)

Statuses == {"ready", "error", "missing"}

\* The ref of a checkpoint is that of its turn count, or a placeholder's.
OwnRef(c) == c.checkpointRef \in {Null, c.checkpointTurnCount}

Checkpoints ==
    {c \in [turnId : Nat, status : Statuses, checkpointTurnCount : Nat,
            checkpointRef : Nat \cup {Null}, assistantMessageId : {Null}] : OwnRef(c)}

Diffs ==
    {e \in [type : {"thread.turn-diff-completed"}, turnId : Nat, checkpointTurnCount : Nat,
            status : Statuses, checkpointRef : Nat \cup {Null},
            assistantMessageId : {Null}] : OwnRef(e)}

Placeholders == {e \in Diffs : e.checkpointRef = Null}

TurnStarts == [type : {"thread.turn-start-requested"}]
RevertRequests == [type : {"thread.checkpoint-revert-requested"}, turnCount : Nat]
DomainEvents == TurnStarts \cup RevertRequests \cup Diffs

RuntimeEvents ==
    [type : {"turn.started", "turn.diff.updated"}, turnId : Nat]
      \cup [type : {"turn.completed"}, turnId : Nat, state : EndStates]

BaselineJobs == [step : {"baseline"}, turnCount : Nat]
CaptureJobs  == [step : {"capture", "finalize"}, event : Diffs]
RevertSteps  == {"restore", "rollback", "delete", "complete"}
RevertJobs   == [step : RevertSteps, turnCount : Nat, target : Nat, rolledBackTurns : Nat,
                 staleRefs : SUBSET (Nat \cup {Null})]
Jobs == {Idle} \cup BaselineJobs \cup CaptureJobs \cup RevertJobs

IsThread(t) == "checkpoints" \in DOMAIN t /\ t.checkpoints \in Seq(Checkpoints)

TypeOK ==
    /\ IsThread(thread)
    /\ domainQueue \in Seq(DomainEvents)
    /\ runtimeQueue \in Seq(RuntimeEvents)
    /\ ingestQueue \in Seq(RuntimeEvents)
    /\ placeholder \in {NoEvent} \cup Placeholders
    /\ job \in Jobs
    /\ edits \in Seq(Nat)
    /\ running \in Nat \cup {Null}
    /\ DOMAIN refs \subseteq Nat
    /\ asked \in Nat /\ answered \in Nat

-----------------------------------------------------------------------------
(* The read model's thread *)

\* A set of numbers, finite and not empty, has a greatest.
LEMMA HasGreatest ==
    ASSUME NEW S, S \subseteq Nat, IsFiniteSet(S), S # {}
    PROVE  \E n \in S : \A c \in S : c <= n
<1>1. Cardinality(S) \in Nat /\ Cardinality(S) # 0
  BY FS_CardinalityType, FS_EmptySet
<1>2. PICK n \in S : Rank(n, S) = Cardinality(S)
  <2>1. Cardinality(S) \in 1..Cardinality(S)
    BY <1>1
  <2> QED
    BY <2>1, RankIsOnto
<1>3. ASSUME NEW c \in S PROVE c <= n
  <2>1. Rank(c, S) \in 1..Cardinality(S)
    BY RankType
  <2>2. n < c => Rank(n, S) < Rank(c, S)
    BY RankIncreases
  <2> QED
    BY <1>1, <1>2, <2>1, <2>2
<1> QED
  BY <1>3

LEMMA CurrentTurnCountFacts ==
    ASSUME NEW t, IsThread(t)
    PROVE  /\ currentTurnCount(t) \in Counts(t) \cup {0}
           /\ currentTurnCount(t) \in Nat
           /\ \A c \in Counts(t) : c <= currentTurnCount(t)
<1> DEFINE I == DOMAIN t.checkpoints
           f == [i \in I |-> t.checkpoints[i].checkpointTurnCount]
<1>1. I = 1..Len(t.checkpoints) /\ Len(t.checkpoints) \in Nat
  BY DEF IsThread
<1>2. \A i \in I : t.checkpoints[i] \in Checkpoints
  BY DEF IsThread
<1>3. Counts(t) \subseteq Nat
  BY <1>2 DEF Counts, Checkpoints
<1>4. IsFiniteSet(Counts(t))
  <2>1. IsFiniteSet(I)
    BY <1>1, FS_Interval
  <2>2. f \in Surjection(I, Counts(t))
    BY DEF Surjection, Counts
  <2> QED
    BY <2>1, <2>2, FS_Surjection
<1>5. IsFiniteSet(Counts(t) \cup {0})
  BY <1>4, FS_AddElement
<1>6. \E n \in Counts(t) \cup {0} : \A c \in Counts(t) \cup {0} : c <= n
  BY <1>3, <1>5, HasGreatest
<1> QED
  BY <1>3, <1>6 DEF currentTurnCount

\* A status of the session changes no checkpoint.
LEMMA SessionKeepsCheckpoints ==
    ASSUME NEW t, IsThread(t), NEW session
    PROVE  LET more == Patch(t, ThreadPatch(t, [type |-> "thread.session-set", session |-> session]))
           IN  IsThread(more) /\ more.checkpoints = t.checkpoints
<1> DEFINE e == [type |-> "thread.session-set", session |-> session]
<1>1. ThreadPatch(t, e) = SessionPatch(t, session)
  BY DEF ThreadPatch
<1>2. "checkpoints" \notin DOMAIN SessionPatch(t, session)
  BY DEF SessionPatch
<1> QED
  BY <1>1, <1>2 DEF Patch, IsThread

CheckpointOf(e) ==
    [turnId |-> e.turnId, status |-> e.status, checkpointTurnCount |-> e.checkpointTurnCount,
     checkpointRef |-> e.checkpointRef, assistantMessageId |-> e.assistantMessageId]

LEMMA CheckpointOfDiff == \A e \in Diffs : CheckpointOf(e) \in Checkpoints
BY DEF Diffs, Checkpoints, CheckpointOf, OwnRef

LEMMA KeepLastFacts ==
    ASSUME NEW S, NEW s \in Seq(S), NEW n \in Nat \ {0}
    PROVE  /\ KeepLast(s, n) \in Seq(S)
           /\ \A i \in DOMAIN KeepLast(s, n) : \E j \in DOMAIN s : KeepLast(s, n)[i] = s[j]
BY DEF KeepLast

LEMMA InsertFacts ==
    ASSUME NEW S, NEW s \in Seq(S), NEW c \in S, \A e \in S : e.checkpointTurnCount \in Nat
    PROVE  /\ InsertByTurnCount(s, c) \in Seq(S)
           /\ \A i \in DOMAIN InsertByTurnCount(s, c) :
                 \/ InsertByTurnCount(s, c)[i] = c
                 \/ \E j \in DOMAIN s : InsertByTurnCount(s, c)[i] = s[j]
<1> DEFINE K == {i \in DOMAIN s : s[i].checkpointTurnCount <= c.checkpointTurnCount}
           k == Cardinality(K)
           a == SubSeq(s, 1, k)
           b == SubSeq(s, k + 1, Len(s))
<1>1. k \in Nat /\ k <= Len(s)
  <2>1. DOMAIN s = 1..Len(s) /\ Len(s) \in Nat
    OBVIOUS
  <2>2. IsFiniteSet(1..Len(s)) /\ Cardinality(1..Len(s)) = Len(s)
    BY <2>1, FS_Interval, SMTT(30)
  <2>3. K \in SUBSET (1..Len(s))
    BY <2>1
  <2> QED
    BY <2>2, <2>3, FS_Subset, FS_CardinalityType
<1> HIDE DEF k
<1>2. a \in Seq(S) /\ Len(a) = k /\ \A i \in 1..k : a[i] = s[i]
  BY <1>1
<1>3. b \in Seq(S) /\ Len(b) = Len(s) - k /\ \A i \in 1..(Len(s) - k) : b[i] = s[k + i]
  BY <1>1
<1> HIDE DEF a, b
<1>4. InsertByTurnCount(s, c) = a \o <<c>> \o b
  BY DEF InsertByTurnCount, a, b, k
<1>5. <<c>> \in Seq(S) /\ Len(<<c>>) = 1 /\ <<c>>[1] = c
  OBVIOUS
<1>6. /\ a \o <<c>> \in Seq(S) /\ Len(a \o <<c>>) = k + 1
      /\ \A i \in 1..(k + 1) : (a \o <<c>>)[i] = IF i <= k THEN s[i] ELSE c
  BY <1>1, <1>2, <1>5
<1> DEFINE d == a \o <<c>>
<1> HIDE DEF d
<1>7. /\ d \o b \in Seq(S) /\ Len(d \o b) = Len(d) + Len(b)
      /\ \A i \in 1..(Len(d) + Len(b)) : (d \o b)[i] = IF i <= Len(d) THEN d[i] ELSE b[i - Len(d)]
  BY <1>3, <1>6, ConcatProperties DEF d
<1>8. Len(d) = k + 1 /\ \A i \in 1..(k + 1) : d[i] = IF i <= k THEN s[i] ELSE c
  BY <1>6 DEF d
<1>9. Len(d \o b) = Len(s) + 1 /\ DOMAIN (d \o b) = 1..(Len(s) + 1) /\ Len(s) \in Nat
  BY <1>1, <1>3, <1>7, <1>8
<1>10. ASSUME NEW i \in 1..(Len(s) + 1)
       PROVE  (d \o b)[i] = IF i <= k THEN s[i] ELSE IF i = k + 1 THEN c ELSE s[i - 1]
  <2>1. CASE i <= k + 1
    BY <1>1, <1>3, <1>7, <1>8, <1>9, <2>1
  <2>2. CASE i > k + 1
    <3>1. i - (k + 1) \in 1..(Len(s) - k) /\ k + (i - (k + 1)) = i - 1
      BY <1>1, <1>9, <2>2
    <3>2. b[i - (k + 1)] = s[i - 1]
      BY <1>3, <3>1
    <3> QED
      BY <1>1, <1>3, <1>7, <1>8, <1>9, <2>2, <3>2, SMTT(30)
  <2> QED
    BY <1>1, <1>9, <2>1, <2>2
<1>11. InsertByTurnCount(s, c) = d \o b
  BY <1>4 DEF d
<1>12. ASSUME NEW i \in 1..(Len(s) + 1)
       PROVE  (d \o b)[i] = c \/ \E j \in DOMAIN s : (d \o b)[i] = s[j]
  <2>1. DOMAIN s = 1..Len(s)
    OBVIOUS
  <2>2. CASE i <= k
    BY <1>1, <1>9, <1>10, <2>1, <2>2, SMTT(30)
  <2>3. CASE i = k + 1
    BY <1>1, <1>9, <1>10, <2>3
  <2>4. CASE i > k + 1
    <3>1. i - 1 \in DOMAIN s /\ (d \o b)[i] = s[i - 1]
      BY <1>1, <1>9, <1>10, <2>1, <2>4
    <3> QED
      BY <3>1
  <2> QED
    BY <1>1, <1>9, <2>2, <2>3, <2>4
<1> QED
  BY <1>7, <1>9, <1>11, <1>12

\* What a diff, placeholder or not, makes of a thread's checkpoints.
LEMMA DiffFacts ==
    ASSUME NEW t, IsThread(t), NEW e \in Diffs
    PROVE  LET more == Patch(t, ThreadPatch(t, e))
           IN  /\ IsThread(more)
               /\ \A i \in DOMAIN more.checkpoints :
                     \/ more.checkpoints[i] = CheckpointOf(e)
                     \/ \E j \in DOMAIN t.checkpoints : more.checkpoints[i] = t.checkpoints[j]
<1> DEFINE K == {i \in DOMAIN t.checkpoints : t.checkpoints[i].turnId # e.turnId}
           others == Filter(t.checkpoints, LAMBDA c : c.turnId # e.turnId)
           inserted == InsertByTurnCount(others, CheckpointOf(e))
           kept == KeepLast(inserted, MAX_THREAD_CHECKPOINTS)
<1>1. others = Entries(t.checkpoints, K)
  BY DEF Filter
<1>2. /\ others \in Seq(Checkpoints)
      /\ \A i \in DOMAIN others : \E j \in DOMAIN t.checkpoints : others[i] = t.checkpoints[j]
  <2>1. K \subseteq DOMAIN t.checkpoints /\ t.checkpoints \in Seq(Checkpoints)
    BY DEF IsThread
  <2> HIDE DEF K, others
  <2> QED
    BY <1>1, <2>1, EntriesAreOld
<1> HIDE DEF others
<1>3. CheckpointOf(e) \in Checkpoints /\ \A c \in Checkpoints : c.checkpointTurnCount \in Nat
  BY CheckpointOfDiff DEF Checkpoints
<1>4. /\ inserted \in Seq(Checkpoints)
      /\ \A i \in DOMAIN inserted :
            inserted[i] = CheckpointOf(e) \/ \E j \in DOMAIN others : inserted[i] = others[j]
  BY <1>2, <1>3, InsertFacts
<1> HIDE DEF inserted
<1>5. /\ kept \in Seq(Checkpoints)
      /\ \A i \in DOMAIN kept : \E j \in DOMAIN inserted : kept[i] = inserted[j]
  BY <1>4, CapsAssumption, KeepLastFacts DEF CapsAssumption
<1>6. /\ "checkpoints" \in DOMAIN DiffPatch(t, e)
      /\ DiffPatch(t, e).checkpoints = kept
  BY DEF DiffPatch, CheckpointOf, kept, inserted, others
<1> HIDE DEF kept
<1>7. ThreadPatch(t, e) = IF IsStalePlaceholder(t, e) THEN NoPatch ELSE DiffPatch(t, e)
  <2>1. e.type = "thread.turn-diff-completed"
    BY DEF Diffs
  <2> QED
    BY <2>1 DEF ThreadPatch
<1>8. CASE IsStalePlaceholder(t, e)
  BY <1>7, <1>8 DEF Patch, NoPatch, IsThread
<1>9. CASE ~IsStalePlaceholder(t, e)
  <2>1. /\ "checkpoints" \in DOMAIN Patch(t, DiffPatch(t, e))
        /\ Patch(t, DiffPatch(t, e)).checkpoints = kept
    BY <1>6 DEF Patch
  <2> QED
    BY <1>2, <1>4, <1>5, <1>7, <1>9, <2>1 DEF IsThread
<1> QED
  BY <1>8, <1>9

\* What a revert makes of them.
LEMMA RevertFacts ==
    ASSUME NEW t, IsThread(t), NEW n \in Nat
    PROVE  LET more == Patch(t, ThreadPatch(t, [type |-> "thread.reverted", turnCount |-> n]))
           IN  /\ IsThread(more)
               /\ \A i \in DOMAIN more.checkpoints :
                     \E j \in DOMAIN t.checkpoints :
                        /\ t.checkpoints[j].checkpointTurnCount <= n
                        /\ more.checkpoints[i] = t.checkpoints[j]
<1> DEFINE e == [type |-> "thread.reverted", turnCount |-> n]
           K == {i \in DOMAIN t.checkpoints : t.checkpoints[i].checkpointTurnCount <= n}
           kept == Filter(t.checkpoints, LAMBDA c : c.checkpointTurnCount <= n)
<1>1. kept = Entries(t.checkpoints, K)
  BY DEF Filter
<1>2. /\ kept \in Seq(Checkpoints)
      /\ \A i \in DOMAIN kept : \E j \in K : kept[i] = t.checkpoints[j]
  <2>1. K \subseteq DOMAIN t.checkpoints /\ t.checkpoints \in Seq(Checkpoints)
    BY DEF IsThread
  <2> HIDE DEF K, kept
  <2> QED
    BY <1>1, <2>1, EntriesAreOld
<1>3. "checkpoints" \in DOMAIN RevertPatch(t, n) /\ RevertPatch(t, n).checkpoints = kept
  BY DEF RevertPatch
<1> HIDE DEF kept
<1>4. ThreadPatch(t, e) = RevertPatch(t, n)
  BY DEF ThreadPatch
<1>5. /\ "checkpoints" \in DOMAIN Patch(t, RevertPatch(t, n))
      /\ Patch(t, RevertPatch(t, n)).checkpoints = kept
  BY <1>3 DEF Patch
<1> QED
  BY <1>2, <1>4, <1>5 DEF IsThread

LEMMA HasLeast ==
    ASSUME NEW S, S \subseteq Nat, S # {}
    PROVE  \E n \in S : \A c \in S : n <= c
<1>1. PICK n \in S : \A c \in S : ~(<<c, n>> \in Less)
  BY LessIsWellFounded, WFMin, Zenon
<1>2. ASSUME NEW c \in S PROVE n <= c
  <2>1. <<c, n>> \in Nat \X Nat /\ (<<c, n>> \in Less <=> c < n)
    BY DEF Less
  <2> QED
    BY <1>1, <2>1
<1> QED
  BY <1>2

LEMMA TargetType ==
    ASSUME NEW t, IsThread(t), NEW n \in Nat
    PROVE  targetCheckpointRef(t, n) \in Nat \cup {Null}
<1> DEFINE found == {i \in DOMAIN t.checkpoints : t.checkpoints[i].checkpointTurnCount = n}
<1>1. found # {} => \E i \in found : \A j \in found : i <= j
  <2>1. found \subseteq Nat
    BY DEF IsThread
  <2> HIDE DEF found
  <2> QED
    BY <2>1, HasLeast
<1>2. \A i \in found : t.checkpoints[i].checkpointRef \in Nat \cup {Null}
  BY DEF IsThread, Checkpoints
<1> QED
  BY <1>1, <1>2 DEF targetCheckpointRef

LEMMA NextTurnCountType ==
    ASSUME NEW t, IsThread(t), NEW turn
    PROVE  nextTurnCount(t, turn) \in Nat
<1>1. \A c \in CheckpointsOf(t, turn) : c.checkpointTurnCount \in Nat
  BY DEF CheckpointsOf, IsThread, Checkpoints
<1>2. CheckpointsOf(t, turn) # {} =>
        (CHOOSE c \in CheckpointsOf(t, turn) : TRUE) \in CheckpointsOf(t, turn)
  OBVIOUS
<1> QED
  BY <1>1, <1>2, CurrentTurnCountFacts DEF nextTurnCount

LEMMA StaleRefsType ==
    ASSUME NEW t, IsThread(t), NEW n
    PROVE  staleCheckpointRefs(t, n) \subseteq Nat \cup {Null}
BY DEF staleCheckpointRefs, IsThread, Checkpoints

-----------------------------------------------------------------------------
(* Events *)

LEMMA DiffCompleteType ==
    ASSUME NEW turn \in Nat, NEW n \in Nat, NEW status \in Statuses
    PROVE  /\ DiffComplete(turn, n, status, n) \in Diffs
           /\ DiffComplete(turn, n, status, Null) \in Placeholders
BY DEF DiffComplete, Diffs, Placeholders, OwnRef

LEMMA StatusType == \A state : checkpointStatusFromRuntime(state) \in Statuses
BY DEF checkpointStatusFromRuntime, Statuses

\* What dispatching does to the thread and to the reactor's queue.
LEMMA DispatchDiff ==
    ASSUME TypeOK, NEW e \in Diffs, dispatch(e)
    PROVE  /\ IsThread(thread')
           /\ domainQueue' = Append(domainQueue, e)
           /\ domainQueue' \in Seq(DomainEvents)
           /\ \A i \in DOMAIN thread'.checkpoints :
                 \/ thread'.checkpoints[i] = CheckpointOf(e)
                 \/ \E j \in DOMAIN thread.checkpoints :
                       thread'.checkpoints[i] = thread.checkpoints[j]
<1>1. e.type = "thread.turn-diff-completed" /\ e \in DomainEvents
  BY DEF Diffs, DomainEvents
<1>2. domainQueue' = Append(domainQueue, e)
  BY <1>1 DEF dispatch
<1>3. IsThread(thread) /\ domainQueue \in Seq(DomainEvents)
  BY DEF TypeOK
<1> DEFINE more == Patch(thread, ThreadPatch(thread, e))
<1>4. thread' = more
  BY DEF dispatch
<1>5. /\ IsThread(more)
      /\ \A i \in DOMAIN more.checkpoints :
            \/ more.checkpoints[i] = CheckpointOf(e)
            \/ \E j \in DOMAIN thread.checkpoints :
                  more.checkpoints[i] = thread.checkpoints[j]
  BY <1>3, DiffFacts
<1> HIDE DEF more
<1> QED
  BY <1>1, <1>2, <1>3, <1>4, <1>5

LEMMA DispatchSession ==
    ASSUME TypeOK, NEW session, dispatch([type |-> "thread.session-set", session |-> session])
    PROVE  /\ IsThread(thread')
           /\ domainQueue' = domainQueue
           /\ thread'.checkpoints = thread.checkpoints
<1> DEFINE e == [type |-> "thread.session-set", session |-> session]
<1>1. domainQueue' = domainQueue /\ thread' = Patch(thread, ThreadPatch(thread, e))
  BY DEF dispatch
<1> QED
  BY <1>1, SessionKeepsCheckpoints DEF TypeOK

LEMMA DispatchRevert ==
    ASSUME TypeOK, NEW n \in Nat, dispatch([type |-> "thread.reverted", turnCount |-> n])
    PROVE  /\ IsThread(thread')
           /\ domainQueue' = domainQueue
           /\ \A i \in DOMAIN thread'.checkpoints : \E j \in DOMAIN thread.checkpoints :
                 /\ thread.checkpoints[j].checkpointTurnCount <= n
                 /\ thread'.checkpoints[i] = thread.checkpoints[j]
<1> DEFINE e == [type |-> "thread.reverted", turnCount |-> n]
           more == Patch(thread, ThreadPatch(thread, e))
<1>1. domainQueue' = domainQueue /\ thread' = more
  BY DEF dispatch
<1>2. IsThread(thread)
  BY DEF TypeOK
<1>3. /\ IsThread(more)
      /\ \A i \in DOMAIN more.checkpoints : \E j \in DOMAIN thread.checkpoints :
            /\ thread.checkpoints[j].checkpointTurnCount <= n
            /\ more.checkpoints[i] = thread.checkpoints[j]
  BY <1>2, RevertFacts
<1> HIDE DEF more
<1> QED
  BY <1>1, <1>3

-----------------------------------------------------------------------------
(* Types are kept *)

LEMMA InitType == Init => TypeOK
<1> SUFFICES ASSUME Init PROVE TypeOK
  OBVIOUS
<1>1. IsThread(thread)
  BY DEF Init, NewThread, IsThread
<1>2. \A S : <<>> \in Seq(S)
  OBVIOUS
<1>3. DOMAIN refs = {}
  BY DEF Init
<1> QED
  BY <1>1, <1>2, <1>3 DEF Init, TypeOK, Jobs

\* The user and the provider.
LEMMA UserType ==
    ASSUME TypeOK, SendTurn \/ \E turnCount \in 0..MaxTurns : RequestRevert(turnCount)
    PROVE  TypeOK'
<1>1. CASE SendTurn
  <2>1. [type |-> "thread.turn-start-requested"] \in DomainEvents
    BY DEF DomainEvents, TurnStarts
  <2>2. domainQueue' \in Seq(DomainEvents)
    BY <1>1, <2>1 DEF SendTurn, TypeOK
  <2> QED
    BY <1>1, <2>2 DEF SendTurn, TypeOK, provider
<1>2. ASSUME NEW turnCount \in 0..MaxTurns, RequestRevert(turnCount) PROVE TypeOK'
  <2>1. [type |-> "thread.checkpoint-revert-requested", turnCount |-> turnCount] \in DomainEvents
    BY CheckpointAssumption DEF DomainEvents, RevertRequests, CheckpointAssumption
  <2>2. domainQueue' \in Seq(DomainEvents)
    BY <1>2, <2>1 DEF RequestRevert, TypeOK
  <2> QED
    BY <1>2, <2>2 DEF RequestRevert, TypeOK, provider
<1> QED
  BY <1>1, <1>2

\* What an event of the provider adds.
LEMMA EmitType ==
    ASSUME TypeOK, NEW e \in RuntimeEvents, Emit(e)
    PROVE  /\ ingestQueue' \in Seq(RuntimeEvents) /\ runtimeQueue' \in Seq(RuntimeEvents)
           /\ domainQueue' = domainQueue
BY DEF Emit, TypeOK

LEMMA ProviderType ==
    ASSUME TypeOK,
           \/ StartTurn \/ EditFiles \/ ReportDiff
           \/ \E state \in EndStates : CompleteTurn(state)
    PROVE  TypeOK'
<1>1. CASE StartTurn
  <2> DEFINE turn == Len(edits) + 1
  <2>1. turn \in Nat
    BY DEF TypeOK
  <2>2. [type |-> "turn.started", turnId |-> turn] \in RuntimeEvents
    BY <2>1 DEF RuntimeEvents
  <2>3. /\ ingestQueue' \in Seq(RuntimeEvents) /\ runtimeQueue' \in Seq(RuntimeEvents)
        /\ domainQueue' = domainQueue
    BY <1>1, <2>2, EmitType DEF StartTurn
  <2>4. edits' \in Seq(Nat)
    BY <1>1 DEF StartTurn, TypeOK
  <2> QED
    BY <1>1, <2>1, <2>3, <2>4 DEF StartTurn, TypeOK
<1>2. CASE EditFiles
  <2>1. edits' \in Seq(Nat)
    <3>1. edits \in Seq(Nat) /\ edits' = [edits EXCEPT ![running] = @ + 1]
      BY <1>2 DEF EditFiles, TypeOK
    <3>2. edits \in [1..Len(edits) -> Nat] /\ Len(edits) \in Nat
      BY <3>1
    <3>3. \A i \in 1..Len(edits) : edits'[i] \in Nat
      <4> SUFFICES ASSUME NEW i \in 1..Len(edits) PROVE edits'[i] \in Nat
        OBVIOUS
      <4>1. edits[i] \in Nat /\ edits[i] + 1 \in Nat
        BY <3>2
      <4>2. edits'[i] = IF i = running THEN edits[i] + 1 ELSE edits[i]
        BY <3>1, <3>2
      <4> QED
        BY <4>1, <4>2
    <3>4. edits' \in [1..Len(edits) -> Nat]
      BY <3>1, <3>2, <3>3
    <3> QED
      BY <3>2, <3>4
  <2> QED
    BY <1>2, <2>1 DEF EditFiles, TypeOK, queues
<1>3. CASE ReportDiff
  <2>1. running \in Nat
    BY <1>3 DEF ReportDiff, TypeOK
  <2>2. [type |-> "turn.diff.updated", turnId |-> running] \in RuntimeEvents
    BY <2>1 DEF RuntimeEvents
  <2>3. /\ ingestQueue' \in Seq(RuntimeEvents) /\ runtimeQueue' \in Seq(RuntimeEvents)
        /\ domainQueue' = domainQueue
    BY <1>3, <2>2, EmitType DEF ReportDiff
  <2> QED
    BY <1>3, <2>3 DEF ReportDiff, TypeOK, user
<1>4. ASSUME NEW state \in EndStates, CompleteTurn(state) PROVE TypeOK'
  <2>1. running \in Nat
    BY <1>4 DEF CompleteTurn, TypeOK
  <2>2. [type |-> "turn.completed", turnId |-> running, state |-> state] \in RuntimeEvents
    BY <2>1 DEF RuntimeEvents
  <2>3. /\ ingestQueue' \in Seq(RuntimeEvents) /\ runtimeQueue' \in Seq(RuntimeEvents)
        /\ domainQueue' = domainQueue
    BY <1>4, <2>2, EmitType DEF CompleteTurn
  <2> QED
    BY <1>4, <2>3 DEF CompleteTurn, TypeOK, user
<1> QED
  BY <1>1, <1>2, <1>3, <1>4

\* The ingestion.
LEMMA IngestType ==
    ASSUME TypeOK, NEW type, Ingest(type)
    PROVE  /\ ingestQueue' \in Seq(RuntimeEvents)
           /\ Head(ingestQueue) \in RuntimeEvents /\ Head(ingestQueue).turnId \in Nat
<1>1. ingestQueue' \in Seq(RuntimeEvents) /\ Head(ingestQueue) \in RuntimeEvents
  BY DEF Ingest, TypeOK
<1> QED
  BY <1>1 DEF RuntimeEvents

LEMMA IngestionType == ASSUME TypeOK, Ingestion PROVE TypeOK'
<1>1. ASSUME NEW type, NEW status, IngestTurnEvent(type, status) PROVE TypeOK'
  <2>1. \E session : dispatch([type |-> "thread.session-set", session |-> session])
    BY <1>1 DEF IngestTurnEvent
  <2>2. IsThread(thread') /\ domainQueue' = domainQueue
    BY <2>1, DispatchSession
  <2>3. ingestQueue' \in Seq(RuntimeEvents)
    BY <1>1, IngestType DEF IngestTurnEvent
  <2> QED
    BY <1>1, <2>2, <2>3 DEF IngestTurnEvent, TypeOK, user, provider
<1>2. CASE IngestDiffUpdated
  <2>1. ingestQueue' \in Seq(RuntimeEvents) /\ Head(ingestQueue).turnId \in Nat
    BY <1>2, IngestType DEF IngestDiffUpdated
  <2>2. currentTurnCount(thread) + 1 \in Nat
    BY CurrentTurnCountFacts DEF TypeOK
  <2>3. DiffComplete(Head(ingestQueue).turnId, currentTurnCount(thread) + 1, "missing", Null) \in Placeholders
    BY <2>1, <2>2, DiffCompleteType DEF Statuses
  <2>4. placeholder' \in {NoEvent} \cup Placeholders
    BY <1>2, <2>3 DEF IngestDiffUpdated
  <2> QED
    BY <1>2, <2>1, <2>4 DEF IngestDiffUpdated, TypeOK, user, provider
<1>3. CASE DispatchPlaceholder
  <2>1. placeholder \in Diffs /\ dispatch(placeholder)
    BY <1>3 DEF DispatchPlaceholder, TypeOK, Placeholders
  <2>2. IsThread(thread') /\ domainQueue' \in Seq(DomainEvents)
    BY <2>1, DispatchDiff
  <2> QED
    BY <1>3, <2>2 DEF DispatchPlaceholder, TypeOK, user, provider
<1> QED
  BY <1>1, <1>2, <1>3 DEF Ingestion, IngestTurnStarted, IngestTurnCompleted

\* The reactor takes an input.
LEMMA TakeDomainType ==
    ASSUME TypeOK, NEW type, TakeDomain(type), job' \in Jobs, answered' \in Nat
    PROVE  TypeOK'
<1>1. domainQueue' \in Seq(DomainEvents)
  BY DEF TakeDomain, TypeOK
<1> QED
  BY <1>1 DEF TakeDomain, TypeOK, user, provider

LEMMA TakeRuntimeType ==
    ASSUME TypeOK, NEW type, TakeRuntime(type), job' \in Jobs, answered' \in Nat
    PROVE  TypeOK'
<1>1. runtimeQueue' \in Seq(RuntimeEvents)
  BY DEF TakeRuntime, TypeOK
<1> QED
  BY <1>1 DEF TakeRuntime, TypeOK, user, provider

LEMMA EnsureBaselineType ==
    ASSUME TypeOK, EnsureBaseline
    PROVE  job' \in {Idle} \cup BaselineJobs /\ job' \in Jobs /\ answered' = answered
<1>1. currentTurnCount(thread) \in Nat
  BY CurrentTurnCountFacts DEF TypeOK
<1> QED
  BY <1>1 DEF EnsureBaseline, Jobs, BaselineJobs

LEMMA CaptureType ==
    ASSUME NEW e, NEW turn \in Nat, NEW n \in Nat, NEW status \in Statuses
    PROVE  Capture(turn, n, status) \in CaptureJobs /\ Capture(turn, n, status).step = "capture"
BY DiffCompleteType DEF Capture, CaptureJobs

\* What the reactor's two captures begin with.
LEMMA CompletionJob ==
    ASSUME TypeOK, captureCheckpointFromTurnCompletion
    PROVE  job' = Idle \/ (job' \in CaptureJobs /\ job'.step = "capture")
<1>1. Head(runtimeQueue) \in RuntimeEvents
  BY DEF captureCheckpointFromTurnCompletion, TakeRuntime, TypeOK
<1>2. Head(runtimeQueue).turnId \in Nat
  BY <1>1 DEF RuntimeEvents
<1>3. nextTurnCount(thread, Head(runtimeQueue).turnId) \in Nat
  BY NextTurnCountType DEF TypeOK
<1>4. checkpointStatusFromRuntime(Head(runtimeQueue).state) \in Statuses
  BY StatusType
<1> QED
  BY <1>2, <1>3, <1>4, CaptureType DEF captureCheckpointFromTurnCompletion

LEMMA PlaceholderJob ==
    ASSUME TypeOK, captureCheckpointFromPlaceholder
    PROVE  job' = Idle \/ (job' \in CaptureJobs /\ job'.step = "capture")
<1>1. Head(domainQueue) \in DomainEvents /\ Head(domainQueue).type = "thread.turn-diff-completed"
  BY DEF captureCheckpointFromPlaceholder, TakeDomain, TypeOK
<1>2. Head(domainQueue).turnId \in Nat /\ Head(domainQueue).checkpointTurnCount \in Nat
  BY <1>1 DEF DomainEvents, TurnStarts, RevertRequests, Diffs
<1>3. "ready" \in Statuses
  BY DEF Statuses
<1> QED
  BY <1>2, <1>3, CaptureType DEF captureCheckpointFromPlaceholder

LEMMA BeginRevertJob ==
    ASSUME TypeOK, BeginRevert
    PROVE  /\ job' \in RevertJobs /\ job'.step = "restore"
           /\ job'.staleRefs = staleCheckpointRefs(thread, job'.turnCount)
<1>1. Head(domainQueue) \in DomainEvents
      /\ Head(domainQueue).type = "thread.checkpoint-revert-requested"
  BY DEF BeginRevert, TakeDomain, TypeOK
<1>2. Head(domainQueue).turnCount \in Nat
  BY <1>1 DEF DomainEvents, TurnStarts, RevertRequests, Diffs
<1> DEFINE n == Head(domainQueue).turnCount
           target == targetCheckpointRef(thread, n)
<1>3. target \in Nat
  BY <1>2, TargetType DEF BeginRevert, TypeOK
<1>4. currentTurnCount(thread) - n \in Nat
  BY <1>2, CurrentTurnCountFacts DEF BeginRevert, TypeOK
<1>5. staleCheckpointRefs(thread, n) \in SUBSET (Nat \cup {Null})
  BY StaleRefsType DEF TypeOK
<1>6. job' = [step |-> "restore", turnCount |-> n, target |-> target,
              rolledBackTurns |-> currentTurnCount(thread) - n,
              staleRefs |-> staleCheckpointRefs(thread, n)]
  BY DEF BeginRevert
<1> QED
  BY <1>2, <1>3, <1>4, <1>5, <1>6 DEF RevertJobs, RevertSteps
\* The reactor's own steps.
LEMMA ReactorType == ASSUME TypeOK, Reactor PROVE TypeOK'
<1> USE DEF Jobs
<1>1. CASE ensurePreTurnBaselineFromDomainTurnStart
  BY <1>1, EnsureBaselineType, TakeDomainType
  DEF ensurePreTurnBaselineFromDomainTurnStart, TypeOK
<1>2. CASE ensurePreTurnBaselineFromTurnStart
  BY <1>2, EnsureBaselineType, TakeRuntimeType
  DEF ensurePreTurnBaselineFromTurnStart, TypeOK
<1>3. CASE CaptureBaseline
  <2>1. job.turnCount \in Nat
    BY <1>3 DEF CaptureBaseline, At, TypeOK, Idle, BaselineJobs, CaptureJobs, RevertJobs, RevertSteps
  <2> QED
    BY <1>3, <2>1 DEF CaptureBaseline, TypeOK, Put, user, provider, queues
<1>4. CASE BaselineFails
  BY <1>4 DEF BaselineFails, TypeOK, user, provider, queues
<1>5. CASE captureCheckpointFromTurnCompletion
  <2>1. job' \in Jobs
    BY <1>5, CompletionJob
  <2> QED
    BY <1>5, <2>1, TakeRuntimeType DEF captureCheckpointFromTurnCompletion, TypeOK
<1>6. CASE captureCheckpointFromPlaceholder
  <2>1. job' \in Jobs
    BY <1>6, PlaceholderJob
  <2> QED
    BY <1>6, <2>1, TakeDomainType DEF captureCheckpointFromPlaceholder, TypeOK
<1>7. CASE CaptureCheckpoint
  <2>1. job \in CaptureJobs
    BY <1>7 DEF CaptureCheckpoint, At, TypeOK, Idle, BaselineJobs, CaptureJobs, RevertJobs, RevertSteps
  <2>2. job.event.checkpointTurnCount \in Nat /\ job' \in CaptureJobs
    BY <1>7, <2>1 DEF CaptureCheckpoint, CaptureJobs, Diffs
  <2> QED
    BY <1>7, <2>2 DEF CaptureCheckpoint, TypeOK, Put, user, provider, queues
<1>8. CASE CaptureFails
  BY <1>8 DEF CaptureFails, TypeOK, provider, queues
<1>9. CASE FinalizeCapture
  <2>1. job.event \in Diffs /\ dispatch(job.event)
    BY <1>9 DEF FinalizeCapture, At, TypeOK, Idle, BaselineJobs, CaptureJobs, RevertJobs, RevertSteps
  <2>2. IsThread(thread') /\ domainQueue' \in Seq(DomainEvents)
    BY <2>1, DispatchDiff
  <2> QED
    BY <1>9, <2>2 DEF FinalizeCapture, TypeOK, user, provider
<1>10. CASE BeginRevert
  <2>1. job' \in Jobs
    BY <1>10, BeginRevertJob
  <2> QED
    BY <1>10, <2>1, TakeDomainType DEF BeginRevert, TypeOK
<1>11. CASE RefuseRevert
  BY <1>11, TakeDomainType DEF RefuseRevert, appendRevertFailureActivity, TypeOK
<1>12. CASE RestoreCheckpoint
  <2>1. job' \in RevertJobs
    <3>1. job \in RevertJobs
      BY <1>12 DEF RestoreCheckpoint, At, TypeOK, Idle, BaselineJobs, CaptureJobs, RevertJobs
    <3> QED
      BY <1>12, <3>1 DEF RestoreCheckpoint, RevertJobs, RevertSteps
  <2> QED
    BY <1>12, <2>1 DEF RestoreCheckpoint, TypeOK, user, queues
<1>13. CASE RestoreFails
  BY <1>13 DEF RestoreFails, appendRevertFailureActivity, TypeOK, user, queues
<1>14. CASE RollbackConversation
  <2>1. job' \in RevertJobs
    <3>1. job \in RevertJobs
      BY <1>14 DEF RollbackConversation, At, TypeOK, Idle, BaselineJobs, CaptureJobs, RevertJobs
    <3> QED
      BY <1>14, <3>1 DEF RollbackConversation, RevertJobs, RevertSteps
  <2> QED
    BY <1>14, <2>1 DEF RollbackConversation, TypeOK, user, queues
<1>15. CASE RollbackFails
  BY <1>15 DEF RollbackFails, appendRevertFailureActivity, TypeOK, user, provider, queues
<1>16. CASE DeleteCheckpointRefs
  <2>1. job' \in RevertJobs
    <3>1. job \in RevertJobs
      BY <1>16 DEF DeleteCheckpointRefs, At, TypeOK, Idle, BaselineJobs, CaptureJobs, RevertJobs
    <3> QED
      BY <1>16, <3>1 DEF DeleteCheckpointRefs, RevertJobs, RevertSteps
  <2> QED
    BY <1>16, <2>1 DEF DeleteCheckpointRefs, TypeOK, user, provider, queues
<1>17. CASE CompleteRevert
  <2>1. job \in RevertJobs
    BY <1>17 DEF CompleteRevert, At, TypeOK, Idle, BaselineJobs, CaptureJobs, RevertJobs
  <2>2. IsThread(thread') /\ domainQueue' = domainQueue
    BY <1>17, <2>1, DispatchRevert DEF CompleteRevert, RevertJobs
  <2> QED
    BY <1>17, <2>2 DEF CompleteRevert, TypeOK, user, provider
<1>18. CASE DeleteCheckpointRefsFails
  <2>1. DOMAIN refs' \subseteq DOMAIN refs
    BY <1>18 DEF DeleteCheckpointRefsFails
  <2> QED
    BY <1>18, <2>1
    DEF DeleteCheckpointRefsFails, BreaksOff, appendRevertFailureActivity, TypeOK, user, provider, queues
<1>19. CASE CompleteRevertFails
  BY <1>19
  DEF CompleteRevertFails, BreaksOff, appendRevertFailureActivity, TypeOK, user, provider, queues
<1> QED
  BY <1>1, <1>2, <1>3, <1>4, <1>5, <1>6, <1>7, <1>8, <1>9, <1>10, <1>11, <1>12, <1>13, <1>14,
     <1>15, <1>16, <1>17, <1>18, <1>19 DEF Reactor

LEMMA TypeStep == ASSUME TypeOK, [Next]_vars PROVE TypeOK'
<1>1. CASE UNCHANGED vars
  BY <1>1 DEF vars, user, provider, queues, TypeOK
<1> QED
  BY <1>1, UserType, ProviderType, IngestionType, ReactorType DEF Next
-----------------------------------------------------------------------------
(* The account of the reverts *)

\* The requests that wait in the reactor's queue.
Waiting(q) == {i \in DOMAIN q : q[i].type = "thread.checkpoint-revert-requested"}

InWork == IF job.step \in RevertSteps THEN 1 ELSE 0

CountInv == answered + Cardinality(Waiting(domainQueue)) + InWork = asked

LEMMA WaitingIsFinite ==
    ASSUME NEW S, NEW q \in Seq(S)
    PROVE  IsFiniteSet(Waiting(q)) /\ Cardinality(Waiting(q)) \in Nat
<1>1. DOMAIN q = 1..Len(q) /\ Len(q) \in Nat
  OBVIOUS
<1>2. IsFiniteSet(1..Len(q)) /\ Waiting(q) \in SUBSET (1..Len(q))
  BY <1>1, FS_Interval DEF Waiting
<1>3. IsFiniteSet(Waiting(q))
  BY <1>2, FS_Subset
<1> QED
  BY <1>3, FS_CardinalityType

LEMMA AppendWaiting ==
    ASSUME NEW S, NEW q \in Seq(S), NEW e \in S
    PROVE  Cardinality(Waiting(Append(q, e)))
             = Cardinality(Waiting(q))
               + (IF e.type = "thread.checkpoint-revert-requested" THEN 1 ELSE 0)
<1> DEFINE more == Append(q, e)
<1>1. /\ DOMAIN q = 1..Len(q) /\ Len(q) \in Nat
      /\ DOMAIN more = 1..(Len(q) + 1) /\ more[Len(q) + 1] = e
      /\ \A i \in 1..Len(q) : more[i] = q[i]
  OBVIOUS
<1> HIDE DEF more
<1>2. CASE e.type = "thread.checkpoint-revert-requested"
  <2>1. Waiting(more) = Waiting(q) \cup {Len(q) + 1} /\ Len(q) + 1 \notin Waiting(q)
    BY <1>1, <1>2 DEF Waiting
  <2> QED
    BY <1>2, <2>1, WaitingIsFinite, FS_AddElement DEF more
<1>3. CASE e.type # "thread.checkpoint-revert-requested"
  <2>1. Waiting(more) = Waiting(q)
    BY <1>1, <1>3 DEF Waiting
  <2> QED
    BY <1>3, <2>1, WaitingIsFinite DEF more
<1> QED
  BY <1>2, <1>3

LEMMA TailWaiting ==
    ASSUME NEW S, NEW q \in Seq(S), q # <<>>
    PROVE  Cardinality(Waiting(q))
             = Cardinality(Waiting(Tail(q)))
               + (IF Head(q).type = "thread.checkpoint-revert-requested" THEN 1 ELSE 0)
<1> DEFINE rest == Tail(q)
           later == Waiting(q) \ {1}
           f == [i \in later |-> i - 1]
<1>1. /\ DOMAIN q = 1..Len(q) /\ Len(q) \in Nat /\ Len(q) > 0 /\ Head(q) = q[1]
      /\ rest \in Seq(S) /\ DOMAIN rest = 1..(Len(q) - 1)
      /\ \A i \in 1..(Len(q) - 1) : rest[i] = q[i + 1]
  OBVIOUS
<1> HIDE DEF rest
<1>2. later \in SUBSET Waiting(q) /\ \A i \in later : i \in Nat /\ i > 1
  BY <1>1 DEF Waiting
<1>3. IsFiniteSet(later)
  BY <1>2, WaitingIsFinite, FS_Subset
<1>4. Cardinality(Waiting(rest)) = Cardinality(later)
  <2>1. f \in [later -> Waiting(rest)]
    <3>1. ASSUME NEW i \in later PROVE i - 1 \in Waiting(rest)
      <4>1. i \in 2..Len(q) /\ q[i].type = "thread.checkpoint-revert-requested"
        BY <1>1, <1>2 DEF Waiting
      <4>2. i - 1 \in 1..(Len(q) - 1) /\ rest[i - 1] = q[i]
        BY <1>1, <4>1
      <4> QED
        BY <1>1, <4>1, <4>2 DEF Waiting
    <3> QED
      BY <3>1
  <2>2. \A a, b \in later : f[a] = f[b] => a = b
    BY <1>2
  <2>3. \A b \in Waiting(rest) : \E a \in later : f[a] = b
    <3> TAKE b \in Waiting(rest)
    <3>1. b \in 1..(Len(q) - 1) /\ q[b + 1].type = "thread.checkpoint-revert-requested"
      BY <1>1 DEF Waiting
    <3>2. b + 1 \in later /\ f[b + 1] = b
      BY <1>1, <3>1 DEF Waiting
    <3> QED
      BY <3>2
  <2> HIDE DEF f, later
  <2>4. f \in Bijection(later, Waiting(rest))
    BY <2>1, <2>2, <2>3 DEF Bijection, Injection, Surjection, IsInjective
  <2> QED
    BY <1>3, <2>4, FS_Bijection DEF ExistsBijection
<1> HIDE DEF f
<1>7. Cardinality(Waiting(q)) \in Nat /\ IsFiniteSet(Waiting(q))
  BY WaitingIsFinite
<1>5. CASE Head(q).type = "thread.checkpoint-revert-requested"
  <2>1. 1 \in Waiting(q)
    BY <1>1, <1>5 DEF Waiting
  <2>2. Cardinality(later) = Cardinality(Waiting(q)) - 1
    BY <1>7, <2>1, FS_RemoveElement
  <2> HIDE DEF later
  <2> QED
    BY <1>4, <1>5, <1>7, <2>2 DEF rest
<1>6. CASE Head(q).type # "thread.checkpoint-revert-requested"
  <2>1. later = Waiting(q)
    BY <1>1, <1>6 DEF Waiting
  <2> HIDE DEF later
  <2> QED
    BY <1>4, <1>6, <1>7, <2>1 DEF rest
<1> QED
  BY <1>5, <1>6

LEMMA InitCount == Init => CountInv
<1> SUFFICES ASSUME Init PROVE CountInv
  OBVIOUS
<1>1. Waiting(domainQueue) = {}
  BY DEF Init, Waiting
<1>2. Cardinality({}) = 0
  BY FS_EmptySet
<1>3. InWork = 0
  BY DEF Init, InWork, RevertSteps, Idle
<1>4. asked = 0 /\ answered = 0
  BY DEF Init
<1> QED
  BY <1>1, <1>2, <1>3, <1>4 DEF CountInv

\* A step that takes nothing from the reactor and adds at most a diff.
LEMMA UncountedStep ==
    ASSUME TypeOK, CountInv, UNCHANGED <<asked, answered>>, InWork' = InWork,
           \/ domainQueue' = domainQueue
           \/ \E e \in Diffs \cup TurnStarts : domainQueue' = Append(domainQueue, e)
    PROVE  CountInv'
<1>1. CASE domainQueue' = domainQueue
  BY <1>1 DEF CountInv
<1>2. ASSUME NEW e \in Diffs \cup TurnStarts, domainQueue' = Append(domainQueue, e)
      PROVE  CountInv'
  <2>1. e \in DomainEvents /\ e.type # "thread.checkpoint-revert-requested"
    BY DEF Diffs, TurnStarts, DomainEvents
  <2>2. domainQueue \in Seq(DomainEvents)
    BY DEF TypeOK
  <2>3. Cardinality(Waiting(domainQueue')) = Cardinality(Waiting(domainQueue)) + 0
    BY <1>2, <2>1, <2>2, AppendWaiting
  <2>4. Cardinality(Waiting(domainQueue)) \in Nat
    BY <2>2, WaitingIsFinite
  <2> QED
    BY <2>3, <2>4 DEF CountInv
<1> QED
  BY <1>1, <1>2

\* An input that is not a revert, or one that is.
LEMMA TakenCount ==
    ASSUME TypeOK, NEW type, TakeDomain(type)
    PROVE  /\ asked' = asked /\ InWork = 0
           /\ Cardinality(Waiting(domainQueue)) \in Nat /\ Cardinality(Waiting(domainQueue')) \in Nat
           /\ Cardinality(Waiting(domainQueue)) =
                Cardinality(Waiting(domainQueue'))
                + (IF type = "thread.checkpoint-revert-requested" THEN 1 ELSE 0)
<1>1. domainQueue \in Seq(DomainEvents) /\ domainQueue # <<>> /\ domainQueue' = Tail(domainQueue)
      /\ Head(domainQueue).type = type
  BY DEF TakeDomain, TypeOK
<1>2. domainQueue' \in Seq(DomainEvents)
  BY <1>1
<1>3. asked' = asked /\ InWork = 0
  BY DEF TakeDomain, user, InWork, Idle, RevertSteps
<1> QED
  BY <1>1, <1>2, <1>3, WaitingIsFinite, TailWaiting

LEMMA CountStep == ASSUME TypeOK, CountInv, [Next]_vars PROVE CountInv'
<1> USE DEF user, provider, queues
<1>1. CASE UNCHANGED vars
  BY <1>1 DEF vars, CountInv, InWork
<1>2. CASE SendTurn
  <2>1. [type |-> "thread.turn-start-requested"] \in Diffs \cup TurnStarts
    BY DEF TurnStarts
  <2> QED
    BY <1>2, <2>1, UncountedStep DEF SendTurn, InWork
<1>3. ASSUME NEW turnCount \in 0..MaxTurns, RequestRevert(turnCount) PROVE CountInv'
  <2> DEFINE e == [type |-> "thread.checkpoint-revert-requested", turnCount |-> turnCount]
  <2>1. e \in DomainEvents /\ e.type = "thread.checkpoint-revert-requested"
    BY CheckpointAssumption DEF DomainEvents, RevertRequests, CheckpointAssumption
  <2>2. domainQueue \in Seq(DomainEvents) /\ domainQueue' = Append(domainQueue, e)
    BY <1>3 DEF RequestRevert, TypeOK
  <2> HIDE DEF e
  <2>3. Cardinality(Waiting(domainQueue')) = Cardinality(Waiting(domainQueue)) + 1
        /\ Cardinality(Waiting(domainQueue)) \in Nat
    BY <2>1, <2>2, AppendWaiting, WaitingIsFinite
  <2>4. asked' = asked + 1 /\ answered' = answered /\ InWork' = InWork /\ InWork \in {0, 1}
    BY <1>3 DEF RequestRevert, InWork
  <2>5. asked \in Nat /\ answered \in Nat
    BY DEF TypeOK
  <2> QED
    BY <2>3, <2>4, <2>5 DEF CountInv
<1>4. CASE StartTurn \/ EditFiles \/ ReportDiff \/ \E state \in EndStates : CompleteTurn(state)
  BY <1>4, UncountedStep DEF StartTurn, EditFiles, ReportDiff, CompleteTurn, Emit, InWork
<1>5. CASE Ingestion
  <2>1. CASE DispatchPlaceholder
    <3>1. placeholder \in Diffs /\ dispatch(placeholder)
      BY <2>1 DEF DispatchPlaceholder, TypeOK, Placeholders
    <3>2. domainQueue' = Append(domainQueue, placeholder)
      BY <3>1, DispatchDiff
    <3> QED
      BY <2>1, <3>1, <3>2, UncountedStep DEF DispatchPlaceholder, InWork
  <2>2. CASE IngestDiffUpdated
    BY <2>2, UncountedStep DEF IngestDiffUpdated, InWork
  <2>3. ASSUME NEW type, NEW status, IngestTurnEvent(type, status) PROVE CountInv'
    <3>1. \E session : dispatch([type |-> "thread.session-set", session |-> session])
      BY <2>3 DEF IngestTurnEvent
    <3> QED
      BY <2>3, <3>1, DispatchSession, UncountedStep DEF IngestTurnEvent, InWork
  <2> QED
    BY <1>5, <2>1, <2>2, <2>3 DEF Ingestion, IngestTurnStarted, IngestTurnCompleted
<1>6. ASSUME NEW type, type # "thread.checkpoint-revert-requested", TakeDomain(type),
             job' \in Jobs, job'.step \notin RevertSteps, answered' = answered
      PROVE  CountInv'
  BY <1>6, TakenCount DEF CountInv, InWork, TypeOK
<1>7. ASSUME NEW type, TakeRuntime(type), job'.step \notin RevertSteps, answered' = answered
      PROVE  CountInv'
  BY <1>7, UncountedStep DEF TakeRuntime, InWork, Idle, RevertSteps
<1>8. CASE ensurePreTurnBaselineFromDomainTurnStart
  <2>1. job' \in Jobs /\ job'.step \notin RevertSteps /\ answered' = answered
    BY <1>8, EnsureBaselineType
    DEF ensurePreTurnBaselineFromDomainTurnStart, BaselineJobs, Idle, RevertSteps
  <2> QED
    BY <1>6, <1>8, <2>1 DEF ensurePreTurnBaselineFromDomainTurnStart
<1>9. CASE ensurePreTurnBaselineFromTurnStart
  <2>1. job' \in Jobs /\ job'.step \notin RevertSteps /\ answered' = answered
    BY <1>9, EnsureBaselineType
    DEF ensurePreTurnBaselineFromTurnStart, BaselineJobs, Idle, RevertSteps
  <2> QED
    BY <1>7, <1>9, <2>1 DEF ensurePreTurnBaselineFromTurnStart
<1>10. CASE CaptureBaseline \/ BaselineFails \/ CaptureCheckpoint \/ CaptureFails
  <2>1. job.step \notin RevertSteps /\ job'.step \notin RevertSteps
    <3>1. CASE CaptureCheckpoint
      <4>1. job \in CaptureJobs
        BY <3>1 DEF CaptureCheckpoint, At, TypeOK, Jobs, Idle, BaselineJobs, CaptureJobs,
                    RevertJobs, RevertSteps
      <4> QED
        BY <3>1, <4>1 DEF CaptureCheckpoint, At, CaptureJobs, RevertSteps
    <3> QED
      BY <1>10, <3>1 DEF CaptureBaseline, BaselineFails, CaptureFails, At, Idle, RevertSteps
  <2> QED
    BY <1>10, <2>1, UncountedStep
    DEF CaptureBaseline, BaselineFails, CaptureCheckpoint, CaptureFails, InWork
<1>11. CASE captureCheckpointFromTurnCompletion
  <2>1. job'.step \notin RevertSteps /\ answered' = answered
    BY <1>11, CompletionJob DEF captureCheckpointFromTurnCompletion, Idle, RevertSteps
  <2> QED
    BY <1>7, <1>11, <2>1 DEF captureCheckpointFromTurnCompletion
<1>12. CASE captureCheckpointFromPlaceholder
  <2>1. job'.step \notin RevertSteps /\ answered' = answered /\ job' \in Jobs
    BY <1>12, PlaceholderJob DEF captureCheckpointFromPlaceholder, Idle, RevertSteps, Jobs
  <2> QED
    BY <1>6, <1>12, <2>1 DEF captureCheckpointFromPlaceholder
<1>13. CASE FinalizeCapture
  <2>1. job.event \in Diffs /\ dispatch(job.event)
    BY <1>13 DEF FinalizeCapture, At, TypeOK, Jobs, Idle, BaselineJobs, CaptureJobs, RevertJobs,
                 RevertSteps
  <2>2. domainQueue' = Append(domainQueue, job.event)
    BY <2>1, DispatchDiff
  <2>3. InWork = 0 /\ InWork' = 0
    BY <1>13 DEF FinalizeCapture, At, InWork, Idle, RevertSteps
  <2> QED
    BY <1>13, <2>1, <2>2, <2>3, UncountedStep DEF FinalizeCapture
<1>14. CASE BeginRevert
  <2>1. InWork' = 1 /\ answered' = answered
    BY <1>14, BeginRevertJob DEF InWork, RevertSteps, BeginRevert
  <2> QED
    BY <1>14, <2>1, TakenCount DEF BeginRevert, CountInv, TypeOK
<1>15. CASE RefuseRevert
  <2>1. InWork' = 0 /\ answered' = answered + 1
    BY <1>15 DEF InWork, RevertSteps, RefuseRevert, appendRevertFailureActivity, Idle
  <2>2. asked' = asked /\ InWork = 0 /\ asked \in Nat /\ answered \in Nat
    BY <1>15, TakenCount DEF RefuseRevert, TypeOK
  <2>3. /\ Cardinality(Waiting(domainQueue')) \in Nat
        /\ Cardinality(Waiting(domainQueue)) = Cardinality(Waiting(domainQueue')) + 1
    BY <1>15, TakenCount DEF RefuseRevert
  <2> QED
    BY <2>1, <2>2, <2>3 DEF CountInv
<1>16. Cardinality(Waiting(domainQueue)) \in Nat
  BY WaitingIsFinite DEF TypeOK
<1>17. CASE \/ RestoreFails \/ RollbackFails \/ CompleteRevert
            \/ DeleteCheckpointRefsFails \/ CompleteRevertFails
  <2>1. InWork = 1 /\ InWork' = 0 /\ asked' = asked /\ answered' = answered + 1
    BY <1>17 DEF RestoreFails, RollbackFails, CompleteRevert, DeleteCheckpointRefsFails,
                 CompleteRevertFails, BreaksOff, appendRevertFailureActivity, InWork, At, Idle,
                 RevertSteps
  <2>2. domainQueue' = domainQueue
    BY <1>17 DEF RestoreFails, RollbackFails, CompleteRevert, DeleteCheckpointRefsFails,
                 CompleteRevertFails, dispatch
  <2> QED
    BY <1>16, <2>1, <2>2 DEF CountInv, TypeOK
<1>18. CASE RestoreCheckpoint \/ RollbackConversation \/ DeleteCheckpointRefs
  <2>1. job \in RevertJobs
    BY <1>18 DEF RestoreCheckpoint, RollbackConversation, DeleteCheckpointRefs, At, TypeOK, Jobs,
                 Idle, BaselineJobs, CaptureJobs, RevertJobs
  <2>2. InWork = 1 /\ InWork' = 1
    BY <1>18, <2>1 DEF RestoreCheckpoint, RollbackConversation, DeleteCheckpointRefs, InWork,
                       RevertJobs, RevertSteps
  <2> QED
    BY <1>18, <2>2, UncountedStep DEF RestoreCheckpoint, RollbackConversation, DeleteCheckpointRefs
<1> QED
  BY <1>1, <1>2, <1>3, <1>4, <1>5, <1>8, <1>9, <1>10, <1>11, <1>12, <1>13, <1>14, <1>15, <1>17,
     <1>18 DEF Next, Reactor

-----------------------------------------------------------------------------
(* The refs of the checkpoints *)

\* The refs of the checkpoints between two inputs.
KnownRefs == DOMAIN refs \cup {Null} \cup lost

\* The revert in work has deleted the refs of its stale checkpoints, not yet these.
Doomed(c) ==
    /\ job.step = "complete"
    /\ c.checkpointTurnCount > job.turnCount /\ c.checkpointRef \in job.staleRefs

HasRef(c) == c.checkpointRef \in KnownRefs \/ Doomed(c)

\* What the reactor works on: the captured ref is there before the checkpoint, and what a
\* revert will delete are the refs of later counts only.
JobRefs ==
    /\ job.step = "finalize" => job.event.checkpointRef \in DOMAIN refs \cup {Null}
    /\ job.step \in {"restore", "rollback", "delete"} =>
          \A ref \in job.staleRefs \ {Null} : ref > job.turnCount

RefInv ==
    /\ \A i \in DOMAIN thread.checkpoints : HasRef(thread.checkpoints[i])
    /\ JobRefs

LEMMA InitRef == Init => RefInv
<1> SUFFICES ASSUME Init PROVE RefInv
  OBVIOUS
<1>1. thread.checkpoints = <<>>
  BY DEF Init, NewThread
<1>2. job.step = "idle"
  BY DEF Init, Idle
<1> QED
  BY <1>1, <1>2 DEF RefInv, JobRefs

\* The refs stay or grow, the checkpoints stay or one comes that has its ref.
LEMMA RefsGrow ==
    ASSUME RefInv, KnownRefs \subseteq KnownRefs', JobRefs',
           job.step # "complete" \/ job' = job,
           \A i \in DOMAIN thread'.checkpoints :
              \/ thread'.checkpoints[i].checkpointRef \in KnownRefs'
              \/ \E j \in DOMAIN thread.checkpoints : thread'.checkpoints[i] = thread.checkpoints[j]
    PROVE  RefInv'
<1>1. ASSUME NEW i \in DOMAIN thread'.checkpoints PROVE HasRef(thread.checkpoints[i])'
  <2>1. CASE thread'.checkpoints[i].checkpointRef \in KnownRefs'
    BY <2>1 DEF HasRef
  <2>2. ASSUME NEW j \in DOMAIN thread.checkpoints, thread'.checkpoints[i] = thread.checkpoints[j]
        PROVE  HasRef(thread.checkpoints[i])'
    <3>1. HasRef(thread.checkpoints[j])
      BY DEF RefInv
    <3>2. thread'.checkpoints[i].checkpointRef \in KnownRefs \/ Doomed(thread'.checkpoints[i])
      BY <2>2, <3>1 DEF HasRef
    <3>3. job.step = "complete" => job' = job
      OBVIOUS
    <3> QED
      BY <3>2, <3>3 DEF HasRef, Doomed
  <2> QED
    BY <2>1, <2>2
<1> QED
  BY <1>1 DEF RefInv

\* A step that leaves the refs, the checkpoints and the job alone.
LEMMA RefsStay ==
    ASSUME RefInv, UNCHANGED <<refs, lost, thread, job>>
    PROVE  RefInv'
BY DEF RefInv, JobRefs, HasRef, Doomed, KnownRefs

\* A step of the reactor that begins or ends with nothing to keep.
LEMMA JobBegins ==
    ASSUME RefInv, UNCHANGED <<refs, lost, thread>>, job.step # "complete",
           job'.step \notin {"finalize", "restore", "rollback", "delete"}
    PROVE  RefInv'
<1>1. JobRefs'
  BY DEF JobRefs
<1>2. \A i \in DOMAIN thread'.checkpoints :
         \E j \in DOMAIN thread.checkpoints : thread'.checkpoints[i] = thread.checkpoints[j]
  OBVIOUS
<1> QED
  BY <1>1, <1>2, RefsGrow DEF KnownRefs

LEMMA RefStep == ASSUME TypeOK, RefInv, [Next]_vars PROVE RefInv'
<1> USE DEF user, provider, queues
<1>1. CASE UNCHANGED vars
  BY <1>1, RefsStay DEF vars
<1>2. CASE SendTurn \/ \E turnCount \in 0..MaxTurns : RequestRevert(turnCount)
  BY <1>2, RefsStay DEF SendTurn, RequestRevert
<1>3. CASE StartTurn \/ EditFiles \/ ReportDiff \/ \E state \in EndStates : CompleteTurn(state)
  BY <1>3, RefsStay DEF StartTurn, EditFiles, ReportDiff, CompleteTurn
<1>4. CASE Ingestion
  <2>1. CASE DispatchPlaceholder
    <3>1. placeholder \in Diffs /\ placeholder.checkpointRef = Null /\ dispatch(placeholder)
      BY <2>1 DEF DispatchPlaceholder, TypeOK, Placeholders
    <3>2. \A i \in DOMAIN thread'.checkpoints :
             \/ thread'.checkpoints[i] = CheckpointOf(placeholder)
             \/ \E j \in DOMAIN thread.checkpoints : thread'.checkpoints[i] = thread.checkpoints[j]
      BY <3>1, DispatchDiff
    <3>3. CheckpointOf(placeholder).checkpointRef = Null
      BY <3>1 DEF CheckpointOf
    <3>4. UNCHANGED <<refs, lost, job>>
      BY <2>1 DEF DispatchPlaceholder
    <3>5. JobRefs'
      BY <3>4 DEF RefInv, JobRefs
    <3> QED
      BY <3>2, <3>3, <3>4, <3>5, RefsGrow DEF KnownRefs
  <2>2. CASE IngestDiffUpdated
    BY <2>2, RefsStay DEF IngestDiffUpdated
  <2>3. ASSUME NEW type, NEW status, IngestTurnEvent(type, status) PROVE RefInv'
    <3>1. \E session : dispatch([type |-> "thread.session-set", session |-> session])
      BY <2>3 DEF IngestTurnEvent
    <3>2. thread'.checkpoints = thread.checkpoints
      BY <3>1, DispatchSession
    <3>3. UNCHANGED <<refs, lost, job>>
      BY <2>3 DEF IngestTurnEvent
    <3> QED
      BY <3>2, <3>3 DEF RefInv, JobRefs, HasRef, Doomed, KnownRefs
  <2> QED
    BY <1>4, <2>1, <2>2, <2>3 DEF Ingestion, IngestTurnStarted, IngestTurnCompleted
<1>5. CASE \/ ensurePreTurnBaselineFromDomainTurnStart \/ ensurePreTurnBaselineFromTurnStart
           \/ captureCheckpointFromTurnCompletion \/ captureCheckpointFromPlaceholder
           \/ RefuseRevert
  <2>1. job'.step \notin {"finalize", "restore", "rollback", "delete"}
    BY <1>5, EnsureBaselineType, CompletionJob, PlaceholderJob
    DEF ensurePreTurnBaselineFromDomainTurnStart, ensurePreTurnBaselineFromTurnStart, Idle,
        BaselineJobs, RefuseRevert, appendRevertFailureActivity
  <2>2. UNCHANGED <<refs, lost, thread>> /\ job.step # "complete"
    BY <1>5
    DEF ensurePreTurnBaselineFromDomainTurnStart, ensurePreTurnBaselineFromTurnStart, Idle,
        captureCheckpointFromTurnCompletion, captureCheckpointFromPlaceholder, RefuseRevert,
        TakeDomain, TakeRuntime
  <2> QED
    BY <2>1, <2>2, JobBegins
<1>6. CASE BaselineFails \/ CaptureFails \/ RestoreFails \/ RollbackFails
  <2>1. job'.step = "idle" /\ UNCHANGED <<refs, lost, thread>> /\ job.step # "complete"
    BY <1>6
    DEF BaselineFails, CaptureFails, RestoreFails, RollbackFails, appendRevertFailureActivity,
        Idle, At
  <2> QED
    BY <2>1, JobBegins
<1>7. CASE CaptureBaseline
  <2>1. job'.step = "idle" /\ thread' = thread /\ job.step # "complete"
        /\ DOMAIN refs' = DOMAIN refs \cup {job.turnCount} /\ lost' = lost \ {job.turnCount}
    BY <1>7 DEF CaptureBaseline, Idle, At, Put
  <2>2. JobRefs'
    BY <2>1 DEF JobRefs
  <2> QED
    BY <2>1, <2>2, RefsGrow DEF KnownRefs
<1>8. CASE CaptureCheckpoint
  <2>1. job \in CaptureJobs
    BY <1>8 DEF CaptureCheckpoint, At, TypeOK, Jobs, Idle, BaselineJobs, CaptureJobs, RevertJobs,
                RevertSteps
  <2>2. /\ thread' = thread /\ job.step # "complete"
        /\ DOMAIN refs' = DOMAIN refs \cup {job.event.checkpointTurnCount}
        /\ lost' = lost \ {job.event.checkpointTurnCount}
        /\ job'.step = "finalize" /\ job'.event = job.event
    BY <1>8, <2>1 DEF CaptureCheckpoint, At, Put, CaptureJobs
  <2>3. job.event.checkpointRef \in DOMAIN refs' \cup {Null}
    BY <2>1, <2>2 DEF CaptureJobs, Diffs, OwnRef
  <2>4. JobRefs'
    BY <2>2, <2>3 DEF JobRefs
  <2> QED
    BY <2>2, <2>4, RefsGrow DEF KnownRefs
<1>9. CASE FinalizeCapture
  <2>1. job.event \in Diffs /\ dispatch(job.event)
    BY <1>9 DEF FinalizeCapture, At, TypeOK, Jobs, Idle, BaselineJobs, CaptureJobs, RevertJobs,
                RevertSteps
  <2>2. \A i \in DOMAIN thread'.checkpoints :
           \/ thread'.checkpoints[i] = CheckpointOf(job.event)
           \/ \E j \in DOMAIN thread.checkpoints : thread'.checkpoints[i] = thread.checkpoints[j]
    BY <2>1, DispatchDiff
  <2>3. UNCHANGED <<refs, lost>> /\ job.step = "finalize" /\ job'.step = "idle"
    BY <1>9 DEF FinalizeCapture, At, Idle
  <2>4. CheckpointOf(job.event).checkpointRef \in DOMAIN refs' \cup {Null}
    BY <2>3 DEF CheckpointOf, RefInv, JobRefs
  <2>5. JobRefs'
    BY <2>3 DEF JobRefs
  <2> QED
    BY <2>2, <2>3, <2>4, <2>5, RefsGrow DEF KnownRefs
<1>10. CASE BeginRevert
  <2>1. job'.step = "restore" /\ job'.staleRefs = staleCheckpointRefs(thread, job'.turnCount)
    BY <1>10, BeginRevertJob
  <2>2. UNCHANGED <<refs, lost, thread>> /\ job.step # "complete"
    BY <1>10 DEF BeginRevert, TakeDomain, Idle
  <2>3. ASSUME NEW ref \in job'.staleRefs \ {Null} PROVE ref > job'.turnCount
    <3>1. PICK i \in DOMAIN thread.checkpoints :
             /\ thread.checkpoints[i].checkpointTurnCount > job'.turnCount
             /\ ref = thread.checkpoints[i].checkpointRef
      BY <2>1 DEF staleCheckpointRefs
    <3>2. thread.checkpoints[i] \in Checkpoints
      BY DEF TypeOK, IsThread
    <3> QED
      BY <3>1, <3>2 DEF Checkpoints, OwnRef
  <2>4. JobRefs'
    BY <2>1, <2>3 DEF JobRefs
  <2> QED
    BY <2>2, <2>4, RefsGrow DEF KnownRefs
<1>11. CASE RestoreCheckpoint \/ RollbackConversation
  <2>1. job \in RevertJobs
    BY <1>11 DEF RestoreCheckpoint, RollbackConversation, At, TypeOK, Jobs, Idle, BaselineJobs,
                 CaptureJobs, RevertJobs
  <2>2. /\ UNCHANGED <<refs, lost, thread>> /\ job.step \in {"restore", "rollback"}
        /\ job'.step \in {"rollback", "delete"}
        /\ job'.turnCount = job.turnCount /\ job'.staleRefs = job.staleRefs
    BY <1>11, <2>1 DEF RestoreCheckpoint, RollbackConversation, At, RevertJobs
  <2>3. JobRefs'
    BY <2>2 DEF RefInv, JobRefs
  <2> QED
    BY <2>2, <2>3, RefsGrow DEF KnownRefs
<1>12. CASE DeleteCheckpointRefs
  <2>1. job \in RevertJobs
    BY <1>12 DEF DeleteCheckpointRefs, At, TypeOK, Jobs, Idle, BaselineJobs, CaptureJobs, RevertJobs
  <2>2. /\ thread' = thread /\ job.step = "delete" /\ job'.step = "complete"
        /\ job'.turnCount = job.turnCount /\ job'.staleRefs = job.staleRefs
        /\ DOMAIN refs' = DOMAIN refs \ job.staleRefs /\ lost' = lost
    BY <1>12, <2>1 DEF DeleteCheckpointRefs, At, RevertJobs
  <2>3. ASSUME NEW i \in DOMAIN thread.checkpoints PROVE HasRef(thread.checkpoints[i])'
    <3> DEFINE c == thread.checkpoints[i]
    <3>1. c \in Checkpoints /\ job.turnCount \in Nat
      BY <2>1 DEF TypeOK, IsThread, RevertJobs
    <3>2. c.checkpointRef \in KnownRefs
      BY <2>2 DEF RefInv, HasRef, Doomed
    <3>3. CASE c.checkpointRef \in job.staleRefs \ {Null}
      <4>1. c.checkpointRef > job.turnCount
        BY <2>2, <3>3 DEF RefInv, JobRefs
      <4>2. c.checkpointRef = c.checkpointTurnCount
        BY <3>1, <3>3 DEF Checkpoints, OwnRef
      <4> QED
        BY <2>2, <3>3, <4>1, <4>2 DEF HasRef, Doomed
    <3>4. CASE c.checkpointRef \notin job.staleRefs \ {Null}
      BY <2>2, <3>2, <3>4 DEF HasRef, KnownRefs
    <3> QED
      BY <3>3, <3>4
  <2> QED
    BY <2>2, <2>3 DEF RefInv, JobRefs
<1>13. CASE CompleteRevert
  <2>1. job \in RevertJobs
    BY <1>13 DEF CompleteRevert, At, TypeOK, Jobs, Idle, BaselineJobs, CaptureJobs, RevertJobs
  <2> DEFINE n == job.turnCount
  <2>2. n \in Nat /\ dispatch([type |-> "thread.reverted", turnCount |-> n])
    BY <1>13, <2>1 DEF CompleteRevert, RevertJobs
  <2>3. UNCHANGED <<refs, lost>> /\ job'.step = "idle"
    BY <1>13 DEF CompleteRevert, Idle
  <2> HIDE DEF n
  <2>4. \A i \in DOMAIN thread'.checkpoints : \E j \in DOMAIN thread.checkpoints :
           /\ thread.checkpoints[j].checkpointTurnCount <= n
           /\ thread'.checkpoints[i] = thread.checkpoints[j]
    BY <2>2, DispatchRevert
  <2>5. ASSUME NEW i \in DOMAIN thread'.checkpoints PROVE HasRef(thread.checkpoints[i])'
    <3>1. PICK j \in DOMAIN thread.checkpoints :
             /\ thread.checkpoints[j].checkpointTurnCount <= n
             /\ thread'.checkpoints[i] = thread.checkpoints[j]
      BY <2>4
    <3>2. thread.checkpoints[j].checkpointTurnCount \in Nat
      BY DEF TypeOK, IsThread, Checkpoints
    <3>3. HasRef(thread.checkpoints[j]) /\ ~Doomed(thread.checkpoints[j])
      BY <2>2, <3>1, <3>2 DEF RefInv, Doomed, n
    <3> QED
      BY <2>3, <3>1, <3>3 DEF HasRef, KnownRefs
  <2> QED
    BY <2>3, <2>5 DEF RefInv, JobRefs
<1>14. CASE DeleteCheckpointRefsFails \/ CompleteRevertFails
  <2>1. /\ thread' = thread /\ job'.step = "idle" /\ lost' = lost \cup job.staleRefs
        /\ DOMAIN refs \ job.staleRefs \subseteq DOMAIN refs'
    <3>1. thread' = thread /\ BreaksOff
      BY <1>14 DEF DeleteCheckpointRefsFails, CompleteRevertFails
    <3>2. job'.step = "idle" /\ lost' = lost \cup job.staleRefs
      BY <3>1 DEF BreaksOff, appendRevertFailureActivity, Idle
    <3>3. CASE DeleteCheckpointRefsFails
      <4>1. PICK S : S \subseteq job.staleRefs /\ refs' = [n \in DOMAIN refs \ S |-> refs[n]]
        BY <3>3 DEF DeleteCheckpointRefsFails
      <4> QED
        BY <3>1, <3>2, <4>1
    <3>4. CASE CompleteRevertFails
      BY <3>1, <3>2, <3>4 DEF CompleteRevertFails
    <3> QED
      BY <1>14, <3>3, <3>4
  <2>2. \A i \in DOMAIN thread.checkpoints : thread.checkpoints[i].checkpointRef \in KnownRefs \cup job.staleRefs
    BY DEF RefInv, HasRef, Doomed
  <2> QED
    BY <2>1, <2>2 DEF RefInv, JobRefs, HasRef, KnownRefs
<1> QED
  BY <1>1, <1>2, <1>3, <1>4, <1>5, <1>6, <1>7, <1>8, <1>9, <1>10, <1>11, <1>12, <1>13, <1>14
  DEF Next, Reactor

-----------------------------------------------------------------------------
(* Checkpoints and conversation: the phases of a user who lets the reactor finish *)

\* The one who waits longest is worked on last.
Last(queue) == queue[Len(queue)]

\* The turn the session is said to work on.
Active(t) == IF t.session = Null THEN Null ELSE t.session.activeTurnId

\* Turns are numbered as they start, and the conversation has each at most once.
TurnsInv ==
    /\ conversation \in Seq(Nat) /\ reported \in Seq(Nat)
    /\ Len(reported) = Len(edits)
    /\ Len(conversation) <= Len(edits) /\ Len(edits) <= MaxTurns
    /\ \A k \in 1..Len(conversation) : conversation[k] \in 1..Len(edits)
    /\ \A j, k \in 1..Len(conversation) : conversation[j] = conversation[k] => j = k
    /\ requested => running = Null /\ Len(edits) < MaxTurns
    /\ "session" \in DOMAIN thread

\* There are n checkpoints, and the first m are those of the conversation's first m turns.
Follows(t, conv, n, m) ==
    /\ Len(t.checkpoints) = n
    /\ \A k \in 1..n : t.checkpoints[k].checkpointTurnCount = k
    /\ \A k \in 1..m : t.checkpoints[k].turnId = conv[k]

\* All edits of S are of the first n turns.
OfFirst(S, conv, n) == \A edit \in S : \E k \in 1..n : edit[1] = conv[k]

\* So are the files of each of the first n refs, of the turns up to its own.
RefsOfFirst(n) == \A k \in DOMAIN refs : k <= n => OfFirst(refs[k], conversation, k)

\* The first n checkpoints were captured, with what their turns are owed.
Held(n) ==
    \A k \in 1..n :
        /\ thread.checkpoints[k].checkpointRef = k
        /\ k \in DOMAIN refs
        /\ OwedEdits(conversation[k]) \subseteq refs[k]

\* Files, refs, conversation and checkpoints are in step.
AtRest ==
    LET n == Len(conversation)
    IN  /\ Follows(thread, conversation, n, n)
        /\ Held(n) /\ DOMAIN refs \subseteq 0..n /\ RefsOfFirst(n)
        /\ OfFirst(files, conversation, n)

\* Nothing of a turn is on its way.
NoTurn ==
    /\ running = Null /\ placeholder = NoEvent
    /\ ingestQueue = <<>> /\ runtimeQueue = <<>>
    /\ Active(thread) = Null

\* The user has the word, or a revert was asked for.
Resting ==
    /\ NoTurn /\ ~requested /\ AtRest
    /\ job = Idle
    /\ \/ domainQueue = <<>>
       \/ Len(domainQueue) = 1 /\ domainQueue[1] \in RevertRequests

\* What a revert read of the thread at its start.
RevertPlan ==
    LET n == Len(conversation)
    IN  /\ job.turnCount <= n /\ job.target = job.turnCount
        /\ job.rolledBackTurns = n - job.turnCount
        /\ job.staleRefs = (job.turnCount + 1)..n

\* The conversation is still that of the checkpoints.
BeforeRollback ==
    /\ AtRest /\ RevertPlan
    /\ job.step = "rollback" => OfFirst(files, conversation, job.turnCount)

\* It is that of the first ones.
RolledBack ==
    LET n == Len(conversation)
        old == Len(thread.checkpoints)
    IN  /\ n <= old
        /\ Follows(thread, conversation, old, n)
        /\ Held(n) /\ RefsOfFirst(n) /\ OfFirst(files, conversation, n)

\* The other ones are to go.
AfterRollback ==
    LET n == Len(conversation)
        old == Len(thread.checkpoints)
    IN  /\ RolledBack
        /\ job.turnCount = n /\ job.staleRefs = (n + 1)..old
        /\ job.step = "delete" => DOMAIN refs \subseteq 0..old
        /\ job.step = "complete" => DOMAIN refs \subseteq 0..n

\* They did not go: the revert has broken off.
BrokenOff ==
    /\ NoTurn /\ ~requested /\ domainQueue = <<>> /\ job = Idle
    /\ RolledBack /\ lost # {}

\* The reactor works on a revert.
Reverting ==
    /\ NoTurn /\ ~requested /\ domainQueue = <<>>
    /\ job \in RevertJobs
    /\ job.step \in {"restore", "rollback"} => BeforeRollback
    /\ job.step \in {"delete", "complete"} => AfterRollback

\* A turn was asked for.
Starting ==
    /\ NoTurn /\ requested /\ AtRest
    /\ \/ /\ job = Idle
          /\ \/ domainQueue = <<>>
             \/ Len(domainQueue) = 1 /\ domainQueue[1] \in TurnStarts
       \/ /\ domainQueue = <<>>
          /\ job \in BaselineJobs /\ job.turnCount = Len(conversation)
          /\ job.turnCount \notin DOMAIN refs

\* The turn at work, or the last one.
Turn == conversation[Len(conversation)]

\* A diff is of that turn, and one without a ref is a placeholder.
OfTurn(e) ==
    /\ e.turnId = Turn /\ e.checkpointTurnCount = Len(conversation)
    /\ e.checkpointRef = Null => e.status = "missing"

\* The provider has reported a diff, or the end.
Told == running = Null \/ reported[Turn] # 0

\* What a runtime event in a queue tells of the turn.
RuntimeOK(e) ==
    /\ e.turnId = Turn
    /\ e.type = "turn.diff.updated" => Told
    /\ e.type = "turn.completed" => running = Null

\* What may wait before the reactor.
DomainOK(e) == e \in TurnStarts \/ (e \in Diffs /\ OfTurn(e) /\ Told)

\* The reactor is at work on a checkpoint.
Captures == job \in CaptureJobs

\* A placeholder of the turn waits.
PlaceholderWaits == \E i \in DOMAIN domainQueue : domainQueue[i] \in Placeholders

\* The turn is the newest, and its first report came after so many of its edits.
TurnStarted ==
    /\ Len(conversation) > 0 /\ Turn = Len(edits) /\ ~requested
    /\ running \in {Null, Turn}
    /\ reported[Turn] <= edits[Turn]

\* The turns before have their checkpoints, the turn may have one.
TurnFollows ==
    LET n == Len(conversation)
    IN  /\ \/ Follows(thread, conversation, n - 1, n - 1)
           \/ Follows(thread, conversation, n, n)
        /\ Held(n - 1)

\* The checkpoint of the turn, if there is one, is captured or will be.
TurnCheckpoint ==
    LET n == Len(conversation)
        c == thread.checkpoints[n]
    IN  Len(thread.checkpoints) = n =>
            /\ Told
            /\ c.checkpointRef = Null => c.status = "missing" /\ (Captures \/ PlaceholderWaits)
            /\ c.checkpointRef # Null => c.checkpointRef = n /\ n \in DOMAIN refs

\* What the reactor works on.
TurnJob ==
    LET n == Len(conversation)
    IN  \/ job = Idle
        \/ /\ job \in BaselineJobs /\ job.turnCount \in {n - 1, n}
           /\ job.turnCount \notin DOMAIN refs
           /\ job.turnCount = n => Told
        \/ /\ job \in CaptureJobs /\ OfTurn(job.event) /\ Told
           /\ job.event.checkpointRef = n
           /\ job.step = "finalize" => n \in DOMAIN refs

\* The events of the turn, the last of which tells its end.
TurnEvents(queue) ==
    /\ \A i \in DOMAIN queue : RuntimeOK(queue[i])
    /\ running = Null /\ queue # <<>> => Last(queue).type = "turn.completed"

\* The read model has the turn at work until the ingestion has worked off its end.
TurnActive ==
    \/ Active(thread) = Null
    \/ Active(thread) = Turn /\ (running # Null \/ ingestQueue # <<>>)

\* What waits, of this turn all of it.
TurnQueues ==
    /\ TurnEvents(ingestQueue) /\ TurnEvents(runtimeQueue)
    /\ \A i \in DOMAIN domainQueue : DomainOK(domainQueue[i])
    /\ placeholder # NoEvent => OfTurn(placeholder) /\ Told

\* The files have the turn's edits and those of the turns before, the refs up to the
\* turn's, which is captured when it was told of, what they should.
TurnFiles ==
    LET n == Len(conversation)
    IN  /\ \A k \in 1..edits[Turn] : <<Turn, k>> \in files
        /\ OfFirst(files, conversation, IF edits[Turn] = 0 THEN n - 1 ELSE n)
        /\ edits[Turn] # 0 => n - 1 \in DOMAIN refs
        /\ DOMAIN refs \subseteq 0..n /\ RefsOfFirst(n)
        /\ n \in DOMAIN refs => Told /\ OwedEdits(Turn) \subseteq refs[n]

\* The turn has its checkpoint, or will.
TurnEnds ==
    Len(thread.checkpoints) = Len(conversation) \/ running # Null \/ runtimeQueue # <<>> \/ Captures

\* A turn is at work, or its events are worked off.
Working ==
    /\ TurnStarted /\ TurnFollows /\ TurnCheckpoint /\ TurnJob /\ TurnQueues /\ TurnActive
    /\ TurnFiles /\ TurnEnds

InPhase == Resting \/ Reverting \/ Starting \/ Working

PhaseInv == ~disturbed => TurnsInv /\ (BrokenOff \/ (lost = {} /\ InPhase))

-----------------------------------------------------------------------------
(* The read model's checkpoints, when they follow the conversation *)

\* The first entries of an array are its prefix.
LEMMA FirstEntries ==
    ASSUME NEW S, NEW s \in Seq(S), NEW m \in Nat, m <= Len(s)
    PROVE  /\ Entries(s, 1..m) \in Seq(S) /\ Len(Entries(s, 1..m)) = m
           /\ \A i \in 1..m : Entries(s, 1..m)[i] = s[i]
<1> DEFINE K == 1..m
<1>1. K \subseteq Nat /\ IsFiniteSet(K) /\ Cardinality(K) = m /\ K \subseteq DOMAIN s
  BY FS_Interval
<1>2. ASSUME NEW i \in K PROVE Rank(i, K) = i
  <2>1. {j \in K : j <= i} = 1..i
    OBVIOUS
  <2>2. Cardinality(1..i) = i
    BY FS_Interval
  <2> QED
    BY <2>1, <2>2 DEF Rank
<1> HIDE DEF K
<1>3. Entries(s, K) \in Seq(S) /\ DOMAIN Entries(s, K) = 1..m
  BY <1>1, EntriesAreOld, EntriesFacts
<1>4. \A i \in K : Entries(s, K)[Rank(i, K)] = s[i]
  BY <1>1, EntriesFacts
<1>5. \A i \in K : Entries(s, K)[i] = s[i]
  BY <1>2, <1>4
<1>6. Len(Entries(s, K)) = m
  BY <1>3
<1> QED
  BY <1>3, <1>5, <1>6 DEF K

\* A checkpoint of the greatest count goes to the end.
LEMMA InsertLast ==
    ASSUME NEW S, NEW s \in Seq(S), NEW c \in S,
           \A i \in 1..Len(s) : s[i].checkpointTurnCount <= c.checkpointTurnCount
    PROVE  InsertByTurnCount(s, c) = Append(s, c)
<1> DEFINE K == {i \in DOMAIN s : s[i].checkpointTurnCount <= c.checkpointTurnCount}
<1>1. DOMAIN s = 1..Len(s) /\ Len(s) \in Nat
  OBVIOUS
<1>2. K = 1..Len(s)
  BY <1>1
<1>3. Cardinality(K) = Len(s)
  <2>1. Cardinality(1..Len(s)) = Len(s)
    BY <1>1, FS_Interval, SMTT(30)
  <2> QED
    BY <1>2, <2>1
<1> HIDE DEF K
<1>4. InsertByTurnCount(s, c) = SubSeq(s, 1, Len(s)) \o <<c>> \o SubSeq(s, Len(s) + 1, Len(s))
  BY <1>3 DEF InsertByTurnCount, K
<1>5. SubSeq(s, 1, Len(s)) = s /\ SubSeq(s, Len(s) + 1, Len(s)) = <<>>
  BY <1>1
<1>6. s \o <<c>> \o <<>> = Append(s, c)
  OBVIOUS
<1> QED
  BY <1>4, <1>5, <1>6

\* A diff of the newest turn, whose checkpoint is the last or still to come.
LEMMA DiffAtEnd ==
    ASSUME NEW t, IsThread(t), "session" \in DOMAIN t, NEW e \in Diffs,
           NEW conv, NEW n \in Nat, n > 0, n <= MAX_THREAD_CHECKPOINTS,
           \A j, k \in 1..n : conv[j] = conv[k] => j = k,
           e.turnId = conv[n], e.checkpointTurnCount = n,
           Follows(t, conv, n - 1, n - 1) \/ Follows(t, conv, n, n)
    PROVE  LET more == Patch(t, ThreadPatch(t, e))
           IN  /\ more.session = t.session /\ "session" \in DOMAIN more
               /\ IF IsStalePlaceholder(t, e)
                    THEN more.checkpoints = t.checkpoints
                    ELSE /\ Follows(more, conv, n, n)
                         /\ more.checkpoints[n] = CheckpointOf(e)
                         /\ \A k \in 1..(n - 1) : more.checkpoints[k] = t.checkpoints[k]
<1> DEFINE K == {i \in DOMAIN t.checkpoints : t.checkpoints[i].turnId # e.turnId}
           others == Filter(t.checkpoints, LAMBDA c : c.turnId # e.turnId)
           c0 == CheckpointOf(e)
           inserted == InsertByTurnCount(others, c0)
           kept == KeepLast(inserted, MAX_THREAD_CHECKPOINTS)
<1>1. t.checkpoints \in Seq(Checkpoints) /\ Len(t.checkpoints) \in Nat
      /\ DOMAIN t.checkpoints = 1..Len(t.checkpoints)
  BY DEF IsThread
<1>2. n - 1 \in Nat /\ n - 1 <= Len(t.checkpoints) /\ Len(t.checkpoints) <= n
  BY <1>1 DEF Follows
<1>3. \A k \in 1..(n - 1) : t.checkpoints[k].checkpointTurnCount = k /\ t.checkpoints[k].turnId = conv[k]
  BY <1>2 DEF Follows
<1>4. Len(t.checkpoints) = n => t.checkpoints[n].turnId = conv[n]
  BY DEF Follows
<1>5. K = 1..(n - 1)
  <2>1. \A k \in 1..(n - 1) : k \in K
    BY <1>1, <1>2, <1>3
  <2>2. \A k \in K : k \in 1..(n - 1)
    BY <1>1, <1>2, <1>4
  <2> HIDE DEF K
  <2> QED
    BY <2>1, <2>2
<1>6. others = Entries(t.checkpoints, 1..(n - 1))
  BY <1>5 DEF Filter
<1> HIDE DEF others, K
<1>7. others \in Seq(Checkpoints) /\ Len(others) = n - 1
      /\ \A i \in 1..(n - 1) : others[i] = t.checkpoints[i]
  <2> DEFINE s == t.checkpoints
             m == n - 1
  <2>1. s \in Seq(Checkpoints) /\ m \in Nat /\ m <= Len(s) /\ others = Entries(s, 1..m)
    BY <1>1, <1>2, <1>6
  <2> HIDE DEF s, m
  <2>2. others \in Seq(Checkpoints) /\ Len(others) = m /\ \A i \in 1..m : others[i] = s[i]
    BY <2>1, FirstEntries
  <2> QED
    BY <2>2 DEF s, m
<1>8. c0 \in Checkpoints /\ c0.checkpointTurnCount = n /\ c0.turnId = conv[n]
  BY CheckpointOfDiff DEF CheckpointOf
<1>9. inserted = Append(others, c0)
  <2>1. \A i \in 1..Len(others) : others[i].checkpointTurnCount <= c0.checkpointTurnCount
    BY <1>3, <1>7, <1>8
  <2> HIDE DEF c0
  <2> QED
    BY <1>7, <1>8, <2>1, InsertLast
<1> HIDE DEF inserted, c0
<1>10. Len(inserted) = n /\ inserted[n] = c0 /\ \A i \in 1..(n - 1) : inserted[i] = t.checkpoints[i]
  BY <1>2, <1>7, <1>8, <1>9, AppendSeqFacts
<1>11. kept = inserted
  BY <1>10 DEF KeepLast
<1>12. /\ "checkpoints" \in DOMAIN DiffPatch(t, e) /\ "session" \notin DOMAIN DiffPatch(t, e)
       /\ DiffPatch(t, e).checkpoints = kept
  BY DEF DiffPatch, CheckpointOf, kept, inserted, others, c0
<1> HIDE DEF kept
<1>13. ThreadPatch(t, e) = IF IsStalePlaceholder(t, e) THEN NoPatch ELSE DiffPatch(t, e)
  <2>1. e.type = "thread.turn-diff-completed"
    BY DEF Diffs
  <2> QED
    BY <2>1 DEF ThreadPatch
<1>14. CASE IsStalePlaceholder(t, e)
  BY <1>13, <1>14 DEF Patch, NoPatch, IsThread
<1>15. CASE ~IsStalePlaceholder(t, e)
  <2> DEFINE more == Patch(t, DiffPatch(t, e))
  <2>1. "checkpoints" \in DOMAIN more /\ "session" \in DOMAIN more
        /\ more.checkpoints = inserted /\ more.session = t.session
    BY <1>11, <1>12 DEF Patch
  <2> HIDE DEF more
  <2>2. Follows(more, conv, n, n)
    <3>1. ASSUME NEW k \in 1..n
          PROVE  more.checkpoints[k].checkpointTurnCount = k /\ more.checkpoints[k].turnId = conv[k]
      BY <1>3, <1>8, <1>10, <2>1
    <3> QED
      BY <1>10, <2>1, <3>1 DEF Follows
  <2> QED
    BY <1>10, <1>13, <1>15, <2>1, <2>2 DEF more, c0
<1> QED
  BY <1>14, <1>15

\* A revert to the n-th turn keeps the first n checkpoints.
LEMMA RevertAtEnd ==
    ASSUME NEW t, IsThread(t), "session" \in DOMAIN t, NEW conv, NEW n \in Nat, NEW old \in Nat, n <= old,
           Follows(t, conv, old, n)
    PROVE  LET more == Patch(t, ThreadPatch(t, [type |-> "thread.reverted", turnCount |-> n]))
           IN  /\ more.session = t.session /\ "session" \in DOMAIN more
               /\ Follows(more, conv, n, n)
               /\ \A k \in 1..n : more.checkpoints[k] = t.checkpoints[k]
<1> DEFINE e == [type |-> "thread.reverted", turnCount |-> n]
           K == {i \in DOMAIN t.checkpoints : t.checkpoints[i].checkpointTurnCount <= n}
           kept == Filter(t.checkpoints, LAMBDA c : c.checkpointTurnCount <= n)
           more == Patch(t, ThreadPatch(t, e))
<1>1. t.checkpoints \in Seq(Checkpoints) /\ Len(t.checkpoints) = old
      /\ DOMAIN t.checkpoints = 1..old
  BY DEF IsThread, Follows
<1>2. K = 1..n
  BY <1>1 DEF Follows
<1>3. kept = Entries(t.checkpoints, 1..n)
  BY <1>2 DEF Filter
<1>4. "checkpoints" \in DOMAIN RevertPatch(t, n) /\ RevertPatch(t, n).checkpoints = kept
      /\ "session" \notin DOMAIN RevertPatch(t, n)
  BY DEF RevertPatch
<1> HIDE DEF kept, K
<1>5. Len(kept) = n /\ \A i \in 1..n : kept[i] = t.checkpoints[i]
  BY <1>1, <1>3, FirstEntries
<1>6. ThreadPatch(t, e) = RevertPatch(t, n)
  BY DEF ThreadPatch
<1>7. more.checkpoints = kept /\ "session" \in DOMAIN more /\ more.session = t.session
  BY <1>4, <1>6 DEF Patch
<1> HIDE DEF more
<1>8. Follows(more, conv, n, n)
  BY <1>5, <1>7 DEF Follows
<1> QED
  BY <1>5, <1>7, <1>8 DEF more

\* A status of the session.
LEMMA SessionAtEnd ==
    ASSUME NEW t, NEW session
    PROVE  LET more == Patch(t, ThreadPatch(t, [type |-> "thread.session-set", session |-> session]))
           IN  more.session = session /\ "session" \in DOMAIN more
BY DEF ThreadPatch, SessionPatch, Patch

\* The count of the thread is that of its last checkpoint.
LEMMA CountFollows ==
    ASSUME NEW t, IsThread(t), NEW conv, NEW n \in Nat, NEW m \in Nat, Follows(t, conv, n, m)
    PROVE  currentTurnCount(t) = n
<1>1. DOMAIN t.checkpoints = 1..n
  BY DEF IsThread, Follows
<1>2. Counts(t) = 1..n
  BY <1>1 DEF Counts, Follows
<1>3. /\ currentTurnCount(t) \in 1..n \cup {0}
      /\ \A c \in 1..n : c <= currentTurnCount(t)
  BY <1>2, CurrentTurnCountFacts
<1>4. n = 0 \/ n \in 1..n
  OBVIOUS
<1> QED
  BY <1>3, <1>4

\* Which turns have a checkpoint.
LEMMA TurnHasCheckpoint ==
    ASSUME NEW t, IsThread(t), NEW conv, NEW n \in Nat, n > 0,
           \A j, k \in 1..n : conv[j] = conv[k] => j = k,
           Follows(t, conv, n - 1, n - 1) \/ Follows(t, conv, n, n)
    PROVE  CheckpointsOf(t, conv[n]) = IF Len(t.checkpoints) = n THEN {t.checkpoints[n]} ELSE {}
<1>1. DOMAIN t.checkpoints = 1..Len(t.checkpoints) /\ Len(t.checkpoints) \in {n - 1, n}
  BY DEF IsThread, Follows
<1>2. \A k \in 1..Len(t.checkpoints) : t.checkpoints[k].turnId = conv[k]
  BY DEF Follows
<1> QED
  BY <1>1, <1>2 DEF CheckpointsOf

\* The next count is that of the newest turn, whether it has a checkpoint or not.
LEMMA NextFollows ==
    ASSUME NEW t, IsThread(t), NEW conv, NEW n \in Nat, n > 0,
           \A j, k \in 1..n : conv[j] = conv[k] => j = k,
           Follows(t, conv, n - 1, n - 1) \/ Follows(t, conv, n, n)
    PROVE  nextTurnCount(t, conv[n]) = n
<1>1. CASE Len(t.checkpoints) = n
  <2>1. CheckpointsOf(t, conv[n]) = {t.checkpoints[n]}
    BY <1>1, TurnHasCheckpoint
  <2>3. t.checkpoints[n].checkpointTurnCount = n
    BY <1>1 DEF Follows
  <2>2. (CHOOSE c \in {t.checkpoints[n]} : TRUE) = t.checkpoints[n]
    OBVIOUS
  <2> QED
    BY <2>1, <2>2, <2>3 DEF nextTurnCount
<1>2. CASE Len(t.checkpoints) # n
  <2>1. CheckpointsOf(t, conv[n]) = {}
    BY <1>2, TurnHasCheckpoint
  <2>4. Follows(t, conv, n - 1, n - 1)
    BY <1>2 DEF Follows
  <2>2. n - 1 \in Nat
    OBVIOUS
  <2>3. currentTurnCount(t) = n - 1
    BY <2>2, <2>4, CountFollows
  <2> QED
    BY <2>1, <2>3 DEF nextTurnCount
<1> QED
  BY <1>1, <1>2

\* What a revert reads: the ref of that count and those that are to go.
LEMMA PlanFollows ==
    ASSUME NEW t, IsThread(t), NEW conv, NEW n \in Nat, Follows(t, conv, n, n),
           \A k \in 1..n : t.checkpoints[k].checkpointRef = k,
           NEW k \in Nat, k <= n
    PROVE  targetCheckpointRef(t, k) = k /\ staleCheckpointRefs(t, k) = (k + 1)..n
<1> DEFINE found == {i \in DOMAIN t.checkpoints : t.checkpoints[i].checkpointTurnCount = k}
<1>1. DOMAIN t.checkpoints = 1..n
  BY DEF IsThread, Follows
<1>2. found = IF k = 0 THEN {} ELSE {k}
  BY <1>1 DEF Follows
<1>3. targetCheckpointRef(t, k) = k
  <2>1. k # 0 => (CHOOSE i \in {k} : \A j \in {k} : i <= j) = k
    OBVIOUS
  <2> HIDE DEF found
  <2> QED
    BY <1>2, <2>1 DEF targetCheckpointRef, found
<1>4. {j \in DOMAIN t.checkpoints : t.checkpoints[j].checkpointTurnCount > k} = (k + 1)..n
  BY <1>1 DEF Follows
<1>5. staleCheckpointRefs(t, k) = {t.checkpoints[i].checkpointRef : i \in (k + 1)..n}
  BY <1>4 DEF staleCheckpointRefs
<1>6. \A i \in (k + 1)..n : t.checkpoints[i].checkpointRef = i
  OBVIOUS
<1> QED
  BY <1>3, <1>5, <1>6

-----------------------------------------------------------------------------
(* Before a turn and during a revert *)

\* What is of the first m turns is of the first n.
LEMMA OfMore ==
    ASSUME NEW S, NEW conv, NEW m \in Int, NEW n \in Int, m <= n, OfFirst(S, conv, m)
    PROVE  OfFirst(S, conv, n)
<1>1. \A k \in 1..m : k \in 1..n
  OBVIOUS
<1> QED
  BY <1>1 DEF OfFirst

\* Turns and conversation are as they were when no step touches them.
LEMMA TurnsStay ==
    ASSUME TurnsInv, UNCHANGED <<conversation, edits, reported, requested, running>>,
           "session" \in DOMAIN thread'
    PROVE  TurnsInv'
BY DEF TurnsInv

\* So are a thread at rest, and one without a turn.
LEMMA RestStays ==
    ASSUME AtRest, UNCHANGED <<conversation, edits, reported, thread, refs, files>>
    PROVE  AtRest'
BY DEF AtRest, Follows, Held, OwedEdits, RefsOfFirst, OfFirst

LEMMA NoTurnStays ==
    ASSUME NoTurn, UNCHANGED <<running, placeholder, ingestQueue, runtimeQueue, thread>>
    PROVE  NoTurn'
BY DEF NoTurn, Active

\* The queue of the one input the reactor has to take up.
LEMMA OneInput ==
    ASSUME NEW S, NEW q \in Seq(S), q = <<>> \/ Len(q) = 1, q # <<>>
    PROVE  Head(q) = q[1] /\ Tail(q) = <<>>
<1>1. Head(q) = q[1] /\ Len(q) = 1
  OBVIOUS
<1>2. Tail(q) \in Seq(S) /\ Len(Tail(q)) = 0
  BY <1>1
<1>3. \A s \in Seq(S) : Len(s) = 0 => s = <<>>
  OBVIOUS
<1> QED
  BY <1>1, <1>2, <1>3

\* What is put in an empty queue is the one input of it.
LEMMA FirstInput ==
    ASSUME NEW e
    PROVE  Append(<<>>, e) # <<>> /\ Len(Append(<<>>, e)) = 1 /\ Append(<<>>, e)[1] = e
<1>1. Append(<<>>, e) = <<e>>
  OBVIOUS
<1> QED
  BY <1>1

\* Neither the provider nor the ingestion does anything while no turn is on its way.
LEMMA NoTurnSteps ==
    ASSUME NoTurn, EditFiles \/ ReportDiff \/ (\E state \in EndStates : CompleteTurn(state)) \/ Ingestion
    PROVE  FALSE
BY DEF NoTurn, EditFiles, ReportDiff, CompleteTurn, Ingestion, IngestTurnStarted, IngestTurnCompleted,
       IngestTurnEvent, IngestDiffUpdated, DispatchPlaceholder, Ingest

\* Nor does the reactor take up an event of the provider.
LEMMA NoRuntimeSteps ==
    ASSUME NoTurn, ensurePreTurnBaselineFromTurnStart \/ captureCheckpointFromTurnCompletion
    PROVE  FALSE
BY DEF NoTurn, ensurePreTurnBaselineFromTurnStart, captureCheckpointFromTurnCompletion, TakeRuntime

\* The steps of the reactor that take up an input, and those that go on with one.
Taking ==
    \/ ensurePreTurnBaselineFromDomainTurnStart \/ ensurePreTurnBaselineFromTurnStart
    \/ captureCheckpointFromTurnCompletion \/ captureCheckpointFromPlaceholder
    \/ BeginRevert \/ RefuseRevert

\* What the reactor does with a baseline, a checkpoint and a revert in work.
BaselineStep == CaptureBaseline \/ BaselineFails
CaptureStep  == CaptureCheckpoint \/ CaptureFails \/ FinalizeCapture
RevertStep ==
    \/ RestoreCheckpoint \/ RestoreFails \/ RollbackConversation \/ RollbackFails
    \/ DeleteCheckpointRefs \/ DeleteCheckpointRefsFails \/ CompleteRevert \/ CompleteRevertFails

\* The job in work tells which steps of the reactor are possible.
LEMMA ReactorSteps ==
    ASSUME TypeOK, Reactor
    PROVE  \/ Taking /\ job = Idle
           \/ BaselineStep /\ job \in BaselineJobs
           \/ CaptureStep /\ job \in CaptureJobs
           \/ RevertStep /\ job \in RevertJobs
<1>1. /\ job \in Jobs
      /\ job = Idle => job.step = "idle"
      /\ job \in BaselineJobs => job.step = "baseline"
      /\ job \in CaptureJobs => job.step \in {"capture", "finalize"}
      /\ job \in RevertJobs => job.step \in RevertSteps
  BY DEF TypeOK, Idle, BaselineJobs, CaptureJobs, RevertJobs
<1>2. Taking => job = Idle
  BY DEF Taking, ensurePreTurnBaselineFromDomainTurnStart, ensurePreTurnBaselineFromTurnStart,
         captureCheckpointFromTurnCompletion, captureCheckpointFromPlaceholder, BeginRevert, RefuseRevert,
         TakeDomain, TakeRuntime
<1>3. BaselineStep => job.step = "baseline"
  BY DEF BaselineStep, CaptureBaseline, BaselineFails, At
<1>4. CaptureStep => job.step \in {"capture", "finalize"}
  BY DEF CaptureStep, CaptureCheckpoint, CaptureFails, FinalizeCapture, At
<1>5. RevertStep => job.step \in RevertSteps
  BY DEF RevertStep, RestoreCheckpoint, RestoreFails, RollbackConversation, RollbackFails,
         DeleteCheckpointRefs, DeleteCheckpointRefsFails, CompleteRevert, CompleteRevertFails,
         At, RevertSteps
<1>6. Taking \/ BaselineStep \/ CaptureStep \/ RevertStep
  BY DEF Reactor, Taking, BaselineStep, CaptureStep, RevertStep
<1> QED
  BY <1>1, <1>2, <1>3, <1>4, <1>5, <1>6 DEF Jobs, RevertSteps

\* The jobs are told apart by their steps.
LEMMA JobKinds ==
    /\ Idle \notin BaselineJobs /\ Idle \notin CaptureJobs /\ Idle \notin RevertJobs
    /\ BaselineJobs \cap CaptureJobs = {} /\ BaselineJobs \cap RevertJobs = {}
    /\ CaptureJobs \cap RevertJobs = {}
BY DEF Idle, BaselineJobs, CaptureJobs, RevertJobs, RevertSteps

\* The user waits: a turn or a revert is asked for, or a revert begins or is refused.
LEMMA RestingSteps ==
    ASSUME TypeOK, Resting, ~disturbed', Next
    PROVE  \/ SendTurn /\ domainQueue = <<>>
           \/ domainQueue = <<>> /\ \E turnCount \in 0..MaxTurns : RequestRevert(turnCount)
           \/ BeginRevert \/ RefuseRevert
<1>1. NoTurn /\ ~requested /\ job = Idle
  BY DEF Resting
<1>2. (SendTurn \/ \E turnCount \in 0..MaxTurns : RequestRevert(turnCount)) => domainQueue = <<>>
  BY DEF SendTurn, RequestRevert, Settled
<1>3. ~StartTurn
  BY <1>1 DEF StartTurn
<1>4. Reactor => BeginRevert \/ RefuseRevert
  <2> SUFFICES ASSUME Reactor PROVE BeginRevert \/ RefuseRevert
    OBVIOUS
  <2>1. Taking
    BY <1>1, ReactorSteps, JobKinds
  <2>2. ~ensurePreTurnBaselineFromTurnStart /\ ~captureCheckpointFromTurnCompletion
    BY <1>1, NoRuntimeSteps
  <2>3. ASSUME NEW type, TakeDomain(type) PROVE type = "thread.checkpoint-revert-requested"
    <3>1. domainQueue # <<>> /\ Head(domainQueue).type = type /\ domainQueue \in Seq(DomainEvents)
      BY <2>3 DEF TakeDomain, TypeOK
    <3>2. Head(domainQueue) \in RevertRequests
      BY <3>1, OneInput DEF Resting
    <3> QED
      BY <3>1, <3>2 DEF RevertRequests
  <2>4. ~ensurePreTurnBaselineFromDomainTurnStart /\ ~captureCheckpointFromPlaceholder
    BY <2>3 DEF ensurePreTurnBaselineFromDomainTurnStart, captureCheckpointFromPlaceholder
  <2> QED
    BY <2>1, <2>2, <2>4 DEF Taking
<1> QED
  BY <1>1, <1>2, <1>3, <1>4, NoTurnSteps DEF Next

\* A thread at rest stays so until the user asks for a turn or a revert.
LEMMA RestingStep ==
    ASSUME TypeOK, TurnsInv, Resting, ~disturbed', [Next]_vars
    PROVE  TurnsInv' /\ (Resting' \/ Reverting' \/ Starting')
<1> USE DEF user, provider, queues
<1>0. NoTurn /\ ~requested /\ AtRest /\ job = Idle
  BY DEF Resting
<1>1. CASE UNCHANGED vars
  <2>1. TurnsInv'
    BY <1>1, TurnsStay DEF vars, TurnsInv
  <2>2. AtRest' /\ NoTurn'
    BY <1>0, <1>1, RestStays, NoTurnStays DEF vars
  <2> QED
    BY <1>1, <2>1, <2>2 DEF vars, Resting
<1>2. CASE SendTurn /\ domainQueue = <<>>
  <2>1. AtRest' /\ NoTurn'
    BY <1>0, <1>2, RestStays, NoTurnStays DEF SendTurn
  <2>2. TurnsInv'
    BY <1>2 DEF SendTurn, TurnsInv
  <2>3. Len(domainQueue') = 1 /\ domainQueue'[1] \in TurnStarts
    BY <1>2, FirstInput DEF SendTurn, TurnStarts
  <2>4. requested' /\ job' = Idle
    BY <1>0, <1>2 DEF SendTurn
  <2> QED
    BY <2>1, <2>2, <2>3, <2>4 DEF Starting
<1>3. ASSUME NEW turnCount \in 0..MaxTurns, RequestRevert(turnCount), domainQueue = <<>>
      PROVE  TurnsInv' /\ Resting'
  <2>1. AtRest' /\ NoTurn'
    BY <1>0, <1>3, RestStays, NoTurnStays DEF RequestRevert
  <2>2. TurnsInv'
    BY <1>3, TurnsStay DEF RequestRevert, TurnsInv
  <2>3. Len(domainQueue') = 1 /\ domainQueue'[1] \in RevertRequests
    BY <1>3, FirstInput, CheckpointAssumption DEF RequestRevert, RevertRequests, CheckpointAssumption
  <2>4. ~requested' /\ job' = Idle
    BY <1>0, <1>3 DEF RequestRevert
  <2> QED
    BY <2>1, <2>2, <2>3, <2>4 DEF Resting
<1>4. CASE BeginRevert
  <2> DEFINE k == Head(domainQueue).turnCount
             n == Len(conversation)
  <2>1. TakeDomain("thread.checkpoint-revert-requested")
    BY <1>4 DEF BeginRevert
  <2>2. AtRest' /\ NoTurn' /\ ~requested'
    BY <1>0, <2>1, RestStays, NoTurnStays DEF TakeDomain
  <2>3. TurnsInv'
    BY <2>1, TurnsStay DEF TakeDomain, TurnsInv
  <2>4. domainQueue' = <<>> /\ k \in Nat
    <3>1. domainQueue # <<>> /\ domainQueue' = Tail(domainQueue) /\ domainQueue \in Seq(DomainEvents)
      BY <2>1 DEF TakeDomain, TypeOK
    <3>2. Head(domainQueue) \in RevertRequests /\ Tail(domainQueue) = <<>>
      BY <3>1, OneInput DEF Resting
    <3> QED
      BY <3>1, <3>2 DEF RevertRequests
  <2>5. /\ n \in Nat /\ Follows(thread, conversation, n, n)
        /\ \A i \in 1..n : thread.checkpoints[i].checkpointRef = i
    <3>1. n \in Nat
      BY DEF TurnsInv
    <3>2. Follows(thread, conversation, n, n) /\ Held(n)
      BY <1>0 DEF AtRest
    <3> QED
      BY <3>1, <3>2 DEF Held
  <2>6. currentTurnCount(thread) = n
    BY <2>5, CountFollows DEF TypeOK
  <2>7. k <= n
    BY <1>4, <2>6 DEF BeginRevert
  <2>8. targetCheckpointRef(thread, k) = k /\ staleCheckpointRefs(thread, k) = (k + 1)..n
    <3> HIDE DEF k, n
    <3> QED
      BY <2>4, <2>5, <2>7, PlanFollows DEF TypeOK
  <2>9. job' \in RevertJobs /\ job'.step = "restore"
    BY <1>4, BeginRevertJob
  <2>10. /\ job'.turnCount = k /\ job'.target = k /\ job'.rolledBackTurns = n - k
         /\ job'.staleRefs = (k + 1)..n
    BY <1>4, <2>6, <2>8 DEF BeginRevert
  <2>11. conversation' = conversation
    BY <2>1 DEF TakeDomain
  <2>12. RevertPlan'
    BY <2>7, <2>10, <2>11 DEF RevertPlan
  <2> HIDE DEF k, n
  <2> QED
    BY <2>2, <2>3, <2>4, <2>9, <2>12 DEF Reverting, BeforeRollback
<1>5. CASE RefuseRevert
  <2>1. TakeDomain("thread.checkpoint-revert-requested") /\ job' = Idle
    BY <1>5 DEF RefuseRevert, appendRevertFailureActivity
  <2>2. AtRest' /\ NoTurn' /\ ~requested'
    BY <1>0, <2>1, RestStays, NoTurnStays DEF TakeDomain
  <2>3. TurnsInv'
    BY <2>1, TurnsStay DEF TakeDomain, TurnsInv
  <2>4. domainQueue' = <<>>
    <3>1. domainQueue # <<>> /\ domainQueue' = Tail(domainQueue) /\ domainQueue \in Seq(DomainEvents)
      BY <2>1 DEF TakeDomain, TypeOK
    <3> QED
      BY <3>1, OneInput DEF Resting
  <2> QED
    BY <2>1, <2>2, <2>3, <2>4 DEF Resting
<1> QED
  BY <1>1, <1>2, <1>3, <1>4, <1>5, RestingSteps

\* During a revert nobody else goes on.
LEMMA RevertingSteps ==
    ASSUME TypeOK, Reverting, ~disturbed', Next
    PROVE  RevertStep
<1>1. NoTurn /\ ~requested /\ job \in RevertJobs /\ job # Idle
  BY JobKinds DEF Reverting
<1>2. ~SendTurn /\ ~\E turnCount \in 0..MaxTurns : RequestRevert(turnCount)
  BY <1>1 DEF SendTurn, RequestRevert, Settled
<1>3. ~StartTurn
  BY <1>1 DEF StartTurn
<1>4. Reactor => RevertStep
  BY <1>1, ReactorSteps, JobKinds
<1> QED
  BY <1>1, <1>2, <1>3, <1>4, NoTurnSteps DEF Next

\* A revert goes on step by step, until the thread is at rest with the turns that are left.
LEMMA RevertingStep ==
    ASSUME TypeOK, TurnsInv, Reverting, ~disturbed', [Next]_vars,
           ~DeleteCheckpointRefsFails, ~CompleteRevertFails
    PROVE  TurnsInv' /\ (Reverting' \/ Resting')
<1> USE DEF user, provider, queues, At
<1>n. PICK n \in Nat, m \in Nat : n = Len(conversation) /\ m = job.turnCount
  BY DEF Reverting, RevertJobs, TurnsInv
<1> USE <1>n
<1>0. /\ NoTurn /\ ~requested /\ job \in RevertJobs /\ domainQueue = <<>>
      /\ m \in Nat /\ n \in Nat /\ job.step \in RevertSteps
  BY DEF Reverting, RevertJobs, TurnsInv
<1>1. CASE UNCHANGED vars
  <2>1. TurnsInv'
    BY <1>1, TurnsStay DEF vars, TurnsInv
  <2>2. NoTurn'
    BY <1>0, <1>1, NoTurnStays DEF vars
  <2>3. BeforeRollback => BeforeRollback'
    <3> SUFFICES ASSUME BeforeRollback PROVE BeforeRollback'
      OBVIOUS
    <3>1. AtRest'
      BY <1>1, RestStays DEF BeforeRollback, vars
    <3> QED
      BY <1>1, <3>1 DEF BeforeRollback, vars, RevertPlan, OfFirst
  <2>4. AfterRollback => AfterRollback'
    BY <1>1, SMTT(30) DEF AfterRollback, RolledBack, vars, Follows, Held, RefsOfFirst, OfFirst, OwedEdits
  <2> QED
    BY <1>1, <2>1, <2>2, <2>3, <2>4 DEF vars, Reverting
<1>2. CASE RestoreCheckpoint
  <2>1. /\ NoTurn' /\ ~requested' /\ domainQueue' = <<>> /\ job' \in RevertJobs
        /\ job' = [job EXCEPT !.step = "rollback"]
    BY <1>0, <1>2, NoTurnStays DEF RestoreCheckpoint, RevertJobs, RevertSteps
  <2>2. TurnsInv'
    BY <1>2, TurnsStay DEF RestoreCheckpoint, TurnsInv
  <2>3. AtRest /\ RevertPlan
    BY <1>2 DEF RestoreCheckpoint, Reverting, BeforeRollback
  <2>4. OfFirst(files', conversation, m)
    <3>1. m \in DOMAIN refs => OfFirst(refs[m], conversation, m)
      BY <1>0, <2>3 DEF AtRest, RevertPlan, RefsOfFirst
    <3>2. files' = (IF m \in DOMAIN refs THEN refs[m] ELSE HeadFiles)
      BY <1>2, <2>3 DEF RestoreCheckpoint, RevertPlan, restored, TargetFiles
    <3>3. OfFirst(HeadFiles, conversation, m)
      BY DEF OfFirst, HeadFiles
    <3> QED
      BY <3>1, <3>2, <3>3
  <2>5. OfFirst(files', conversation, n)
    BY <1>0, <2>3, <2>4, OfMore DEF RevertPlan
  <2>6. UNCHANGED <<thread, conversation, refs, edits, reported>>
    BY <1>2 DEF RestoreCheckpoint
  <2>7. AtRest'
    BY <2>3, <2>5, <2>6 DEF AtRest, Follows, Held, OwedEdits, RefsOfFirst, OfFirst
  <2>8. /\ job'.turnCount = m /\ job'.target = job.target /\ job'.rolledBackTurns = job.rolledBackTurns
        /\ job'.staleRefs = job.staleRefs /\ job'.step = "rollback"
    BY <1>0, <2>1 DEF RevertJobs
  <2>9. RevertPlan' /\ OfFirst(files, conversation, job.turnCount)'
    BY <2>3, <2>4, <2>6, <2>8 DEF RevertPlan
  <2> QED
    BY <2>1, <2>2, <2>7, <2>8, <2>9 DEF Reverting, BeforeRollback
<1>3. CASE RestoreFails \/ RollbackFails
  <2>1. /\ job' = Idle
        /\ UNCHANGED <<running, conversation, edits, reported, requested, ingestQueue,
                       domainQueue, runtimeQueue, thread, refs, placeholder>>
    BY <1>3 DEF RestoreFails, RollbackFails, appendRevertFailureActivity
  <2>2. AtRest /\ RevertPlan
    BY <1>3 DEF RestoreFails, RollbackFails, Reverting, BeforeRollback
  <2>3. NoTurn' /\ TurnsInv'
    BY <1>0, <2>1, TurnsStay, NoTurnStays DEF TurnsInv
  <2>4. OfFirst(TargetFiles, conversation, n)
    <3>1. m \in DOMAIN refs => OfFirst(refs[m], conversation, m)
      BY <1>0, <2>2 DEF AtRest, RevertPlan, RefsOfFirst
    <3>2. OfFirst(HeadFiles, conversation, m)
      BY DEF OfFirst, HeadFiles
    <3>3. OfFirst(TargetFiles, conversation, m)
      BY <2>2, <3>1, <3>2 DEF TargetFiles, RevertPlan
    <3> QED
      BY <1>0, <2>2, <3>3, OfMore DEF RevertPlan
  <2>5. files' \subseteq files \cup TargetFiles
    BY <1>3 DEF RestoreFails, RollbackFails
  <2>6. OfFirst(files', conversation, n)
    BY <2>2, <2>4, <2>5 DEF AtRest, OfFirst
  <2>7. AtRest'
    BY <2>1, <2>2, <2>6 DEF AtRest, Follows, Held, OwedEdits, RefsOfFirst, OfFirst
  <2> QED
    BY <1>0, <2>1, <2>3, <2>7 DEF Resting
<1>4. CASE RollbackConversation
  <2>1. /\ NoTurn' /\ ~requested' /\ domainQueue' = <<>> /\ job' \in RevertJobs
        /\ job' = [job EXCEPT !.step = "delete"]
        /\ UNCHANGED <<running, edits, reported, files, thread, refs>>
    BY <1>0, <1>4, NoTurnStays DEF RollbackConversation, RevertJobs, RevertSteps
  <2>2. AtRest /\ RevertPlan /\ OfFirst(files, conversation, m)
    BY <1>4 DEF RollbackConversation, Reverting, BeforeRollback
  <2>3. m <= n /\ job.rolledBackTurns = n - m /\ job.staleRefs = (m + 1)..n
    BY <2>2 DEF RevertPlan
  <2>4. conversation' = SubSeq(conversation, 1, m)
    <3>1. n - (n - m) = m
      BY <1>0
    <3> QED
      BY <1>4, <2>3, <3>1 DEF RollbackConversation
  <2>5. /\ conversation' \in Seq(Nat) /\ Len(conversation') = m
        /\ \A k \in 1..m : conversation'[k] = conversation[k]
    BY <1>0, <2>3, <2>4, SMTT(30) DEF TurnsInv
  <2>6. \A k \in 1..m : k \in 1..n
    BY <1>0, <2>3
  <2>7. TurnsInv'
    <3>1. Len(edits) \in Nat
      BY DEF TypeOK
    <3>2. Len(conversation') <= Len(edits')
      BY <1>0, <2>1, <2>3, <2>5, <3>1 DEF TurnsInv
    <3>3. \A k \in 1..m : conversation'[k] \in 1..Len(edits)
      BY <2>5, <2>6 DEF TurnsInv
    <3>4. \A j, k \in 1..m : conversation'[j] = conversation'[k] => j = k
      BY <2>5, <2>6 DEF TurnsInv
    <3> QED
      BY <2>1, <2>5, <3>2, <3>3, <3>4 DEF TurnsInv
  <2>8. Follows(thread, conversation, n, n) /\ Held(n) /\ DOMAIN refs \subseteq 0..n /\ RefsOfFirst(n)
    BY <2>2 DEF AtRest
  <2>9. /\ job'.turnCount = m /\ job'.staleRefs = (m + 1)..n /\ job'.step = "delete"
    BY <1>0, <2>1, <2>3 DEF RevertJobs
  <2>10. Len(thread.checkpoints) = n
    BY <2>8 DEF Follows
  <2>11. Follows(thread, conversation', n, m)
    BY <2>5, <2>6, <2>8 DEF Follows
  <2>12. Held(m)'
    BY <2>1, <2>5, <2>6, <2>8 DEF Held, OwedEdits
  <2>13. \A k \in 0..m : \A S : OfFirst(S, conversation, k) => OfFirst(S, conversation', k)
    <3> SUFFICES ASSUME NEW k \in 0..m, NEW S, OfFirst(S, conversation, k)
                 PROVE  OfFirst(S, conversation', k)
      OBVIOUS
    <3>1. \A i \in 1..k : conversation'[i] = conversation[i]
      BY <1>0, <2>5
    <3> QED
      BY <3>1 DEF OfFirst
  <2>14. RefsOfFirst(m)'
    <3>1. \A k \in DOMAIN refs : k <= m => k \in 0..m /\ k <= n
      BY <1>0, <2>3, <2>8
    <3> QED
      BY <2>1, <2>8, <2>13, <3>1 DEF RefsOfFirst
  <2>15. OfFirst(files', conversation', m)
    BY <1>0, <2>1, <2>2, <2>13
  <2>16. AfterRollback'
    <3>1. Follows(thread', conversation', n, m) /\ Len(thread'.checkpoints) = n /\ DOMAIN refs' \subseteq 0..n
      BY <2>1, <2>8, <2>10, <2>11
    <3>2. RolledBack'
      BY <2>3, <2>5, <2>12, <2>14, <2>15, <3>1 DEF RolledBack
    <3> QED
      BY <2>3, <2>5, <2>9, <3>1, <3>2 DEF AfterRollback
  <2> QED
    BY <2>1, <2>7, <2>9, <2>16 DEF Reverting
<1>5. CASE DeleteCheckpointRefs
  <2> DEFINE old == Len(thread.checkpoints)
  <2>1. /\ NoTurn' /\ ~requested' /\ domainQueue' = <<>> /\ job' \in RevertJobs
        /\ job' = [job EXCEPT !.step = "complete"]
        /\ UNCHANGED <<running, conversation, edits, reported, files, thread>>
    BY <1>0, <1>5, NoTurnStays DEF DeleteCheckpointRefs, RevertJobs, RevertSteps
  <2>2. TurnsInv'
    BY <2>1, TurnsStay, <1>0 DEF TurnsInv, NoTurn
  <2>3. AfterRollback /\ job.step = "delete"
    BY <1>5 DEF DeleteCheckpointRefs, Reverting
  <2>4. /\ m = n /\ n <= old /\ Follows(thread, conversation, old, n) /\ Held(n) /\ RefsOfFirst(n)
        /\ OfFirst(files, conversation, n) /\ DOMAIN refs \subseteq 0..old
        /\ job.staleRefs = (n + 1)..old /\ old \in Nat
    BY <2>3 DEF AfterRollback, RolledBack, TypeOK, IsThread
  <2>5. refs' = [k \in DOMAIN refs \ ((n + 1)..old) |-> refs[k]]
    BY <1>5, <2>4 DEF DeleteCheckpointRefs
  <2>6. DOMAIN refs' = DOMAIN refs \ ((n + 1)..old) /\ \A k \in DOMAIN refs' : refs'[k] = refs[k]
    BY <2>5
  <2>7. DOMAIN refs' \subseteq 0..n
    BY <1>0, <2>4, <2>6
  <2>8. \A k \in DOMAIN refs : k <= n => k \in DOMAIN refs'
    BY <1>0, <2>4, <2>6
  <2>9. Held(n)'
    <3> SUFFICES ASSUME NEW k \in 1..n
                 PROVE  /\ thread'.checkpoints[k].checkpointRef = k
                        /\ k \in DOMAIN refs' /\ OwedEdits(conversation[k])' \subseteq refs'[k]
      BY <2>1 DEF Held
    <3>1. k \in DOMAIN refs' /\ k \in DOMAIN refs
      BY <1>0, <2>4, <2>8 DEF Held
    <3> QED
      BY <2>1, <2>4, <2>6, <3>1 DEF Held, OwedEdits
  <2>10. RefsOfFirst(n)'
    BY <2>1, <2>4, <2>6 DEF RefsOfFirst
  <2>11. job'.turnCount = m /\ job'.step = "complete" /\ job'.staleRefs = job.staleRefs
    BY <1>0, <2>1 DEF RevertJobs
  <2>12. AfterRollback'
    <3>1. Len(conversation') = n /\ Len(thread'.checkpoints) = old
      BY <2>1
    <3>2. Follows(thread', conversation', old, n) /\ OfFirst(files', conversation', n)
      BY <2>1, <2>4
    <3>3. RolledBack'
      BY <2>4, <2>9, <2>10, <3>1, <3>2 DEF RolledBack
    <3> QED
      BY <2>4, <2>7, <2>11, <3>1, <3>3 DEF AfterRollback
  <2> QED
    BY <2>1, <2>2, <2>11, <2>12 DEF Reverting
<1>6. CASE CompleteRevert
  <2> DEFINE old == Len(thread.checkpoints)
             e == [type |-> "thread.reverted", turnCount |-> m]
  <2>1. /\ job' = Idle /\ dispatch(e)
        /\ UNCHANGED <<running, conversation, edits, reported, requested, files, ingestQueue,
                       runtimeQueue, refs, placeholder>>
    BY <1>6 DEF CompleteRevert
  <2>2. /\ m = n /\ n <= old /\ Follows(thread, conversation, old, n) /\ Held(n) /\ RefsOfFirst(n)
        /\ OfFirst(files, conversation, n) /\ DOMAIN refs \subseteq 0..n
        /\ old \in Nat
    BY <1>6 DEF CompleteRevert, Reverting, AfterRollback, RolledBack, TypeOK, IsThread
  <2>3. domainQueue' = <<>> /\ thread' = Patch(thread, ThreadPatch(thread, e))
    BY <1>0, <2>1 DEF dispatch
  <2>4. IsThread(thread) /\ "session" \in DOMAIN thread
    BY DEF TypeOK, TurnsInv
  <2>5. /\ thread'.session = thread.session /\ "session" \in DOMAIN thread'
        /\ Follows(thread', conversation, n, n)
        /\ \A k \in 1..n : thread'.checkpoints[k] = thread.checkpoints[k]
    <3> HIDE DEF old
    <3>0. thread' = Patch(thread, ThreadPatch(thread, [type |-> "thread.reverted", turnCount |-> n]))
      BY <2>2, <2>3
    <3> QED
      BY <1>0, <2>2, <2>4, <3>0, RevertAtEnd, SMTT(30)
  <2>6. NoTurn' /\ ~requested'
    BY <1>0, <2>1, <2>5 DEF NoTurn, Active
  <2>7. TurnsInv'
    BY <2>1, <2>5, TurnsStay
  <2>8. AtRest'
    <3>1. Held(n)'
      BY <2>1, <2>2, <2>5 DEF Held, OwedEdits
    <3>2. RefsOfFirst(n)' /\ OfFirst(files', conversation', n)
      BY <2>1, <2>2 DEF RefsOfFirst
    <3>3. Len(conversation') = n /\ Follows(thread', conversation', n, n) /\ DOMAIN refs' \subseteq 0..n
      BY <2>1, <2>2, <2>5
    <3> QED
      BY <3>1, <3>2, <3>3 DEF AtRest
  <2> QED
    BY <2>1, <2>3, <2>6, <2>7, <2>8 DEF Resting
<1> QED
  BY <1>1, <1>2, <1>3, <1>4, <1>5, <1>6, RevertingSteps DEF RevertStep

\* A revert breaks off after the rollback, and there is nothing to clear but its stale refs.
LEMMA BreakingStep ==
    ASSUME TypeOK, TurnsInv, Reverting, lost = {}, DeleteCheckpointRefsFails \/ CompleteRevertFails
    PROVE  TurnsInv' /\ (BrokenOff' \/ (lost' = {} /\ Resting'))
<1> USE DEF user, provider, queues, At
<1>n. PICK n \in Nat, old \in Nat : n = Len(conversation) /\ old = Len(thread.checkpoints)
  BY DEF TypeOK, IsThread, TurnsInv
<1> USE <1>n
<1>1. /\ NoTurn /\ ~requested /\ domainQueue = <<>> /\ AfterRollback
      /\ job.staleRefs = (n + 1)..old
  BY DEF Reverting, DeleteCheckpointRefsFails, CompleteRevertFails, AfterRollback
<1>2. /\ job' = Idle /\ lost' = job.staleRefs
      /\ UNCHANGED <<running, conversation, edits, reported, requested, files, ingestQueue,
                     domainQueue, runtimeQueue, thread, placeholder>>
  BY DEF DeleteCheckpointRefsFails, CompleteRevertFails, BreaksOff, appendRevertFailureActivity
<1>3. TurnsInv' /\ NoTurn'
  BY <1>1, <1>2, TurnsStay, NoTurnStays DEF TurnsInv
<1>4. /\ n <= old /\ Follows(thread, conversation, old, n) /\ Held(n) /\ RefsOfFirst(n)
      /\ OfFirst(files, conversation, n)
  BY <1>1 DEF AfterRollback, RolledBack
<1>5. /\ DOMAIN refs' \subseteq DOMAIN refs
      /\ \A k \in DOMAIN refs' : refs'[k] = refs[k]
      /\ \A k \in DOMAIN refs : k <= n => k \in DOMAIN refs'
  <2>1. CASE DeleteCheckpointRefsFails
    <3>1. PICK last \in 0..MaxTurns :
             refs' = [k \in DOMAIN refs \ (job.staleRefs \cap 0..last) |-> refs[k]]
      BY <2>1 DEF DeleteCheckpointRefsFails
    <3>2. \A k \in DOMAIN refs : k <= n => k \notin job.staleRefs
      BY <1>1 DEF TypeOK
    <3> QED
      BY <3>1, <3>2
  <2>2. CASE CompleteRevertFails
    BY <2>2 DEF CompleteRevertFails
  <2> QED
    BY <2>1, <2>2
<1>6. Held(n)'
  <2> SUFFICES ASSUME NEW k \in 1..n
               PROVE  /\ thread'.checkpoints[k].checkpointRef = k
                      /\ k \in DOMAIN refs' /\ OwedEdits(conversation[k])' \subseteq refs'[k]
    BY <1>2 DEF Held
  <2>1. k \in DOMAIN refs' /\ k \in DOMAIN refs
    BY <1>4, <1>5 DEF Held
  <2> QED
    BY <1>2, <1>4, <1>5, <2>1 DEF Held, OwedEdits
<1>7. RefsOfFirst(n)'
  BY <1>2, <1>4, <1>5 DEF RefsOfFirst
<1>8. RolledBack'
  <2>1. Len(conversation') = n /\ Len(thread'.checkpoints) = old
    BY <1>2
  <2>2. Follows(thread', conversation', old, n) /\ OfFirst(files', conversation', n)
    BY <1>2, <1>4
  <2> QED
    BY <1>4, <1>6, <1>7, <2>1, <2>2 DEF RolledBack
<1>9. CASE lost' # {}
  BY <1>1, <1>2, <1>3, <1>8, <1>9 DEF BrokenOff
<1>10. CASE lost' = {}
  <2>1. n = old
    <3>1. n < old => n + 1 \in (n + 1)..old
      OBVIOUS
    <3> QED
      BY <1>1, <1>2, <1>4, <1>10, <3>1
  <2>2. DOMAIN refs' \subseteq 0..n
    BY <1>1, <1>5, <2>1 DEF AfterRollback, DeleteCheckpointRefsFails, CompleteRevertFails
  <2>3. AtRest'
    BY <1>2, <1>8, <2>1, <2>2 DEF RolledBack, AtRest
  <2> QED
    BY <1>1, <1>2, <1>3, <1>10, <2>3 DEF Resting
<1> QED
  BY <1>9, <1>10

\* The user's next request disturbs, and until it comes nothing happens.
LEMMA BrokenOffStays ==
    ASSUME TypeOK, TurnsInv, BrokenOff, ~disturbed', [Next]_vars
    PROVE  TurnsInv' /\ BrokenOff'
<1>1. /\ NoTurn /\ ~requested /\ domainQueue = <<>> /\ job = Idle /\ lost # {}
  BY DEF BrokenOff
<1>2. ~SendTurn /\ ~\E turnCount \in 0..MaxTurns : RequestRevert(turnCount)
  BY <1>1 DEF SendTurn, RequestRevert
<1>3. ~StartTurn
  BY <1>1 DEF StartTurn
<1>4. ~Reactor
  <2>1. Reactor => Taking
    BY <1>1, ReactorSteps, JobKinds
  <2>2. \A type : ~TakeDomain(type)
    BY <1>1 DEF TakeDomain
  <2>3. ~Taking
    BY <1>1, <2>2, NoRuntimeSteps
    DEF Taking, ensurePreTurnBaselineFromDomainTurnStart, captureCheckpointFromPlaceholder,
        BeginRevert, RefuseRevert
  <2> QED
    BY <2>1, <2>3
<1>5. UNCHANGED vars
  BY <1>1, <1>2, <1>3, <1>4, NoTurnSteps DEF Next
<1> USE DEF vars, user, provider, queues
<1>6. TurnsInv' /\ NoTurn'
  BY <1>1, <1>5, TurnsStay, NoTurnStays DEF TurnsInv
<1>7. RolledBack'
  BY <1>5, SMTT(30) DEF BrokenOff, RolledBack, Follows, Held, RefsOfFirst, OfFirst, OwedEdits
<1> QED
  BY <1>1, <1>5, <1>6, <1>7 DEF BrokenOff

\* Only a revert that breaks off has refs to lose.
LEMMA LostStays ==
    ASSUME [Next]_vars, lost = {}, ~DeleteCheckpointRefsFails, ~CompleteRevertFails
    PROVE  lost' = {}
BY DEF Next, vars, SendTurn, RequestRevert, StartTurn, EditFiles, ReportDiff, CompleteTurn,
       Ingestion, IngestTurnStarted, IngestTurnCompleted, IngestTurnEvent, IngestDiffUpdated,
       DispatchPlaceholder, Reactor, ensurePreTurnBaselineFromDomainTurnStart,
       ensurePreTurnBaselineFromTurnStart, CaptureBaseline, BaselineFails,
       captureCheckpointFromTurnCompletion, captureCheckpointFromPlaceholder, CaptureCheckpoint,
       CaptureFails, FinalizeCapture, BeginRevert, RefuseRevert, RestoreCheckpoint, RestoreFails,
       RollbackConversation, RollbackFails, DeleteCheckpointRefs, CompleteRevert,
       TakeDomain, TakeRuntime

-----------------------------------------------------------------------------
(* A turn that was asked for *)

\* A turn that was asked for starts, or has its baseline captured before it does.
LEMMA StartingSteps ==
    ASSUME TypeOK, Starting, Next
    PROVE  StartTurn \/ ensurePreTurnBaselineFromDomainTurnStart \/ BaselineStep
<1>1. NoTurn /\ requested /\ (job = Idle \/ job \in BaselineJobs)
  BY DEF Starting
<1>2. ~SendTurn /\ ~\E turnCount \in 0..MaxTurns : RequestRevert(turnCount)
  BY <1>1 DEF SendTurn, RequestRevert
<1>3. Reactor => ensurePreTurnBaselineFromDomainTurnStart \/ BaselineStep
  <2> SUFFICES ASSUME Reactor PROVE ensurePreTurnBaselineFromDomainTurnStart \/ BaselineStep
    OBVIOUS
  <2>1. BaselineStep \/ (Taking /\ job = Idle)
    BY <1>1, ReactorSteps, JobKinds
  <2>2. ~ensurePreTurnBaselineFromTurnStart /\ ~captureCheckpointFromTurnCompletion
    BY <1>1, NoRuntimeSteps
  <2>3. ASSUME NEW type, TakeDomain(type) PROVE type = "thread.turn-start-requested"
    <3>1. domainQueue # <<>> /\ Head(domainQueue).type = type /\ domainQueue \in Seq(DomainEvents)
      BY <2>3 DEF TakeDomain, TypeOK
    <3>2. Head(domainQueue) \in TurnStarts
      BY <3>1, OneInput DEF Starting
    <3> QED
      BY <3>1, <3>2 DEF TurnStarts
  <2>4. ~BeginRevert /\ ~RefuseRevert /\ ~captureCheckpointFromPlaceholder
    BY <2>3 DEF BeginRevert, RefuseRevert, captureCheckpointFromPlaceholder
  <2> QED
    BY <2>1, <2>2, <2>4 DEF Taking
<1> QED
  BY <1>1, <1>2, <1>3, NoTurnSteps DEF Next

\* The turn starts.
LEMMA StartTurnStep ==
    ASSUME TypeOK, TurnsInv, Starting, StartTurn
    PROVE  TurnsInv' /\ Working'
<1>n. PICK n \in Nat, t \in Nat : n = Len(conversation) /\ t = Len(edits) + 1
  BY DEF TypeOK, TurnsInv
<1> USE <1>n
<1>1. NoTurn /\ requested /\ AtRest
  BY DEF Starting
<1>2. /\ ~requested' /\ running' = t /\ conversation' = Append(conversation, t)
      /\ edits' = Append(edits, 0) /\ reported' = Append(reported, 0)
      /\ UNCHANGED <<files, thread, refs, placeholder, job, domainQueue>>
      /\ Emit([type |-> "turn.started", turnId |-> t])
  BY DEF StartTurn, Emit
<1>3. /\ conversation' \in Seq(Nat) /\ Len(conversation') = n + 1 /\ conversation'[n + 1] = t
      /\ \A k \in 1..n : conversation'[k] = conversation[k]
  BY <1>2, AppendSeqFacts DEF TurnsInv
<1>4. /\ Len(edits') = t /\ edits'[t] = 0 /\ \A k \in 1..(t - 1) : edits'[k] = edits[k]
  BY <1>2, AppendSeqFacts DEF TypeOK
<1>5. /\ reported' \in Seq(Nat) /\ Len(reported') = t /\ reported'[t] = 0
      /\ \A k \in 1..(t - 1) : reported'[k] = reported[k]
  <2>1. reported \in Seq(Nat) /\ Len(reported) = t - 1
    BY DEF TurnsInv, TypeOK
  <2> QED
    BY <1>2, <2>1, AppendSeqFacts
<1>6. /\ n <= t - 1 /\ t <= MaxTurns /\ \A k \in 1..n : conversation[k] \in 1..(t - 1)
      /\ \A j, k \in 1..n : conversation[j] = conversation[k] => j = k
  BY <1>1, CheckpointAssumption DEF TurnsInv, TypeOK, CheckpointAssumption
<1>7. TurnsInv'
  <2>1. \A k \in 1..(n + 1) : conversation'[k] \in 1..t
    <3> SUFFICES ASSUME NEW k \in 1..(n + 1) PROVE conversation'[k] \in 1..t
      OBVIOUS
    <3>1. k = n + 1 \/ k \in 1..n
      OBVIOUS
    <3> QED
      BY <1>3, <1>6, <3>1
  <2>2. \A j, k \in 1..(n + 1) : conversation'[j] = conversation'[k] => j = k
    <3> SUFFICES ASSUME NEW j \in 1..(n + 1), NEW k \in 1..(n + 1), conversation'[j] = conversation'[k]
                 PROVE  j = k
      OBVIOUS
    <3>1. (k = n + 1 \/ k \in 1..n) /\ (j = n + 1 \/ j \in 1..n)
      OBVIOUS
    <3>2. \A i \in 1..n : conversation'[i] # t
      BY <1>3, <1>6
    <3> QED
      BY <1>3, <1>6, <3>1, <3>2
  <2>3. "session" \in DOMAIN thread'
    BY <1>2 DEF TurnsInv
  <2>4. Len(conversation') <= Len(edits')
    BY <1>3, <1>4, <1>6
  <2> QED
    BY <1>2, <1>3, <1>4, <1>5, <1>6, <2>1, <2>2, <2>3, <2>4, SMTT(30) DEF TurnsInv
<1>8. Turn' = t
  BY <1>3 DEF Turn
<1>9. TurnStarted'
  <2>1. t > 0
    BY <1>6
  <2> QED
    BY <1>2, <1>3, <1>4, <1>5, <1>8 DEF TurnStarted
<1>10. /\ Follows(thread, conversation, n, n) /\ Held(n) /\ DOMAIN refs \subseteq 0..n
       /\ RefsOfFirst(n) /\ OfFirst(files, conversation, n)
  BY <1>1 DEF AtRest
<1>11. Len(conversation') - 1 = n
  BY <1>3
<1>12. TurnFollows'
  <2>1. Follows(thread', conversation', n, n)
    BY <1>2, <1>3, <1>10 DEF Follows
  <2>2. Held(n)'
    <3> SUFFICES ASSUME NEW k \in 1..n
                 PROVE  /\ thread'.checkpoints[k].checkpointRef = k
                        /\ k \in DOMAIN refs' /\ OwedEdits(conversation[k])' \subseteq refs'[k]
      BY DEF Held
    <3>1. conversation'[k] = conversation[k] /\ conversation[k] \in 1..(t - 1)
      BY <1>3, <1>6
    <3>2. OwedEdits(conversation[k])' = OwedEdits(conversation[k])
      BY <1>4, <1>5, <3>1, SMTT(30) DEF OwedEdits
    <3> QED
      BY <1>2, <1>10, <3>2 DEF Held
  <2> QED
    BY <1>11, <2>1, <2>2 DEF TurnFollows
<1>13. Len(thread'.checkpoints) = n /\ n # n + 1
  BY <1>2, <1>10 DEF Follows
<1>14. TurnCheckpoint'
  BY <1>3, <1>13 DEF TurnCheckpoint
<1>15. TurnJob'
  <2>1. \/ job' = Idle
        \/ job' \in BaselineJobs /\ job'.turnCount = n /\ job'.turnCount \notin DOMAIN refs'
    BY <1>2 DEF Starting
  <2> QED
    BY <1>3, <1>11, <1>13, <2>1 DEF TurnJob
<1> DEFINE e == [type |-> "turn.started", turnId |-> t]
<1>16. /\ ingestQueue' = Append(<<>>, e) /\ runtimeQueue' = Append(<<>>, e)
  BY <1>1, <1>2 DEF Emit, NoTurn
<1>17. RuntimeOK(e)'
  BY <1>8 DEF RuntimeOK
<1>18. running' # Null
  BY <1>2, CheckpointAssumption DEF CheckpointAssumption
<1>19. TurnEvents(ingestQueue)' /\ TurnEvents(runtimeQueue)'
  <2>1. DOMAIN Append(<<>>, e) = {1} /\ Append(<<>>, e)[1] = e
    OBVIOUS
  <2> HIDE DEF e
  <2> QED
    BY <1>16, <1>17, <1>18, <2>1 DEF TurnEvents
<1>20. TurnQueues'
  <2>1. \A i \in DOMAIN domainQueue' : DomainOK(domainQueue[i])'
    <3>1. /\ domainQueue' \in Seq(DomainEvents)
          /\ domainQueue' # <<>> => Len(domainQueue') = 1 /\ domainQueue'[1] \in TurnStarts
      BY <1>2 DEF TypeOK, Starting
    <3>2. \A i \in DOMAIN domainQueue' : i = 1
      BY <3>1
    <3> QED
      BY <3>1, <3>2 DEF DomainOK
  <2> QED
    BY <1>1, <1>2, <1>19, <2>1 DEF TurnQueues, NoTurn
<1>21. TurnActive'
  BY <1>1, <1>2 DEF TurnActive, NoTurn, Active
<1>22. TurnFiles'
  <2>1. \A k \in 0..n : \A S : OfFirst(S, conversation, k) => OfFirst(S, conversation', k)
    <3> SUFFICES ASSUME NEW k \in 0..n, NEW S, OfFirst(S, conversation, k)
                 PROVE  OfFirst(S, conversation', k)
      OBVIOUS
    <3>1. \A i \in 1..k : conversation'[i] = conversation[i]
      BY <1>3
    <3> QED
      BY <3>1 DEF OfFirst
  <2>2. OfFirst(files', conversation', n)
    BY <1>2, <1>10, <2>1
  <2>3. \A k \in DOMAIN refs' : OfFirst(refs'[k], conversation', k)
    BY <1>2, <1>10, <2>1 DEF RefsOfFirst
  <2>4. edits'[Turn'] = 0 /\ DOMAIN refs' \subseteq 0..(n + 1) /\ n + 1 \notin DOMAIN refs'
    BY <1>2, <1>4, <1>8, <1>10
  <2>5. \A k \in 1..0 : FALSE
    OBVIOUS
  <2>6. /\ \A k \in 1..edits'[Turn'] : <<Turn', k>> \in files'
        /\ OfFirst(files', conversation', IF edits'[Turn'] = 0 THEN n + 1 - 1 ELSE n + 1)
    BY <1>3, <2>2, <2>4, <2>5
  <2> QED
    BY <1>3, <2>3, <2>4, <2>6 DEF TurnFiles, RefsOfFirst
<1>23. TurnEnds'
  BY <1>18 DEF TurnEnds
<1> QED
  BY <1>7, <1>9, <1>12, <1>14, <1>15, <1>20, <1>21, <1>22, <1>23 DEF Working

\* The turn has the conversation's next place, with the baseline there, once it starts.
LEMMA StartingStep ==
    ASSUME TypeOK, TurnsInv, Starting, [Next]_vars
    PROVE  TurnsInv' /\ (Starting' \/ Working')
<1> USE DEF user, provider, queues
<1>n. PICK n \in Nat : n = Len(conversation)
  BY DEF TurnsInv
<1> USE <1>n
<1>0. NoTurn /\ requested /\ AtRest
  BY DEF Starting
<1>10. /\ Follows(thread, conversation, n, n) /\ Held(n) /\ DOMAIN refs \subseteq 0..n
       /\ RefsOfFirst(n) /\ OfFirst(files, conversation, n)
  BY <1>0 DEF AtRest
<1>1. CASE UNCHANGED vars
  <2>1. TurnsInv'
    BY <1>1, TurnsStay DEF vars, TurnsInv
  <2>2. AtRest' /\ NoTurn'
    BY <1>0, <1>1, RestStays, NoTurnStays DEF vars
  <2> QED
    BY <1>1, <2>1, <2>2 DEF vars, Starting
<1>2. CASE StartTurn
  BY <1>2, StartTurnStep
<1>3. CASE ensurePreTurnBaselineFromDomainTurnStart
  <2>1. TakeDomain("thread.turn-start-requested") /\ EnsureBaseline
    BY <1>3 DEF ensurePreTurnBaselineFromDomainTurnStart
  <2>2. AtRest' /\ NoTurn' /\ requested' /\ conversation' = conversation /\ refs' = refs
    BY <1>0, <2>1, RestStays, NoTurnStays DEF TakeDomain
  <2>3. TurnsInv'
    BY <2>1, TurnsStay DEF TakeDomain, TurnsInv
  <2>4. domainQueue' = <<>> /\ job = Idle
    <3>1. domainQueue # <<>> /\ domainQueue' = Tail(domainQueue) /\ domainQueue \in Seq(DomainEvents)
      BY <2>1 DEF TakeDomain, TypeOK
    <3> QED
      BY <3>1, OneInput DEF Starting
  <2>5. currentTurnCount(thread) = n
    BY <1>10, CountFollows DEF TypeOK
  <2>6. \/ job' = Idle
        \/ job' \in BaselineJobs /\ job'.turnCount = n /\ n \notin DOMAIN refs
    BY <2>1, <2>5 DEF EnsureBaseline, BaselineJobs
  <2> QED
    BY <2>2, <2>3, <2>4, <2>6 DEF Starting
<1>4. CASE BaselineFails
  <2>1. AtRest' /\ NoTurn' /\ requested'
    BY <1>0, <1>4, RestStays, NoTurnStays DEF BaselineFails
  <2>2. TurnsInv'
    BY <1>4, TurnsStay DEF BaselineFails, TurnsInv
  <2>3. job' = Idle /\ domainQueue' = <<>>
    <3>1. job # Idle
      BY <1>4 DEF BaselineFails, At, Idle
    <3> QED
      BY <1>4, <3>1 DEF BaselineFails, Starting
  <2> QED
    BY <2>1, <2>2, <2>3 DEF Starting
<1>5. CASE CaptureBaseline
  <2>1. /\ job' = Idle /\ refs' = Put(refs, job.turnCount, files)
        /\ UNCHANGED <<running, conversation, edits, reported, requested, files, ingestQueue,
                       domainQueue, runtimeQueue, thread, placeholder>>
    BY <1>5 DEF CaptureBaseline
  <2>2. job.turnCount = n /\ n \notin DOMAIN refs /\ domainQueue = <<>>
    <3>1. job # Idle
      BY <1>5 DEF CaptureBaseline, At, Idle
    <3> QED
      BY <3>1 DEF Starting
  <2>3. /\ DOMAIN refs' = DOMAIN refs \cup {n} /\ refs'[n] = files
        /\ \A k \in DOMAIN refs : refs'[k] = refs[k]
    BY <2>1, <2>2 DEF Put
  <2>4. TurnsInv'
    BY <2>1, TurnsStay DEF TurnsInv
  <2>5. NoTurn'
    BY <1>0, <2>1, NoTurnStays
  <2>6. AtRest'
    <3>1. Held(n)'
      BY <1>10, <2>1, <2>3 DEF Held, OwedEdits
    <3>2. RefsOfFirst(n)'
      BY <1>10, <2>1, <2>3 DEF RefsOfFirst
    <3>3. DOMAIN refs' \subseteq 0..n
      BY <1>10, <2>3
    <3> QED
      BY <1>10, <2>1, <3>1, <3>2, <3>3 DEF AtRest
  <2> QED
    BY <1>0, <2>1, <2>2, <2>4, <2>5, <2>6 DEF Starting
<1> QED
  BY <1>1, <1>2, <1>3, <1>4, <1>5, StartingSteps DEF BaselineStep

-----------------------------------------------------------------------------
(* The turn at work: what a step leaves alone *)

\* A step of the ingestion or of the reactor, which are told of the turn and do not change it.
Watched == UNCHANGED <<provider, requested>> /\ "session" \in DOMAIN thread'

\* Only the ref of the turn may be captured again.
RefsKept ==
    \A k \in DOMAIN refs :
        k \in DOMAIN refs' /\ (k # Len(conversation) => refs'[k] = refs[k])

\* The turn at work is the same as long as the provider, the conversation and the edits are.
LEMMA SameTurn ==
    ASSUME UNCHANGED <<conversation, running, reported, edits>>
    PROVE  Turn' = Turn /\ Told' = Told /\ \A turn : OwedEdits(turn)' = OwedEdits(turn)
BY DEF Turn, Told, OwedEdits

\* A step that leaves those alone keeps the turn and its place.
LEMMA WatchedTurn ==
    ASSUME Watched, TurnsInv, TurnStarted
    PROVE  TurnsInv' /\ TurnStarted' /\ Turn' = Turn /\ Told' = Told
<1> USE DEF Watched, provider
<1>1. TurnsInv'
  BY TurnsStay
<1>2. Turn' = Turn /\ Told' = Told
  BY SameTurn
<1>3. TurnStarted'
  BY <1>2 DEF TurnStarted
<1> QED
  BY <1>1, <1>2, <1>3

\* It keeps each part of the invariant whose state it leaves alone: the checkpoints,
LEMMA FollowsStay ==
    ASSUME Watched, TurnsInv, TurnFollows, thread'.checkpoints = thread.checkpoints, RefsKept
    PROVE  TurnFollows'
<1> USE DEF Watched, provider
<1>n. PICK n \in Nat : n = Len(conversation)
  BY DEF TurnsInv
<1>1. Len(conversation') = n /\ conversation' = conversation
  BY <1>n
<1>2. Follows(thread, conversation, n - 1, n - 1)' <=> Follows(thread, conversation, n - 1, n - 1)
  BY <1>1 DEF Follows
<1>3. Follows(thread, conversation, n, n)' <=> Follows(thread, conversation, n, n)
  BY <1>1 DEF Follows
<1>4. Held(n - 1)'
  <2> SUFFICES ASSUME NEW k \in 1..(n - 1)
               PROVE  /\ thread'.checkpoints[k].checkpointRef = k
                      /\ k \in DOMAIN refs' /\ OwedEdits(conversation[k])' \subseteq refs'[k]
    BY DEF Held
  <2>1. /\ thread.checkpoints[k].checkpointRef = k
        /\ k \in DOMAIN refs /\ OwedEdits(conversation[k]) \subseteq refs[k]
    BY <1>n DEF TurnFollows, Held
  <2>2. k \in DOMAIN refs' /\ refs'[k] = refs[k]
    BY <1>n, <2>1 DEF RefsKept
  <2>3. OwedEdits(conversation[k])' = OwedEdits(conversation[k])
    BY <1>1 DEF OwedEdits
  <2> QED
    BY <2>1, <2>2, <2>3
<1>5. \/ Follows(thread, conversation, n - 1, n - 1)
      \/ Follows(thread, conversation, n, n)
  BY <1>n DEF TurnFollows
<1> QED
  BY <1>1, <1>2, <1>3, <1>4, <1>5 DEF TurnFollows

\* what holds of the turn's own checkpoint,
LEMMA CheckpointStays ==
    ASSUME Watched, TurnCheckpoint, thread'.checkpoints = thread.checkpoints, RefsKept,
           Captures \/ PlaceholderWaits => (Captures \/ PlaceholderWaits)'
    PROVE  TurnCheckpoint'
<1>1. Told' = Told /\ conversation' = conversation
  BY SameTurn DEF Watched, provider
<1> QED
  BY <1>1 DEF TurnCheckpoint, RefsKept

\* the job in work,
LEMMA JobStays ==
    ASSUME Watched, TurnJob, UNCHANGED <<job, refs>>
    PROVE  TurnJob'
<1>1. Told' = Told /\ Turn' = Turn /\ conversation' = conversation
  BY SameTurn DEF Watched, provider
<1> QED
  BY <1>1 DEF TurnJob, OfTurn

\* the files and the refs,
LEMMA FilesStay ==
    ASSUME Watched, TurnFiles, UNCHANGED refs
    PROVE  TurnFiles'
<1>1. /\ Told' = Told /\ Turn' = Turn /\ conversation' = conversation /\ edits' = edits
      /\ files' = files /\ OwedEdits(Turn)' = OwedEdits(Turn)
  BY SameTurn DEF Watched, provider, Turn, OwedEdits
<1> QED
  BY <1>1 DEF TurnFiles, RefsOfFirst, OfFirst

\* what is still to come of a turn that has ended,
LEMMA EndsStay ==
    ASSUME Watched, TurnEnds, thread'.checkpoints = thread.checkpoints,
           runtimeQueue # <<>> \/ Captures => runtimeQueue' # <<>> \/ Captures'
    PROVE  TurnEnds'
BY DEF TurnEnds, Watched, provider

\* and the turn the session is said to work on.
LEMMA ActiveStays ==
    ASSUME Watched, TurnActive, Active(thread)' = Active(thread), running = Null => ingestQueue' = ingestQueue
    PROVE  TurnActive'
<1>1. Turn' = Turn
  BY SameTurn DEF Watched, provider
<1> QED
  BY <1>1 DEF TurnActive, Watched, provider

\* The queues, that keep what they have or lose the first.
LEMMA TailOf ==
    ASSUME NEW S, NEW q \in Seq(S), q # <<>>
    PROVE  /\ Len(q) \in Nat /\ Len(q) > 0 /\ DOMAIN q = 1..Len(q) /\ Head(q) = q[1]
           /\ Tail(q) \in Seq(S) /\ DOMAIN Tail(q) = 1..(Len(q) - 1) /\ Len(Tail(q)) = Len(q) - 1
           /\ \A i \in 1..(Len(q) - 1) : Tail(q)[i] = q[i + 1]
           /\ Tail(q) # <<>> => Len(q) > 1 /\ Last(Tail(q)) = Last(q)
           /\ Tail(q) = <<>> => Last(q) = Head(q)
<1>1. /\ Len(q) \in Nat /\ Len(q) > 0 /\ DOMAIN q = 1..Len(q) /\ Head(q) = q[1]
      /\ Tail(q) \in Seq(S) /\ DOMAIN Tail(q) = 1..(Len(q) - 1) /\ Len(Tail(q)) = Len(q) - 1
      /\ \A i \in 1..(Len(q) - 1) : Tail(q)[i] = q[i + 1]
  OBVIOUS
<1>2. \A s \in Seq(S) : s = <<>> <=> Len(s) = 0
  OBVIOUS
<1>3. Tail(q) # <<>> => Len(q) > 1
  BY <1>1, <1>2
<1>4. Len(q) > 1 => Last(Tail(q)) = Last(q)
  BY <1>1 DEF Last
<1>5. Tail(q) = <<>> => Len(q) = 1
  BY <1>1, <1>2
<1> QED
  BY <1>1, <1>3, <1>4, <1>5 DEF Last

\* Events of the turn stay events of the turn, and those behind the first do.
LEMMA EventsStay ==
    ASSUME Watched, NEW q, TurnEvents(q)
    PROVE  TurnEvents(q)'
<1>1. Turn' = Turn /\ Told' = Told /\ running' = running
  BY SameTurn DEF Watched, provider
<1> QED
  BY <1>1 DEF TurnEvents, RuntimeOK

LEMMA EventsTail ==
    ASSUME Watched, NEW q \in Seq(RuntimeEvents), TurnEvents(q), q # <<>>
    PROVE  /\ TurnEvents(Tail(q))'
           /\ RuntimeOK(Head(q))
           /\ running = Null /\ Head(q).type # "turn.completed" => Tail(q) # <<>>
<1>1. /\ Len(q) \in Nat /\ Len(q) > 0 /\ DOMAIN q = 1..Len(q) /\ Head(q) = q[1]
      /\ DOMAIN Tail(q) = 1..(Len(q) - 1)
      /\ \A i \in 1..(Len(q) - 1) : Tail(q)[i] = q[i + 1]
      /\ Tail(q) # <<>> => Last(Tail(q)) = Last(q)
      /\ Tail(q) = <<>> => Last(q) = Head(q)
  BY TailOf
<1>2. TurnEvents(Tail(q))
  <2>1. \A i \in DOMAIN Tail(q) : i + 1 \in DOMAIN q /\ Tail(q)[i] = q[i + 1]
    BY <1>1
  <2> QED
    BY <1>1, <2>1 DEF TurnEvents
<1>3. TurnEvents(Tail(q))'
  BY <1>2, EventsStay
<1>4. RuntimeOK(Head(q)) /\ (running = Null => Last(q).type = "turn.completed")
  BY <1>1 DEF TurnEvents
<1> QED
  BY <1>1, <1>3, <1>4

\* So do the inputs of the reactor.
LEMMA DomainStays ==
    ASSUME Watched, NEW e
    PROVE  (DomainOK(e)' <=> DomainOK(e)) /\ (OfTurn(e)' <=> OfTurn(e)) /\ Told' = Told
<1>1. Turn' = Turn /\ Told' = Told /\ conversation' = conversation
  BY SameTurn DEF Watched, provider
<1> QED
  BY <1>1 DEF DomainOK, OfTurn

\* The user asks for nothing during a turn, and not before the reactor is done.
LEMMA WorkDone ==
    ASSUME TypeOK, TurnsInv, Working, Quiet
    PROVE  NoTurn /\ AtRest
<1>n. PICK n \in Nat : n = Len(conversation)
  BY DEF TurnsInv
<1>1. /\ job = Idle /\ placeholder = NoEvent /\ ingestQueue = <<>> /\ domainQueue = <<>>
      /\ runtimeQueue = <<>> /\ running = Null /\ ~requested
  BY DEF Quiet, Settled
<1>2. ~Captures /\ ~PlaceholderWaits
  BY <1>1, JobKinds DEF Captures, PlaceholderWaits
<1>3. Len(thread.checkpoints) = n /\ n > 0
  BY <1>n, <1>1, <1>2 DEF Working, TurnEnds, TurnStarted
<1>4. Follows(thread, conversation, n, n) /\ Held(n - 1)
  <2>1. n - 1 # n
    OBVIOUS
  <2> QED
    BY <1>n, <1>3, <2>1 DEF Working, TurnFollows, Follows
<1>5. thread.checkpoints[n].checkpointRef = n /\ n \in DOMAIN refs
  BY <1>n, <1>2, <1>3 DEF Working, TurnCheckpoint
<1>6. Held(n)
  <2>1. OwedEdits(conversation[n]) \subseteq refs[n]
    BY <1>n, <1>5 DEF Working, TurnFiles, Turn
  <2> SUFFICES ASSUME NEW k \in 1..n
               PROVE  /\ thread.checkpoints[k].checkpointRef = k
                      /\ k \in DOMAIN refs /\ OwedEdits(conversation[k]) \subseteq refs[k]
    BY DEF Held
  <2>2. k = n \/ k \in 1..(n - 1)
    OBVIOUS
  <2> QED
    BY <1>4, <1>5, <2>1, <2>2 DEF Held
<1>7. OfFirst(files, conversation, n)
  BY <1>n, OfMore DEF Working, TurnFiles
<1>8. AtRest
  BY <1>n, <1>4, <1>6, <1>7 DEF Working, TurnFiles, AtRest
<1>9. Active(thread) = Null
  BY <1>1 DEF Working, TurnActive
<1> QED
  BY <1>1, <1>8, <1>9 DEF NoTurn

-----------------------------------------------------------------------------
(* The turn at work: the provider's steps *)

\* The facts of a turn that is at work.
LEMMA AtWork ==
    ASSUME TypeOK, TurnsInv, Working, running # Null
    PROVE  /\ running = Turn /\ Turn \in Nat \ {0} /\ Turn = Len(edits) /\ Turn = Len(reported)
           /\ Turn \in DOMAIN edits /\ Turn \in DOMAIN reported
           /\ edits[Turn] \in Nat /\ reported[Turn] \in Nat /\ reported[Turn] <= edits[Turn]
           /\ \A k \in 1..(Len(conversation) - 1) : conversation[k] # Turn
<1>n. PICK n \in Nat : n = Len(conversation)
  BY DEF TurnsInv
<1>1. n > 0 /\ running = Turn /\ Turn = Len(edits) /\ reported[Turn] <= edits[Turn]
  BY <1>n DEF Working, TurnStarted
<1>2. Turn \in 1..Len(edits) /\ \A k \in 1..(n - 1) : conversation[k] # Turn
  <2>1. n \in 1..n /\ \A k \in 1..(n - 1) : k \in 1..n /\ k # n
    BY <1>1
  <2> QED
    BY <1>n, <2>1 DEF TurnsInv, Turn
<1>3. edits \in Seq(Nat) /\ reported \in Seq(Nat) /\ Len(reported) = Len(edits)
  BY DEF TypeOK, TurnsInv
<1> QED
  BY <1>n, <1>1, <1>2, <1>3

\* The turns before have what they are owed.
LEMMA OwedBefore ==
    ASSUME \A k \in 1..(Len(conversation) - 1) : conversation[k] # Turn,
           \A turn : turn # Turn => edits'[turn] = edits[turn] /\ reported'[turn] = reported[turn],
           UNCHANGED <<conversation, thread, refs>>, TurnFollows
    PROVE  TurnFollows'
<1>1. Held(Len(conversation) - 1)'
  <2> DEFINE n == Len(conversation)
  <2> SUFFICES ASSUME NEW k \in 1..(n - 1)
               PROVE  /\ thread'.checkpoints[k].checkpointRef = k
                      /\ k \in DOMAIN refs' /\ OwedEdits(conversation[k])' \subseteq refs'[k]
    BY DEF Held
  <2>1. OwedEdits(conversation[k])' = OwedEdits(conversation[k])
    BY DEF OwedEdits
  <2> QED
    BY <2>1 DEF TurnFollows, Held
<1> QED
  BY <1>1 DEF TurnFollows, Follows

\* An edit after the first report is owed by no checkpoint, and none is captured before it.
LEMMA EditFilesStep ==
    ASSUME TypeOK, TurnsInv, Working, EditFiles, ~disturbed'
    PROVE  TurnsInv' /\ Working'
<1> USE DEF queues
<1>n. PICK n \in Nat, t \in Nat \ {0} : n = Len(conversation) /\ t = Turn
  BY AtWork DEF TurnsInv, EditFiles
<1>1. /\ running = t /\ t = Len(edits) /\ edits[t] \in Nat /\ reported[t] \in Nat /\ reported[t] <= edits[t]
      /\ t \in DOMAIN edits /\ t = Len(reported) /\ n > 0
      /\ \A k \in 1..(n - 1) : conversation[k] # t
  BY <1>n, AtWork DEF EditFiles, Working, TurnStarted
<1>2. /\ edits' = [edits EXCEPT ![t] = edits[t] + 1]
      /\ files' = files \cup {<<t, edits'[t]>>}
      /\ n - 1 \in DOMAIN refs
      /\ UNCHANGED <<requested, running, conversation, reported, ingestQueue, domainQueue,
                     runtimeQueue, thread, refs, placeholder, job>>
  BY <1>n, <1>1 DEF EditFiles
<1>3. /\ Len(edits') = t /\ edits'[t] = edits[t] + 1
      /\ \A k \in DOMAIN edits : k # t => edits'[k] = edits[k]
      /\ DOMAIN edits' = DOMAIN edits
  <2>1. PICK more \in Nat : more = edits[t] + 1
    BY <1>1
  <2>2. edits \in Seq(Nat) /\ edits' = [edits EXCEPT ![t] = more]
    BY <1>2, <2>1 DEF TypeOK
  <2>3. /\ Len(edits') = Len(edits) /\ DOMAIN edits' = DOMAIN edits
        /\ edits'[t] = more /\ \A k \in DOMAIN edits : k # t => edits'[k] = edits[k]
    <3>1. t \in DOMAIN edits
      BY <1>1
    <3>2. PICK q \in Seq(Nat) : q = edits
      BY <2>2
    <3> DEFINE new == [q EXCEPT ![t] = more]
    <3>3. /\ Len(new) = Len(q) /\ DOMAIN new = DOMAIN q
          /\ new[t] = more /\ \A k \in DOMAIN q : k # t => new[k] = q[k]
      BY <3>1, <3>2, ExceptFacts
    <3>4. edits' = new
      BY <2>2, <3>2
    <3> HIDE DEF new
    <3> QED
      BY <3>2, <3>3, <3>4
  <2> QED
    BY <1>1, <2>1, <2>3
<1>4. \A k : k # t => edits'[k] = edits[k]
  BY <1>2, <1>3
<1>5. TurnsInv'
  BY <1>1, <1>2, <1>3 DEF TurnsInv
<1>6. Turn' = t /\ (Told' <=> Told)
  BY <1>n, <1>2 DEF Turn, Told
<1>7. TurnStarted'
  BY <1>n, <1>1, <1>2, <1>3, <1>6 DEF Working, TurnStarted
<1>8. TurnFollows'
  BY <1>n, <1>1, <1>2, <1>4, OwedBefore DEF Working
<1>9. TurnCheckpoint' /\ TurnEnds'
  BY <1>2, <1>6 DEF Working, TurnCheckpoint, TurnEnds, Captures, PlaceholderWaits
<1>10. TurnJob' /\ TurnActive'
  BY <1>n, <1>2, <1>6 DEF Working, TurnJob, OfTurn, TurnActive, Active
<1>11. TurnQueues'
  BY <1>n, <1>2, <1>6 DEF Working, TurnQueues, TurnEvents, RuntimeOK, DomainOK, OfTurn
<1>12. TurnFiles'
  <2>1. \A k \in 1..edits'[t] : <<t, k>> \in files'
    <3> SUFFICES ASSUME NEW k \in 1..edits'[t] PROVE <<t, k>> \in files'
      OBVIOUS
    <3>1. k = edits'[t] \/ k \in 1..edits[t]
      BY <1>1, <1>3
    <3> QED
      BY <1>n, <1>2, <3>1 DEF Working, TurnFiles
  <2>2. OfFirst(files', conversation', n)
    <3>1. OfFirst(files, conversation, n)
      BY <1>n, OfMore DEF Working, TurnFiles
    <3>2. n \in 1..n /\ t = conversation[n]
      BY <1>n, <1>1 DEF Turn
    <3>3. \A edit \in files' : edit \in files \/ edit = <<t, edits'[t]>>
      BY <1>2
    <3> QED
      BY <1>2, <3>1, <3>2, <3>3 DEF OfFirst
  <2>3. RefsOfFirst(n)' /\ DOMAIN refs' \subseteq 0..n
    BY <1>n, <1>2 DEF Working, TurnFiles, RefsOfFirst
  <2>4. n \in DOMAIN refs' => Told' /\ OwedEdits(Turn)' \subseteq refs'[n]
    <3> SUFFICES ASSUME n \in DOMAIN refs PROVE Told' /\ OwedEdits(Turn)' \subseteq refs'[n]
      BY <1>2
    <3>1. Told /\ OwedEdits(t) \subseteq refs[n]
      BY <1>n DEF Working, TurnFiles
    <3>2. reported[t] # 0
      BY <1>n, <1>1, <3>1, CheckpointAssumption DEF Told, CheckpointAssumption
    <3>3. OwedEdits(Turn)' = OwedEdits(t)
      BY <1>2, <1>6, <3>2 DEF OwedEdits
    <3> QED
      BY <1>2, <1>6, <3>1, <3>3
  <2>5. edits'[Turn'] # 0
    BY <1>1, <1>3, <1>6
  <2>6. Len(conversation') = n
    BY <1>n, <1>2
  <2>7. n - 1 \in DOMAIN refs' /\ \A k \in 1..edits'[Turn'] : <<Turn', k>> \in files'
    BY <1>2, <1>6, <2>1
  <2> QED
    BY <2>2, <2>3, <2>4, <2>5, <2>6, <2>7 DEF TurnFiles
<1> QED
  BY <1>5, <1>7, <1>8, <1>9, <1>10, <1>11, <1>12 DEF Working

\* What an event of the turn adds to the queues.
LEMMA EventsAppend ==
    ASSUME NEW q \in Seq(RuntimeEvents), NEW e \in RuntimeEvents,
           \A i \in DOMAIN q : RuntimeOK(q[i]),
           Turn' = Turn, Told => Told', running = Null => running' = Null, RuntimeOK(e)',
           running' = Null => e.type = "turn.completed"
    PROVE  TurnEvents(Append(q, e))' /\ Append(q, e) # <<>>
<1> DEFINE more == Append(q, e)
<1>1. /\ Len(q) \in Nat /\ DOMAIN q = 1..Len(q) /\ Len(more) = Len(q) + 1 /\ DOMAIN more = 1..(Len(q) + 1)
      /\ more[Len(q) + 1] = e /\ (\A i \in 1..Len(q) : more[i] = q[i]) /\ more # <<>>
  BY AppendSeqFacts
<1> HIDE DEF more
<1>2. \A i \in DOMAIN more : RuntimeOK(more[i])'
  <2> SUFFICES ASSUME NEW i \in DOMAIN more PROVE RuntimeOK(more[i])'
    OBVIOUS
  <2>1. CASE i = Len(q) + 1
    BY <1>1, <2>1 DEF more
  <2>2. CASE i \in 1..Len(q)
    <3>1. RuntimeOK(q[i]) /\ more[i] = q[i]
      BY <1>1, <2>2
    <3>2. RuntimeOK(more[i])
      BY <3>1
    <3> QED
      BY <3>2 DEF RuntimeOK
  <2> QED
    BY <1>1, <2>1, <2>2
<1>3. Last(more) = e
  BY <1>1 DEF Last
<1>4. TurnEvents(more)'
  BY <1>2, <1>3 DEF TurnEvents
<1> QED
  BY <1>1, <1>4 DEF more

\* The first report fixes what the turn's checkpoint must hold, before it is captured.
LEMMA ReportDiffStep ==
    ASSUME TypeOK, TurnsInv, Working, ReportDiff
    PROVE  TurnsInv' /\ Working'
<1> USE DEF user
<1>n. PICK n \in Nat, t \in Nat \ {0} : n = Len(conversation) /\ t = Turn
  BY AtWork DEF TurnsInv, ReportDiff
<1>1. /\ running = t /\ t = Len(edits) /\ edits[t] \in Nat \ {0} /\ reported[t] = 0
      /\ t \in DOMAIN reported /\ t = Len(reported) /\ n > 0 /\ running # Null
      /\ \A k \in 1..(n - 1) : conversation[k] # t
  BY <1>n, AtWork DEF ReportDiff, Working, TurnStarted
<1> DEFINE e == [type |-> "turn.diff.updated", turnId |-> t]
<1>2. /\ reported' = [reported EXCEPT ![t] = edits[t]]
      /\ Emit(e)
      /\ UNCHANGED <<requested, running, conversation, edits, files, thread, refs, placeholder, job>>
  BY <1>1 DEF ReportDiff
<1>3. /\ reported' \in Seq(Nat) /\ Len(reported') = t /\ reported'[t] = edits[t]
      /\ DOMAIN reported' = DOMAIN reported
      /\ \A k \in DOMAIN reported : k # t => reported'[k] = reported[k]
  BY <1>1, <1>2, ExceptFacts DEF TurnsInv
<1>4. \A k : k # t => reported'[k] = reported[k]
  BY <1>2, <1>3
<1>5. TurnsInv'
  BY <1>1, <1>2, <1>3 DEF TurnsInv
<1>6. Turn' = t /\ Told' /\ ~Told
  BY <1>n, <1>1, <1>2, <1>3 DEF Turn, Told
<1>7. TurnStarted'
  <2>1. reported'[Turn'] <= edits'[Turn']
    BY <1>1, <1>2, <1>3, <1>6
  <2>2. running' = Turn' /\ Turn' = Len(edits') /\ Len(conversation') > 0 /\ ~requested'
    BY <1>n, <1>1, <1>2, <1>6 DEF Working, TurnStarted
  <2> QED
    BY <2>1, <2>2 DEF TurnStarted
<1>8. TurnFollows'
  BY <1>n, <1>1, <1>2, <1>4, OwedBefore DEF Working
<1>9. /\ ingestQueue' = Append(ingestQueue, e) /\ runtimeQueue' = runtimeQueue
      /\ domainQueue' = domainQueue
  BY <1>2 DEF Emit
<1>10. TurnCheckpoint' /\ TurnEnds'
  BY <1>2, <1>6, <1>9 DEF Working, TurnCheckpoint, TurnEnds, Captures, PlaceholderWaits
<1>11. TurnJob' /\ TurnActive'
  BY <1>n, <1>1, <1>2, <1>6 DEF Working, TurnJob, OfTurn, TurnActive, Active
<1>12. TurnQueues'
  <2>1. RuntimeOK(e)' /\ e \in RuntimeEvents
    BY <1>1, <1>2, <1>6 DEF RuntimeOK, RuntimeEvents
  <2> HIDE DEF e
  <2>2. ingestQueue \in Seq(RuntimeEvents) /\ \A i \in DOMAIN ingestQueue : RuntimeOK(ingestQueue[i])
    BY DEF TypeOK, Working, TurnQueues, TurnEvents
  <2>4. TurnEvents(ingestQueue)'
    BY <1>9, <2>1, <2>2, <1>n, <1>1, <1>2, <1>6, EventsAppend DEF TurnEvents
  <2>5. TurnEvents(runtimeQueue)'
    BY <1>n, <1>1, <1>2, <1>6, <1>9 DEF Working, TurnQueues, TurnEvents, RuntimeOK
  <2>6. \A i \in DOMAIN domainQueue' : DomainOK(domainQueue[i])'
    BY <1>n, <1>2, <1>6, <1>9 DEF Working, TurnQueues, DomainOK, OfTurn
  <2>7. placeholder' # NoEvent => OfTurn(placeholder)' /\ Told'
    BY <1>n, <1>2, <1>6 DEF Working, TurnQueues, OfTurn
  <2> QED
    BY <2>4, <2>5, <2>6, <2>7 DEF TurnQueues
<1>13. TurnFiles'
  <2>1. OwedEdits(t)' = OwedEdits(t)
    BY <1>1, <1>2, <1>3 DEF OwedEdits
  <2>2. n \notin DOMAIN refs
    BY <1>n, <1>6 DEF Working, TurnFiles
  <2> QED
    BY <1>n, <1>2, <1>6, <2>2 DEF Working, TurnFiles, RefsOfFirst, OfFirst
<1> QED
  BY <1>5, <1>7, <1>8, <1>10, <1>11, <1>12, <1>13 DEF Working

\* The turn ends, in any state: its end is behind all else that waits.
LEMMA CompleteTurnStep ==
    ASSUME TypeOK, TurnsInv, Working, NEW state \in EndStates, CompleteTurn(state)
    PROVE  TurnsInv' /\ Working'
<1> USE DEF user
<1>n. PICK n \in Nat, t \in Nat \ {0} : n = Len(conversation) /\ t = Turn
  BY AtWork DEF TurnsInv, CompleteTurn
<1>1. running = t /\ running # Null
  BY <1>n, AtWork DEF CompleteTurn
<1> DEFINE e == [type |-> "turn.completed", turnId |-> t, state |-> state]
<1>2. /\ running' = Null /\ Emit(e)
      /\ UNCHANGED <<requested, reported, conversation, edits, files, thread, refs, placeholder, job>>
  BY <1>1 DEF CompleteTurn
<1>3. Turn' = t /\ Told'
  BY <1>n, <1>2 DEF Turn, Told
<1>5. TurnsInv'
  BY <1>1, <1>2 DEF TurnsInv
<1>7. TurnStarted'
  BY <1>n, <1>1, <1>2, <1>3 DEF Working, TurnStarted
<1>8. TurnFollows'
  BY <1>2 DEF Working, TurnFollows, Follows, Held, OwedEdits
<1>9. /\ ingestQueue' = Append(ingestQueue, e) /\ runtimeQueue' = Append(runtimeQueue, e)
      /\ domainQueue' = domainQueue
  BY <1>2 DEF Emit
<1>4. RuntimeOK(e)' /\ e \in RuntimeEvents /\ e.type = "turn.completed"
  BY <1>2, <1>3 DEF RuntimeOK, RuntimeEvents
<1> HIDE DEF e
<1>6. /\ TurnEvents(ingestQueue)' /\ TurnEvents(runtimeQueue)'
      /\ ingestQueue' # <<>> /\ runtimeQueue' # <<>>
  <2>1. /\ ingestQueue \in Seq(RuntimeEvents) /\ \A i \in DOMAIN ingestQueue : RuntimeOK(ingestQueue[i])
        /\ runtimeQueue \in Seq(RuntimeEvents) /\ \A i \in DOMAIN runtimeQueue : RuntimeOK(runtimeQueue[i])
    BY DEF TypeOK, Working, TurnQueues, TurnEvents
  <2>2. \A q \in Seq(RuntimeEvents) : (\A i \in DOMAIN q : RuntimeOK(q[i]))
          => TurnEvents(Append(q, e))' /\ Append(q, e) # <<>>
    BY <1>n, <1>2, <1>3, <1>4, EventsAppend
  <2> QED
    BY <1>9, <2>1, <2>2 DEF TurnEvents
<1>10. TurnCheckpoint' /\ TurnEnds'
  BY <1>2, <1>3, <1>6, <1>9 DEF Working, TurnCheckpoint, TurnEnds, Captures, PlaceholderWaits
<1>11. TurnJob' /\ TurnActive'
  BY <1>n, <1>2, <1>3, <1>6 DEF Working, TurnJob, OfTurn, TurnActive, Active
<1>12. TurnQueues'
  <2>6. \A i \in DOMAIN domainQueue' : DomainOK(domainQueue[i])'
    BY <1>n, <1>2, <1>3, <1>9 DEF Working, TurnQueues, DomainOK, OfTurn
  <2>7. placeholder' # NoEvent => OfTurn(placeholder)' /\ Told'
    BY <1>n, <1>2, <1>3 DEF Working, TurnQueues, OfTurn
  <2> QED
    BY <1>6, <2>6, <2>7 DEF TurnQueues
<1>13. TurnFiles'
  BY <1>n, <1>2, <1>3 DEF Working, TurnFiles, RefsOfFirst, OfFirst, OwedEdits
<1> QED
  BY <1>5, <1>7, <1>8, <1>10, <1>11, <1>12, <1>13 DEF Working

-----------------------------------------------------------------------------
(* The turn at work: the ingestion's steps *)

\* The queues of the others, and what the ingestion takes.
LEMMA QueuesStay ==
    ASSUME Watched, TurnQueues, UNCHANGED runtimeQueue,
           TurnEvents(ingestQueue)',
           domainQueue' = domainQueue,
           placeholder' # NoEvent => OfTurn(placeholder)' /\ Told'
    PROVE  TurnQueues'
<1>1. TurnEvents(runtimeQueue)'
  <2>1. Turn' = Turn /\ Told' = Told /\ running' = running
    BY SameTurn DEF Watched, provider
  <2> QED
    BY <2>1 DEF TurnQueues, TurnEvents, RuntimeOK
<1>2. \A i \in DOMAIN domainQueue' : DomainOK(domainQueue[i])'
  <2>1. Turn' = Turn /\ Told' = Told /\ conversation' = conversation
    BY SameTurn DEF Watched, provider
  <2> QED
    BY <2>1 DEF TurnQueues, DomainOK, OfTurn
<1> QED
  BY <1>1, <1>2 DEF TurnQueues

\* The ingestion works on the first event that waits, which is of the turn.
LEMMA IngestTail ==
    ASSUME TypeOK, Watched, TurnQueues, NEW type, Ingest(type)
    PROVE  /\ TurnEvents(ingestQueue)' /\ RuntimeOK(Head(ingestQueue))
           /\ Head(ingestQueue) \in RuntimeEvents /\ Head(ingestQueue).type = type
           /\ running = Null /\ type # "turn.completed" => ingestQueue' # <<>>
           /\ ingestQueue # <<>> /\ placeholder = NoEvent
<1>1. PICK q \in Seq(RuntimeEvents) : q = ingestQueue
  BY DEF TypeOK
<1>2. q # <<>> /\ Head(q).type = type /\ ingestQueue' = Tail(q) /\ TurnEvents(q)
  BY <1>1 DEF Ingest, TurnQueues
<1>3. /\ TurnEvents(Tail(q))' /\ RuntimeOK(Head(q))
      /\ running = Null /\ Head(q).type # "turn.completed" => Tail(q) # <<>>
  BY <1>2, EventsTail
<1>4. TurnEvents(ingestQueue)'
  BY <1>2, <1>3 DEF TurnEvents
<1>5. Head(q) \in RuntimeEvents
  BY <1>2
<1> QED
  BY <1>1, <1>2, <1>3, <1>4, <1>5 DEF Ingest

\* The session is said to work on the turn, or on none.
LEMMA IngestTurnStep ==
    ASSUME TypeOK, TurnsInv, Working, IngestTurnStarted \/ IngestTurnCompleted
    PROVE  TurnsInv' /\ Working'
<1>1. PICK type, status : type \in {"turn.started", "turn.completed"} /\ IngestTurnEvent(type, status)
  BY DEF IngestTurnStarted, IngestTurnCompleted
<1> DEFINE turn == Head(ingestQueue).turnId
           active == IF type = "turn.started" THEN turn ELSE Null
           session == [status |-> status, activeTurnId |-> active]
<1>2. /\ Ingest(type) /\ dispatch([type |-> "thread.session-set", session |-> session])
      /\ UNCHANGED <<user, provider, runtimeQueue, refs, placeholder, job>>
  BY <1>1 DEF IngestTurnEvent
<1>3. domainQueue' = domainQueue /\ thread'.checkpoints = thread.checkpoints
  BY <1>2, DispatchSession
<1>4. thread'.session = session /\ "session" \in DOMAIN thread'
  BY <1>2, SessionAtEnd DEF dispatch
<1>5. Watched
  BY <1>2, <1>4 DEF Watched, user
<1>6. TurnsInv' /\ TurnStarted' /\ Turn' = Turn /\ Told' = Told
  BY <1>5, WatchedTurn DEF Working
<1>7. RefsKept
  BY <1>2 DEF RefsKept
<1>8. TurnFollows'
  BY <1>3, <1>5, <1>7, FollowsStay DEF Working
<1>9. TurnCheckpoint'
  BY <1>2, <1>3, <1>5, <1>7, CheckpointStays DEF Working, Captures, PlaceholderWaits
<1>10. TurnJob' /\ TurnFiles'
  BY <1>2, <1>5, JobStays, FilesStay DEF Working
<1>11. TurnEnds'
  BY <1>2, <1>3, <1>5, EndsStay DEF Working, Captures
<1>12. /\ TurnEvents(ingestQueue)' /\ RuntimeOK(Head(ingestQueue)) /\ placeholder = NoEvent
       /\ running = Null /\ type # "turn.completed" => ingestQueue' # <<>>
  BY <1>2, <1>5, IngestTail DEF Working
<1>13. TurnQueues'
  BY <1>2, <1>3, <1>5, <1>12, QueuesStay DEF Working
<1>14. TurnActive'
  <2>1. Active(thread)' \in {Null, active}
    <3>1. session.activeTurnId = active
      OBVIOUS
    <3> HIDE DEF session
    <3> QED
      BY <1>4, <3>1 DEF Active
  <2>2. turn = Turn
    BY <1>12 DEF RuntimeOK
  <2>3. running' = running
    BY <1>2 DEF provider
  <2>4. type = "turn.started" => running' # Null \/ ingestQueue' # <<>>
    BY <1>12, <2>3
  <2> QED
    BY <1>6, <2>1, <2>2, <2>4 DEF TurnActive
<1> QED
  BY <1>6, <1>8, <1>9, <1>10, <1>11, <1>13, <1>14 DEF Working

\* A diff is reported: the placeholder to dispatch, if there is one, is the turn's.
LEMMA IngestDiffStep ==
    ASSUME TypeOK, TurnsInv, Working, IngestDiffUpdated
    PROVE  TurnsInv' /\ Working'
<1>n. PICK n \in Nat : n = Len(conversation) /\ n > 0
  BY DEF TurnsInv, Working, TurnStarted
<1> DEFINE turn == Head(ingestQueue).turnId
           diff == DiffComplete(turn, currentTurnCount(thread) + 1, "missing", Null)
<1>1. /\ Ingest("turn.diff.updated")
      /\ placeholder' = IF CheckpointsOf(thread, turn) = {} THEN diff ELSE NoEvent
      /\ UNCHANGED <<user, provider, domainQueue, runtimeQueue, thread, refs, job>>
  BY DEF IngestDiffUpdated
<1>2. Watched
  BY <1>1 DEF Watched, user, TurnsInv
<1>3. TurnsInv' /\ TurnStarted' /\ Turn' = Turn /\ Told' = Told
  BY <1>2, WatchedTurn DEF Working
<1>4. RefsKept
  BY <1>1 DEF RefsKept
<1>5. TurnFollows'
  BY <1>1, <1>2, <1>4, FollowsStay DEF Working
<1>6. TurnCheckpoint'
  BY <1>1, <1>2, <1>4, CheckpointStays DEF Working, Captures, PlaceholderWaits
<1>7. TurnJob' /\ TurnFiles'
  BY <1>1, <1>2, JobStays, FilesStay DEF Working
<1>8. TurnEnds'
  BY <1>1, <1>2, EndsStay DEF Working, Captures
<1>9. /\ TurnEvents(ingestQueue)' /\ RuntimeOK(Head(ingestQueue)) /\ placeholder = NoEvent
      /\ running = Null => ingestQueue' # <<>>
      /\ Head(ingestQueue).type = "turn.diff.updated" /\ ingestQueue # <<>>
  BY <1>1, <1>2, IngestTail DEF Working
<1>10. turn = Turn /\ Told
  BY <1>9 DEF RuntimeOK
<1>11. TurnActive'
  BY <1>1, <1>3, <1>9 DEF Working, TurnActive, Active, provider
<1>12. placeholder' # NoEvent => OfTurn(placeholder)' /\ Told'
  <2>0. PICK e : e = diff
    OBVIOUS
  <2> SUFFICES ASSUME CheckpointsOf(thread, turn) = {} PROVE OfTurn(e)'
    BY <1>1, <1>3, <1>10, <2>0 DEF OfTurn
  <2>1. IsThread(thread) /\ \A j, k \in 1..n : conversation[j] = conversation[k] => j = k
    BY <1>n DEF TypeOK, TurnsInv
  <2>2. \/ Follows(thread, conversation, n - 1, n - 1)
        \/ Follows(thread, conversation, n, n)
    BY <1>n DEF Working, TurnFollows
  <2>3. turn = conversation[n]
    BY <1>n, <1>10 DEF Turn
  <2>4. Len(thread.checkpoints) # n
    <3>1. CheckpointsOf(thread, conversation[n])
            = IF Len(thread.checkpoints) = n THEN {thread.checkpoints[n]} ELSE {}
      BY <1>n, <2>1, <2>2, TurnHasCheckpoint
    <3> QED
      BY <2>3, <3>1
  <2>5. Follows(thread, conversation, n - 1, n - 1) /\ n - 1 \in Nat
    BY <1>n, <2>2, <2>4 DEF Follows
  <2>6. currentTurnCount(thread) + 1 = n
    BY <1>n, <2>1, <2>5, CountFollows
  <2>7. Len(conversation') = n
    BY <1>n, <1>1 DEF provider
  <2>8. diff = DiffComplete(turn, n, "missing", Null)
    BY <2>6
  <2>9. e.turnId = Turn /\ e.checkpointTurnCount = n /\ e.status = "missing"
    BY <1>10, <2>0, <2>8 DEF DiffComplete
  <2> QED
    BY <1>3, <2>7, <2>9 DEF OfTurn
<1>13. TurnQueues'
  BY <1>1, <1>2, <1>9, <1>12, QueuesStay DEF Working
<1> QED
  BY <1>3, <1>5, <1>6, <1>7, <1>8, <1>11, <1>13 DEF Working


\* The read model has room for a checkpoint of every turn.
CheckpointsFit == MaxTurns <= MAX_THREAD_CHECKPOINTS

\* A diff of the turn, placeholder or captured.
LEMMA DispatchTurnDiff ==
    ASSUME TypeOK, TurnsInv, Working, CheckpointsFit,
           NEW e \in Diffs, OfTurn(e), Told, dispatch(e), UNCHANGED <<provider, requested, refs>>
    PROVE  /\ Watched /\ Active(thread)' = Active(thread) /\ TurnFollows'
           /\ domainQueue' = Append(domainQueue, e) /\ domainQueue \in Seq(DomainEvents)
           /\ \A i \in DOMAIN domainQueue' : DomainOK(domainQueue[i])'
           /\ PlaceholderWaits \/ e \in Placeholders => PlaceholderWaits'
           /\ LET n == Len(conversation)
                  c == thread.checkpoints[n]
              IN  IF IsStalePlaceholder(thread, e)
                    THEN /\ thread'.checkpoints = thread.checkpoints
                         /\ Len(thread.checkpoints) = n /\ c.status # "missing"
                    ELSE Len(thread'.checkpoints) = n /\ thread'.checkpoints[n] = CheckpointOf(e)
<1>n. PICK n \in Nat : n = Len(conversation) /\ n > 0
  BY DEF TurnsInv, Working, TurnStarted
<1>1. /\ IsThread(thread) /\ "session" \in DOMAIN thread
      /\ \A j, k \in 1..n : conversation[j] = conversation[k] => j = k
  BY <1>n DEF TypeOK, TurnsInv
<1>2. n <= MAX_THREAD_CHECKPOINTS
  BY <1>n, CapsAssumption, CheckpointAssumption
  DEF TurnsInv, TypeOK, CheckpointsFit, CapsAssumption, CheckpointAssumption
<1>3. \/ Follows(thread, conversation, n - 1, n - 1)
      \/ Follows(thread, conversation, n, n)
  BY <1>n DEF Working, TurnFollows
<1>4. e.turnId = conversation[n] /\ e.checkpointTurnCount = n
  BY <1>n DEF OfTurn, Turn
<1> DEFINE more == Patch(thread, ThreadPatch(thread, e))
<1>5. /\ more.session = thread.session /\ "session" \in DOMAIN more
      /\ IF IsStalePlaceholder(thread, e)
           THEN more.checkpoints = thread.checkpoints
           ELSE /\ Follows(more, conversation, n, n)
                /\ more.checkpoints[n] = CheckpointOf(e)
                /\ \A k \in 1..(n - 1) : more.checkpoints[k] = thread.checkpoints[k]
  <2> PICK t, conv : t = thread /\ conv = conversation
    OBVIOUS
  <2>1. /\ IsThread(t) /\ "session" \in DOMAIN t
        /\ \A j, k \in 1..n : conv[j] = conv[k] => j = k
        /\ Follows(t, conv, n - 1, n - 1) \/ Follows(t, conv, n, n)
        /\ e.turnId = conv[n] /\ e.checkpointTurnCount = n
    BY <1>1, <1>3, <1>4
  <2> DEFINE after == Patch(t, ThreadPatch(t, e))
  <2>2. /\ after.session = t.session /\ "session" \in DOMAIN after
        /\ IF IsStalePlaceholder(t, e)
             THEN after.checkpoints = t.checkpoints
             ELSE /\ Follows(after, conv, n, n)
                  /\ after.checkpoints[n] = CheckpointOf(e)
                  /\ \A k \in 1..(n - 1) : after.checkpoints[k] = t.checkpoints[k]
    BY <1>n, <1>2, <2>1, DiffAtEnd
  <2> HIDE DEF after
  <2>3. after = more
    BY DEF after
  <2> HIDE DEF more
  <2> QED
    BY <2>2, <2>3
<1>6. thread' = more
  BY DEF dispatch
<1> HIDE DEF more
<1>7. Watched
  BY <1>5, <1>6 DEF Watched
<1>8. Active(thread)' = Active(thread)
  BY <1>5, <1>6 DEF Active
<1>9. conversation' = conversation /\ \A turn : OwedEdits(turn)' = OwedEdits(turn)
  BY DEF provider, OwedEdits
<1>10. TurnFollows'
  <2>1. CASE IsStalePlaceholder(thread, e)
    <3>1. RefsKept
      BY DEF RefsKept
    <3> QED
      BY <1>5, <1>6, <1>7, <2>1, <3>1, FollowsStay DEF Working
  <2>2. CASE ~IsStalePlaceholder(thread, e)
    <3>1. Follows(thread', conversation', n, n)
      BY <1>5, <1>6, <1>9, <2>2
    <3>2. \A k \in 1..(n - 1) : thread'.checkpoints[k] = thread.checkpoints[k]
      BY <1>5, <1>6, <2>2
    <3>3. Held(n - 1)
      BY <1>n DEF Working, TurnFollows
    <3>4. Held(n - 1)'
      BY <1>9, <3>2, <3>3 DEF Held, OwedEdits, provider
    <3> QED
      BY <1>n, <1>9, <3>1, <3>4 DEF TurnFollows
  <2> QED
    BY <2>1, <2>2
<1>11. domainQueue' = Append(domainQueue, e) /\ domainQueue \in Seq(DomainEvents) /\ e \in DomainEvents
  BY DispatchDiff DEF TypeOK, DomainEvents
<1>12. /\ DOMAIN domainQueue = 1..Len(domainQueue) /\ Len(domainQueue) \in Nat
       /\ DOMAIN domainQueue' = 1..(Len(domainQueue) + 1)
       /\ domainQueue'[Len(domainQueue) + 1] = e
       /\ \A i \in 1..Len(domainQueue) : domainQueue'[i] = domainQueue[i]
  BY <1>11, AppendSeqFacts
<1>13. \A i \in DOMAIN domainQueue' : DomainOK(domainQueue[i])'
  <2> SUFFICES ASSUME NEW i \in DOMAIN domainQueue' PROVE DomainOK(domainQueue[i])'
    OBVIOUS
  <2>0. Told' = Told /\ Turn' = Turn
    BY <1>7, SameTurn DEF Watched, provider
  <2>1. i \in DOMAIN domainQueue \/ i = Len(domainQueue) + 1
    BY <1>12
  <2>2. CASE i \in DOMAIN domainQueue
    BY <1>9, <1>12, <2>0, <2>2 DEF Working, TurnQueues, DomainOK, OfTurn
  <2>3. CASE i = Len(domainQueue) + 1
    BY <1>9, <1>12, <2>0, <2>3 DEF DomainOK, OfTurn
  <2> QED
    BY <2>1, <2>2, <2>3
<1>14. PlaceholderWaits \/ e \in Placeholders => PlaceholderWaits'
  BY <1>12 DEF PlaceholderWaits
<1>15. IsStalePlaceholder(thread, e) => Len(thread.checkpoints) = n /\ thread.checkpoints[n].status # "missing"
  <2> SUFFICES ASSUME NEW i \in DOMAIN thread.checkpoints, thread.checkpoints[i].turnId = e.turnId,
                      thread.checkpoints[i].status # "missing"
               PROVE  Len(thread.checkpoints) = n /\ thread.checkpoints[n].status # "missing"
    BY DEF IsStalePlaceholder
  <2>1. DOMAIN thread.checkpoints = 1..Len(thread.checkpoints) /\ Len(thread.checkpoints) \in {n - 1, n}
    BY <1>1, <1>3 DEF IsThread, Follows
  <2>2. thread.checkpoints[i].turnId = conversation[i] /\ i \in 1..n
    BY <1>3, <2>1 DEF Follows
  <2>3. i = n
    BY <1>1, <1>4, <1>n, <2>2
  <2> QED
    BY <2>1, <2>3
<1>16. ~IsStalePlaceholder(thread, e) =>
          Len(thread'.checkpoints) = n /\ thread'.checkpoints[n] = CheckpointOf(e)
  BY <1>5, <1>6 DEF Follows
<1> QED
  BY <1>n, <1>5, <1>6, <1>7, <1>8, <1>10, <1>11, <1>13, <1>14, <1>15, <1>16

\* The placeholder gets the turn's place among the checkpoints, unless a captured one has it.
LEMMA DispatchPlaceholderStep ==
    ASSUME TypeOK, TurnsInv, Working, CheckpointsFit, DispatchPlaceholder
    PROVE  TurnsInv' /\ Working'
<1>n. PICK n \in Nat, e \in Placeholders : n = Len(conversation) /\ n > 0 /\ e = placeholder
  BY DEF TurnsInv, Working, TurnStarted, DispatchPlaceholder, TypeOK
<1>1. /\ dispatch(e) /\ placeholder' = NoEvent
      /\ UNCHANGED <<user, provider, ingestQueue, runtimeQueue, refs, job>>
  BY <1>n DEF DispatchPlaceholder
<1>2. e \in Diffs /\ e.checkpointRef = Null /\ OfTurn(e) /\ Told
  BY <1>n DEF Working, TurnQueues, DispatchPlaceholder, Placeholders
<1>3. /\ Watched /\ Active(thread)' = Active(thread) /\ TurnFollows'
      /\ domainQueue' = Append(domainQueue, e) /\ domainQueue \in Seq(DomainEvents)
      /\ \A i \in DOMAIN domainQueue' : DomainOK(domainQueue[i])'
      /\ PlaceholderWaits'
      /\ IF IsStalePlaceholder(thread, e)
           THEN thread'.checkpoints = thread.checkpoints
           ELSE Len(thread'.checkpoints) = n /\ thread'.checkpoints[n] = CheckpointOf(e)
  BY <1>n, <1>1, <1>2, DispatchTurnDiff DEF user
<1>4. TurnsInv' /\ TurnStarted' /\ Turn' = Turn /\ Told' = Told /\ conversation' = conversation
  BY <1>3, WatchedTurn DEF Working, Watched, provider
<1>5. RefsKept
  BY <1>1 DEF RefsKept
<1>6. TurnCheckpoint'
  <2>1. CASE IsStalePlaceholder(thread, e)
    BY <1>3, <1>5, <2>1, CheckpointStays DEF Working
  <2>2. CASE ~IsStalePlaceholder(thread, e)
    <3>1. thread'.checkpoints[n].checkpointRef = Null /\ thread'.checkpoints[n].status = "missing"
      BY <1>2, <1>3, <2>2 DEF CheckpointOf, OfTurn
    <3> QED
      BY <1>n, <1>2, <1>3, <1>4, <3>1 DEF TurnCheckpoint
  <2> QED
    BY <2>1, <2>2
<1>7. TurnJob' /\ TurnFiles'
  BY <1>1, <1>3, JobStays, FilesStay DEF Working
<1>8. TurnEnds'
  <2>1. CASE IsStalePlaceholder(thread, e)
    BY <1>1, <1>3, <2>1, EndsStay DEF Working, Captures
  <2>2. CASE ~IsStalePlaceholder(thread, e)
    BY <1>n, <1>3, <1>4, <2>2 DEF TurnEnds
  <2> QED
    BY <2>1, <2>2
<1>9. TurnActive'
  BY <1>1, <1>3, ActiveStays DEF Working
<1>10. TurnQueues'
  <2>1. TurnEvents(ingestQueue)' /\ TurnEvents(runtimeQueue)'
    BY <1>1, <1>4 DEF Working, TurnQueues, TurnEvents, RuntimeOK, provider
  <2> QED
    BY <1>1, <1>3, <2>1 DEF TurnQueues
<1> QED
  BY <1>3, <1>4, <1>6, <1>7, <1>8, <1>9, <1>10 DEF Working

\* The captured checkpoint gets the turn's place, also from a placeholder.
LEMMA FinalizeCaptureStep ==
    ASSUME TypeOK, TurnsInv, Working, CheckpointsFit, FinalizeCapture
    PROVE  TurnsInv' /\ Working'
<1>0. job \in CaptureJobs /\ job.event \in Diffs
  BY DEF FinalizeCapture, At, TypeOK, Jobs, Idle, BaselineJobs, CaptureJobs, RevertJobs, RevertSteps
<1>n. PICK n \in Nat, e \in Diffs : n = Len(conversation) /\ n > 0 /\ e = job.event
  BY <1>0 DEF TurnsInv, Working, TurnStarted
<1>1. /\ dispatch(e) /\ job' = Idle
      /\ UNCHANGED <<user, provider, ingestQueue, runtimeQueue, refs, placeholder>>
  BY <1>n DEF FinalizeCapture
<1>2. OfTurn(e) /\ Told /\ e.checkpointRef = n /\ n \in DOMAIN refs
  BY <1>0, <1>n, JobKinds DEF Working, TurnJob, FinalizeCapture, At
<1>3. /\ Watched /\ Active(thread)' = Active(thread) /\ TurnFollows'
      /\ domainQueue' = Append(domainQueue, e) /\ domainQueue \in Seq(DomainEvents)
      /\ \A i \in DOMAIN domainQueue' : DomainOK(domainQueue[i])'
      /\ IF IsStalePlaceholder(thread, e)
           THEN /\ thread'.checkpoints = thread.checkpoints
                /\ Len(thread.checkpoints) = n /\ thread.checkpoints[n].status # "missing"
           ELSE Len(thread'.checkpoints) = n /\ thread'.checkpoints[n] = CheckpointOf(e)
  BY <1>n, <1>1, <1>2, DispatchTurnDiff DEF user
<1>4. TurnsInv' /\ TurnStarted' /\ Turn' = Turn /\ Told' = Told /\ conversation' = conversation
  BY <1>3, WatchedTurn DEF Working, Watched, provider
<1>5. Len(thread'.checkpoints) = n /\ thread'.checkpoints[n].checkpointRef = n
  <2>1. CASE IsStalePlaceholder(thread, e)
    BY <1>n, <1>3, <2>1 DEF Working, TurnCheckpoint
  <2>2. CASE ~IsStalePlaceholder(thread, e)
    BY <1>2, <1>3, <2>2 DEF CheckpointOf
  <2> QED
    BY <2>1, <2>2
<1>6. TurnCheckpoint'
  <2>1. n # Null
    BY CheckpointAssumption DEF CheckpointAssumption
  <2> QED
    BY <1>n, <1>1, <1>2, <1>4, <1>5, <2>1 DEF TurnCheckpoint
<1>7. TurnJob' /\ TurnFiles'
  BY <1>1, <1>3, FilesStay DEF Working, TurnJob
<1>8. TurnEnds'
  BY <1>n, <1>4, <1>5 DEF TurnEnds
<1>9. TurnActive'
  BY <1>1, <1>3, ActiveStays DEF Working
<1>10. TurnQueues'
  <2>1. TurnEvents(ingestQueue)' /\ TurnEvents(runtimeQueue)'
    BY <1>1, <1>4 DEF Working, TurnQueues, TurnEvents, RuntimeOK, provider
  <2>2. placeholder' # NoEvent => OfTurn(placeholder)' /\ Told'
    BY <1>1, <1>4 DEF Working, TurnQueues, OfTurn
  <2> QED
    BY <1>3, <2>1, <2>2 DEF TurnQueues
<1> QED
  BY <1>3, <1>4, <1>6, <1>7, <1>8, <1>9, <1>10 DEF Working

-----------------------------------------------------------------------------
(* The turn at work: the reactor's steps *)

\* What the reactor takes up changes its queue only, and its job.
LEMMA TakeDomainKeeps ==
    ASSUME TypeOK, TurnsInv, Working, NEW type, TakeDomain(type)
    PROVE  /\ Watched /\ TurnsInv' /\ TurnStarted' /\ TurnFollows' /\ TurnQueues' /\ TurnActive' /\ TurnFiles'
           /\ DomainOK(Head(domainQueue)) /\ Head(domainQueue) \in DomainEvents
           /\ Head(domainQueue).type = type
           /\ PlaceholderWaits => Head(domainQueue) \in Placeholders \/ PlaceholderWaits'
           /\ job = Idle /\ UNCHANGED <<thread, refs, runtimeQueue>>
<1>1. /\ job = Idle /\ domainQueue # <<>> /\ Head(domainQueue).type = type
      /\ domainQueue' = Tail(domainQueue) /\ domainQueue \in Seq(DomainEvents)
      /\ UNCHANGED <<user, provider, ingestQueue, runtimeQueue, thread, refs, placeholder>>
  BY DEF TakeDomain, TypeOK
<1>2. Watched
  BY <1>1 DEF Watched, user, TurnsInv
<1>3. TurnsInv' /\ TurnStarted' /\ Turn' = Turn /\ Told' = Told /\ conversation' = conversation
  BY <1>2, WatchedTurn DEF Working, Watched, provider
<1>4. TurnFollows'
  <2>1. RefsKept
    BY <1>1 DEF RefsKept
  <2> QED
    BY <1>1, <1>2, <2>1, FollowsStay DEF Working
<1>5. TurnActive' /\ TurnFiles'
  BY <1>1, <1>2, ActiveStays, FilesStay DEF Working, Active
<1>6. PICK q \in Seq(DomainEvents) : q = domainQueue /\ q # <<>>
  BY <1>1
<1>7. /\ Len(q) \in Nat /\ Len(q) > 0 /\ DOMAIN q = 1..Len(q) /\ Head(q) = q[1]
      /\ DOMAIN Tail(q) = 1..(Len(q) - 1)
      /\ \A i \in 1..(Len(q) - 1) : Tail(q)[i] = q[i + 1]
  BY <1>6, TailOf
<1>8. \A i \in DOMAIN domainQueue' : i + 1 \in DOMAIN q /\ domainQueue'[i] = q[i + 1]
  BY <1>1, <1>6, <1>7
<1>9. \A i \in DOMAIN q : DomainOK(q[i])
  BY <1>6 DEF Working, TurnQueues
<1>10. \A i \in DOMAIN domainQueue' : DomainOK(domainQueue[i])'
  BY <1>3, <1>8, <1>9 DEF DomainOK, OfTurn
<1>11. TurnQueues'
  <2>1. TurnEvents(ingestQueue)' /\ TurnEvents(runtimeQueue)'
    BY <1>1, <1>3 DEF Working, TurnQueues, TurnEvents, RuntimeOK, provider
  <2>2. placeholder' # NoEvent => OfTurn(placeholder)' /\ Told'
    BY <1>1, <1>3 DEF Working, TurnQueues, OfTurn
  <2> QED
    BY <1>10, <2>1, <2>2 DEF TurnQueues
<1>12. PlaceholderWaits => Head(q) \in Placeholders \/ PlaceholderWaits'
  <2> SUFFICES ASSUME NEW i \in DOMAIN q, q[i] \in Placeholders, i # 1 PROVE PlaceholderWaits'
    BY <1>6, <1>7 DEF PlaceholderWaits
  <2>1. i - 1 \in DOMAIN domainQueue' /\ domainQueue'[i - 1] = q[i]
    BY <1>1, <1>6, <1>7
  <2> QED
    BY <2>1 DEF PlaceholderWaits
<1>13. DomainOK(Head(q)) /\ Head(q) \in DomainEvents
  BY <1>7, <1>9
<1> QED
  BY <1>1, <1>2, <1>3, <1>4, <1>5, <1>6, <1>11, <1>12, <1>13

\* Taking up an event of the provider changes its queue only, and the job.
LEMMA TakeRuntimeKeeps ==
    ASSUME TypeOK, TurnsInv, Working, NEW type, TakeRuntime(type)
    PROVE  /\ Watched /\ TurnsInv' /\ TurnStarted' /\ TurnFollows' /\ TurnQueues' /\ TurnActive' /\ TurnFiles'
           /\ RuntimeOK(Head(runtimeQueue)) /\ Head(runtimeQueue).type = type
           /\ running = Null /\ type # "turn.completed" => runtimeQueue' # <<>>
           /\ job = Idle /\ UNCHANGED <<thread, refs, domainQueue>>
<1>1. /\ job = Idle /\ runtimeQueue # <<>> /\ Head(runtimeQueue).type = type
      /\ runtimeQueue' = Tail(runtimeQueue) /\ runtimeQueue \in Seq(RuntimeEvents)
      /\ UNCHANGED <<user, provider, ingestQueue, domainQueue, thread, refs, placeholder>>
  BY DEF TakeRuntime, TypeOK
<1>2. Watched
  BY <1>1 DEF Watched, user, TurnsInv
<1>3. TurnsInv' /\ TurnStarted' /\ Turn' = Turn /\ Told' = Told /\ conversation' = conversation
  BY <1>2, WatchedTurn DEF Working, Watched, provider
<1>4. TurnFollows'
  <2>1. RefsKept
    BY <1>1 DEF RefsKept
  <2> QED
    BY <1>1, <1>2, <2>1, FollowsStay DEF Working
<1>5. TurnActive' /\ TurnFiles'
  BY <1>1, <1>2, ActiveStays, FilesStay DEF Working, Active
<1>6. PICK q \in Seq(RuntimeEvents) : q = runtimeQueue /\ q # <<>> /\ TurnEvents(q)
  BY <1>1 DEF Working, TurnQueues
<1>7. /\ TurnEvents(Tail(q))' /\ RuntimeOK(Head(q))
      /\ running = Null /\ Head(q).type # "turn.completed" => Tail(q) # <<>>
  BY <1>2, <1>6, EventsTail
<1>8. TurnEvents(runtimeQueue)'
  BY <1>1, <1>6, <1>7 DEF TurnEvents
<1>9. TurnQueues'
  <2>1. TurnEvents(ingestQueue)'
    BY <1>1, <1>3 DEF Working, TurnQueues, TurnEvents, RuntimeOK, provider
  <2>2. placeholder' # NoEvent => OfTurn(placeholder)' /\ Told'
    BY <1>1, <1>3 DEF Working, TurnQueues, OfTurn
  <2>3. \A i \in DOMAIN domainQueue' : DomainOK(domainQueue[i])'
    BY <1>1, <1>3 DEF Working, TurnQueues, DomainOK, OfTurn
  <2> QED
    BY <1>8, <2>1, <2>2, <2>3 DEF TurnQueues
<1> QED
  BY <1>1, <1>2, <1>3, <1>4, <1>5, <1>6, <1>7, <1>9

\* The count of the thread, while a turn is at work.
LEMMA TurnCount ==
    ASSUME TypeOK, TurnsInv, Working, NEW n, n = Len(conversation)
    PROVE  /\ n \in Nat /\ n > 0 /\ currentTurnCount(thread) = Len(thread.checkpoints)
           /\ Len(thread.checkpoints) \in {n - 1, n}
           /\ nextTurnCount(thread, Turn) = n
           /\ CheckpointsOf(thread, Turn) = IF Len(thread.checkpoints) = n THEN {thread.checkpoints[n]} ELSE {}
<1>1. n \in Nat /\ n > 0 /\ n - 1 \in Nat
  BY DEF TurnsInv, Working, TurnStarted
<1>2. /\ IsThread(thread) /\ Turn = conversation[n]
      /\ \A j, k \in 1..n : conversation[j] = conversation[k] => j = k
  BY DEF TypeOK, TurnsInv, Turn
<1>3. Follows(thread, conversation, n - 1, n - 1) \/ Follows(thread, conversation, n, n)
  BY DEF Working, TurnFollows
<1>4. currentTurnCount(thread) = Len(thread.checkpoints) /\ Len(thread.checkpoints) \in {n - 1, n}
  <2>1. CASE Follows(thread, conversation, n - 1, n - 1)
    BY <1>1, <1>2, <2>1, CountFollows DEF Follows
  <2>2. CASE Follows(thread, conversation, n, n)
    BY <1>1, <1>2, <2>2, CountFollows DEF Follows
  <2> QED
    BY <1>3, <2>1, <2>2
<1>5. nextTurnCount(thread, Turn) = n
  BY <1>1, <1>2, <1>3, NextFollows
<1>6. CheckpointsOf(thread, Turn) = IF Len(thread.checkpoints) = n THEN {thread.checkpoints[n]} ELSE {}
  BY <1>1, <1>2, <1>3, TurnHasCheckpoint
<1> QED
  BY <1>1, <1>4, <1>5, <1>6

\* A baseline is that of the turn before, or of one that is told of.
LEMMA TurnBaseline ==
    ASSUME TypeOK, TurnsInv, Working, EnsureBaseline, Watched, UNCHANGED <<refs, thread>>, job = Idle
    PROVE  TurnJob' /\ ~Captures
<1>n. PICK n \in Nat : n = Len(conversation)
  BY DEF TurnsInv
<1>1. currentTurnCount(thread) = Len(thread.checkpoints) /\ Len(thread.checkpoints) \in {n - 1, n}
      /\ n > 0
  BY <1>n, TurnCount
<1>2. Len(thread.checkpoints) = n => Told
  BY <1>n DEF Working, TurnCheckpoint
<1>3. conversation' = conversation /\ Told' = Told
  BY SameTurn DEF Watched, provider
<1>4. \/ job' = Idle
      \/ /\ job' \in BaselineJobs /\ job'.turnCount \in {n - 1, n} /\ job'.turnCount \notin DOMAIN refs
         /\ job'.turnCount = n => Told
  <2>1. n \in Nat /\ n - 1 \in Nat
    BY <1>1
  <2> QED
    BY <1>1, <1>2, <2>1 DEF EnsureBaseline, BaselineJobs
<1> QED
  BY <1>n, <1>3, <1>4, JobKinds DEF TurnJob, Captures

\* A baseline asked for while the turn works is missing at one of the two last turn counts.
LEMMA TurnStartStep ==
    ASSUME TypeOK, TurnsInv, Working,
           ensurePreTurnBaselineFromDomainTurnStart \/ ensurePreTurnBaselineFromTurnStart
    PROVE  TurnsInv' /\ Working'
<1>1. CASE ensurePreTurnBaselineFromDomainTurnStart
  <2>1. TakeDomain("thread.turn-start-requested") /\ EnsureBaseline
    BY <1>1 DEF ensurePreTurnBaselineFromDomainTurnStart
  <2>2. /\ Watched /\ TurnsInv' /\ TurnStarted' /\ TurnFollows' /\ TurnQueues' /\ TurnActive' /\ TurnFiles'
        /\ Head(domainQueue).type = "thread.turn-start-requested"
        /\ PlaceholderWaits => Head(domainQueue) \in Placeholders \/ PlaceholderWaits'
        /\ job = Idle /\ UNCHANGED <<thread, refs, runtimeQueue>>
    BY <2>1, TakeDomainKeeps
  <2>3. TurnJob' /\ ~Captures
    BY <2>1, <2>2, TurnBaseline
  <2>4. Head(domainQueue) \notin Placeholders
    BY <2>2 DEF Placeholders, Diffs
  <2>5. RefsKept
    BY <2>2 DEF RefsKept
  <2>6. TurnCheckpoint'
    BY <2>2, <2>3, <2>4, <2>5, CheckpointStays DEF Working
  <2>7. TurnEnds'
    BY <2>2, <2>3, EndsStay DEF Working
  <2> QED
    BY <2>2, <2>3, <2>6, <2>7 DEF Working
<1>2. CASE ensurePreTurnBaselineFromTurnStart
  <2>1. TakeRuntime("turn.started") /\ EnsureBaseline
    BY <1>2 DEF ensurePreTurnBaselineFromTurnStart
  <2>2. /\ Watched /\ TurnsInv' /\ TurnStarted' /\ TurnFollows' /\ TurnQueues' /\ TurnActive' /\ TurnFiles'
        /\ running = Null => runtimeQueue' # <<>>
        /\ job = Idle /\ UNCHANGED <<thread, refs, domainQueue>>
    BY <2>1, TakeRuntimeKeeps
  <2>3. TurnJob' /\ ~Captures
    BY <2>1, <2>2, TurnBaseline
  <2>5. RefsKept
    BY <2>2 DEF RefsKept
  <2>6. TurnCheckpoint'
    BY <2>2, <2>3, <2>5, CheckpointStays DEF Working, PlaceholderWaits
  <2>7. TurnEnds'
    BY <2>2 DEF TurnEnds, Watched, provider
  <2> QED
    BY <2>2, <2>3, <2>6, <2>7 DEF Working
<1> QED
  BY <1>1, <1>2


\* What a capture begins with is of the turn.
LEMMA TurnCapture ==
    ASSUME TypeOK, TurnsInv, Working, NEW n, n = Len(conversation), NEW status \in Statuses,
           Told, Watched, job' = Capture(Turn, n, status)
    PROVE  TurnJob' /\ Captures'
<1>1. n \in Nat /\ n # Null
  BY CheckpointAssumption DEF TurnsInv, CheckpointAssumption
<1>2. Turn \in Nat
  <2>1. Turn = Len(edits)
    BY DEF Working, TurnStarted
  <2> QED
    BY <2>1 DEF TypeOK
<1>3. job' \in CaptureJobs /\ job'.step = "capture"
  BY <1>1, <1>2, CaptureType
<1>4. /\ job'.event.turnId = Turn /\ job'.event.checkpointTurnCount = n
      /\ job'.event.checkpointRef = n
  BY DEF Capture, DiffComplete
<1>5. Turn' = Turn /\ Told' = Told /\ conversation' = conversation
  BY SameTurn DEF Watched, provider
<1> QED
  BY <1>1, <1>3, <1>4, <1>5 DEF TurnJob, OfTurn, Captures

\* At its end the turn has its checkpoint captured, unless it was.
LEMMA CompletionStep ==
    ASSUME TypeOK, TurnsInv, Working, captureCheckpointFromTurnCompletion
    PROVE  TurnsInv' /\ Working'
<1>n. PICK n \in Nat : n = Len(conversation)
  BY DEF TurnsInv
<1> DEFINE event == Head(runtimeQueue)
           turn == event.turnId
<1>1. TakeRuntime("turn.completed")
  BY DEF captureCheckpointFromTurnCompletion
<1>2. /\ Watched /\ TurnsInv' /\ TurnStarted' /\ TurnFollows' /\ TurnQueues' /\ TurnActive' /\ TurnFiles'
      /\ RuntimeOK(event) /\ event.type = "turn.completed"
      /\ job = Idle /\ UNCHANGED <<thread, refs, domainQueue>>
  BY <1>1, TakeRuntimeKeeps
<1>3. turn = Turn /\ Told
  BY <1>2 DEF RuntimeOK, Told
<1>4. job' = IF Active(thread) \notin {Null, Turn} \/ HasRealCheckpoint(thread, Turn) THEN Idle
             ELSE Capture(Turn, nextTurnCount(thread, Turn), checkpointStatusFromRuntime(event.state))
  BY <1>3 DEF captureCheckpointFromTurnCompletion, Active
<1>5. Active(thread) \in {Null, Turn}
  BY DEF Working, TurnActive
<1>6. /\ nextTurnCount(thread, Turn) = n /\ Len(conversation') = n
      /\ CheckpointsOf(thread, Turn) = IF Len(thread.checkpoints) = n THEN {thread.checkpoints[n]} ELSE {}
  BY <1>n, <1>2, TurnCount DEF Watched, provider
<1>7. ~Captures /\ RefsKept
  BY <1>2, JobKinds DEF Captures, RefsKept
<1>8. TurnCheckpoint'
  BY <1>2, <1>7, CheckpointStays DEF Working, PlaceholderWaits
<1>9. CASE HasRealCheckpoint(thread, Turn)
  <2>1. job' = Idle
    BY <1>4, <1>9
  <2>2. Len(thread'.checkpoints) = Len(conversation')
    BY <1>2, <1>6, <1>9 DEF HasRealCheckpoint
  <2>3. TurnEnds' /\ TurnJob'
    BY <2>1, <2>2 DEF TurnEnds, TurnJob
  <2> QED
    BY <1>2, <1>8, <2>3 DEF Working
<1>10. CASE ~HasRealCheckpoint(thread, Turn)
  <2>1. checkpointStatusFromRuntime(event.state) \in Statuses
    BY StatusType
  <2>2. job' = Capture(Turn, n, checkpointStatusFromRuntime(event.state))
    BY <1>4, <1>5, <1>6, <1>10
  <2>3. TurnJob' /\ Captures'
    BY <1>n, <1>2, <1>3, <2>1, <2>2, TurnCapture
  <2>4. TurnEnds'
    BY <2>3 DEF TurnEnds
  <2> QED
    BY <1>2, <1>8, <2>3, <2>4 DEF Working
<1> QED
  BY <1>9, <1>10

\* A placeholder has the turn's checkpoint captured, unless it was.
LEMMA PlaceholderStep ==
    ASSUME TypeOK, TurnsInv, Working, captureCheckpointFromPlaceholder
    PROVE  TurnsInv' /\ Working'
<1>n. PICK n \in Nat : n = Len(conversation)
  BY DEF TurnsInv
<1> DEFINE event == Head(domainQueue)
<1>1. TakeDomain("thread.turn-diff-completed")
  BY DEF captureCheckpointFromPlaceholder
<1>2. /\ Watched /\ TurnsInv' /\ TurnStarted' /\ TurnFollows' /\ TurnQueues' /\ TurnActive' /\ TurnFiles'
      /\ DomainOK(event) /\ event.type = "thread.turn-diff-completed"
      /\ PlaceholderWaits => event \in Placeholders \/ PlaceholderWaits'
      /\ job = Idle /\ UNCHANGED <<thread, refs, runtimeQueue>>
  BY <1>1, TakeDomainKeeps
<1>3. OfTurn(event) /\ Told
  BY <1>2 DEF DomainOK, TurnStarts
<1>4. event.turnId = Turn /\ event.checkpointTurnCount = n
      /\ (event.checkpointRef = Null => event.status = "missing")
  BY <1>n, <1>3 DEF OfTurn
<1>5. job' = IF event.status # "missing" \/ HasRealCheckpoint(thread, Turn) THEN Idle
             ELSE Capture(Turn, n, "ready")
  BY <1>4 DEF captureCheckpointFromPlaceholder
<1>6. ~Captures /\ RefsKept
  BY <1>2, JobKinds DEF Captures, RefsKept
<1>7. CheckpointsOf(thread, Turn) = IF Len(thread.checkpoints) = n THEN {thread.checkpoints[n]} ELSE {}
  BY <1>n, TurnCount
<1>8. CASE event.status # "missing" \/ HasRealCheckpoint(thread, Turn)
  <2>1. job' = Idle
    BY <1>5, <1>8
  <2>2. Len(conversation') = n /\ Told'
    BY <1>n, <1>2, <1>3, SameTurn DEF Watched, provider
  <2>3. TurnCheckpoint'
    <3> SUFFICES ASSUME Len(thread.checkpoints) = n
                 PROVE  LET c == thread.checkpoints[n]
                        IN  /\ c.checkpointRef = Null => c.status = "missing" /\ PlaceholderWaits'
                            /\ c.checkpointRef # Null => c.checkpointRef = n /\ n \in DOMAIN refs
      BY <1>2, <2>2 DEF TurnCheckpoint
    <3> DEFINE c == thread.checkpoints[n]
    <3>1. /\ c.checkpointRef = Null => c.status = "missing" /\ PlaceholderWaits
          /\ c.checkpointRef # Null => c.checkpointRef = n /\ n \in DOMAIN refs
      BY <1>n, <1>6 DEF Working, TurnCheckpoint
    <3>2. c.checkpointRef = Null => event.status # "missing"
      BY <1>7, <1>8, <3>1 DEF HasRealCheckpoint
    <3>3. event.status # "missing" => event \notin Placeholders
      BY <1>4 DEF Placeholders
    <3> QED
      BY <1>2, <3>1, <3>2, <3>3
  <2>4. TurnEnds' /\ TurnJob'
    BY <1>2, <1>6, <2>1, EndsStay DEF Working, TurnJob
  <2> QED
    BY <1>2, <2>3, <2>4 DEF Working
<1>9. CASE ~(event.status # "missing" \/ HasRealCheckpoint(thread, Turn))
  <2>1. job' = Capture(Turn, n, "ready") /\ "ready" \in Statuses
    BY <1>5, <1>9 DEF Statuses
  <2>2. TurnJob' /\ Captures'
    BY <1>n, <1>2, <1>3, <2>1, TurnCapture
  <2>3. TurnEnds'
    BY <2>2 DEF TurnEnds
  <2>4. TurnCheckpoint'
    BY <1>2, <1>6, <2>2, CheckpointStays DEF Working
  <2> QED
    BY <1>2, <2>2, <2>3, <2>4 DEF Working
<1> QED
  BY <1>8, <1>9

\* The reactor's own steps leave the queues alone, and what the ingestion is about to say.
LEMMA JobSteps ==
    ASSUME TypeOK, TurnsInv, Working, UNCHANGED <<user, provider, queues, thread, placeholder>>
    PROVE  /\ Watched /\ TurnsInv' /\ TurnStarted' /\ TurnQueues' /\ TurnActive'
           /\ Turn' = Turn /\ Told' = Told /\ conversation' = conversation
<1> USE DEF user, queues
<1>1. Watched
  BY DEF Watched, TurnsInv
<1>2. TurnsInv' /\ TurnStarted' /\ Turn' = Turn /\ Told' = Told /\ conversation' = conversation
  BY <1>1, WatchedTurn DEF Working, Watched, provider
<1>3. TurnActive'
  BY <1>1, ActiveStays DEF Working, Active
<1>4. TurnQueues'
  BY <1>2 DEF Working, TurnQueues, TurnEvents, RuntimeOK, DomainOK, OfTurn, provider
<1> QED
  BY <1>1, <1>2, <1>3, <1>4

\* A baseline that cannot be captured leaves all in place.
LEMMA BaselineFailsStep ==
    ASSUME TypeOK, TurnsInv, Working, BaselineFails, job \in BaselineJobs
    PROVE  TurnsInv' /\ Working'
<1>1. job' = Idle /\ refs' = refs /\ UNCHANGED <<user, provider, queues, thread, placeholder>>
  BY DEF BaselineFails
<1>2. /\ Watched /\ TurnsInv' /\ TurnStarted' /\ TurnQueues' /\ TurnActive'
  BY <1>1, JobSteps
<1>3. ~Captures /\ RefsKept
  BY <1>1, JobKinds DEF Captures, RefsKept
<1>4. TurnFollows' /\ TurnCheckpoint'
  BY <1>1, <1>2, <1>3, FollowsStay, CheckpointStays DEF Working, PlaceholderWaits, queues
<1>5. TurnFiles' /\ TurnEnds' /\ TurnJob'
  BY <1>1, <1>2, <1>3, FilesStay, EndsStay DEF Working, TurnJob, queues
<1> QED
  BY <1>2, <1>4, <1>5 DEF Working

\* A baseline that git did not have.
LEMMA CaptureBaselineStep ==
    ASSUME TypeOK, TurnsInv, Working, CaptureBaseline, job \in BaselineJobs
    PROVE  TurnsInv' /\ Working'
<1>n. PICK n \in Nat : n = Len(conversation) /\ n > 0
  BY DEF TurnsInv, Working, TurnStarted
<1>1. /\ job' = Idle /\ refs' = Put(refs, job.turnCount, files)
      /\ UNCHANGED <<user, provider, queues, thread, placeholder>>
  BY DEF CaptureBaseline
<1>2. PICK k : /\ k = job.turnCount /\ k \in {n - 1, n} /\ k \notin DOMAIN refs
               /\ k = n => Told
  BY <1>n, JobKinds DEF Working, TurnJob
<1>3. /\ DOMAIN refs' = DOMAIN refs \cup {k} /\ refs'[k] = files
      /\ \A i \in DOMAIN refs : refs'[i] = refs[i]
  BY <1>1, <1>2 DEF Put
<1>4. /\ Watched /\ TurnsInv' /\ TurnStarted' /\ TurnQueues' /\ TurnActive'
      /\ Turn' = Turn /\ Told' = Told /\ conversation' = conversation
  BY <1>1, JobSteps
<1>5. ~Captures /\ RefsKept
  BY <1>3, JobKinds DEF Captures, RefsKept
<1>6. TurnFollows' /\ TurnCheckpoint'
  BY <1>1, <1>4, <1>5, FollowsStay, CheckpointStays DEF Working, PlaceholderWaits, queues
<1>7. TurnEnds' /\ TurnJob'
  BY <1>1, <1>4, <1>5, EndsStay DEF Working, TurnJob, queues
<1>8. TurnFiles'
  <2>1. edits' = edits /\ files' = files /\ reported' = reported
    BY <1>1 DEF provider
  <2>2. /\ \A i \in 1..edits[Turn] : <<Turn, i>> \in files
        /\ OfFirst(files, conversation, IF edits[Turn] = 0 THEN n - 1 ELSE n)
        /\ edits[Turn] # 0 => n - 1 \in DOMAIN refs
        /\ DOMAIN refs \subseteq 0..n /\ RefsOfFirst(n)
        /\ n \in DOMAIN refs => Told /\ OwedEdits(Turn) \subseteq refs[n]
    BY <1>n DEF Working, TurnFiles
  <2>3. OfFirst(files, conversation, k)
    <3>1. CASE k = n
      BY <1>n, <2>2, <3>1, OfMore
    <3>2. CASE k = n - 1
      BY <1>2, <2>2, <3>2
    <3> QED
      BY <1>2, <3>1, <3>2
  <2>4. RefsOfFirst(n)'
    BY <1>3, <1>4, <2>2, <2>3 DEF RefsOfFirst
  <2>5. k \in 0..n
    BY <1>n, <1>2
  <2>6. OwedEdits(Turn) \subseteq files
    <3>1. /\ edits[Turn] \in Nat /\ reported[Turn] \in Nat /\ reported[Turn] <= edits[Turn]
      <4>1. Turn \in 1..Len(edits)
        BY <1>n DEF TurnsInv, Turn
      <4> QED
        BY <4>1, SMTT(30) DEF TypeOK, TurnsInv, Working, TurnStarted
    <3> QED
      BY <2>2, <3>1 DEF OwedEdits
  <2>7. OwedEdits(Turn)' = OwedEdits(Turn)
    BY <1>4, <2>1 DEF OwedEdits
  <2>8. n \in DOMAIN refs' => Told' /\ OwedEdits(Turn)' \subseteq refs'[n]
    BY <1>2, <1>3, <1>4, <2>2, <2>6, <2>7
  <2> QED
    BY <1>n, <1>3, <1>4, <2>1, <2>2, <2>4, <2>5, <2>8 DEF TurnFiles
<1> QED
  BY <1>4, <1>6, <1>7, <1>8 DEF Working

\* The capture of the turn's files.
LEMMA CaptureStepWorks ==
    ASSUME TypeOK, TurnsInv, Working, CaptureCheckpoint, job \in CaptureJobs
    PROVE  TurnsInv' /\ Working'
<1>n. PICK n \in Nat : n = Len(conversation) /\ n > 0
  BY DEF TurnsInv, Working, TurnStarted
<1>1. /\ job' = [job EXCEPT !.step = "finalize"]
      /\ refs' = Put(refs, job.event.checkpointTurnCount, files)
      /\ UNCHANGED <<user, provider, queues, thread, placeholder>>
  BY DEF CaptureCheckpoint
<1>2. OfTurn(job.event) /\ Told /\ job.event.checkpointRef = n /\ job.event.checkpointTurnCount = n
  BY <1>n, JobKinds DEF Working, TurnJob, OfTurn
<1>3. /\ DOMAIN refs' = DOMAIN refs \cup {n} /\ refs'[n] = files
      /\ \A i \in DOMAIN refs : i # n => refs'[i] = refs[i]
  BY <1>1, <1>2 DEF Put
<1>4. /\ Watched /\ TurnsInv' /\ TurnStarted' /\ TurnQueues' /\ TurnActive'
      /\ Turn' = Turn /\ Told' = Told /\ conversation' = conversation
  BY <1>1, JobSteps
<1>5. job' \in CaptureJobs /\ job'.event = job.event /\ RefsKept
  BY <1>n, <1>1, <1>3 DEF CaptureJobs, RefsKept
<1>6. TurnFollows' /\ TurnCheckpoint'
  BY <1>1, <1>4, <1>5, FollowsStay, CheckpointStays DEF Working, Captures
<1>7. TurnEnds' /\ TurnJob'
  BY <1>n, <1>2, <1>3, <1>4, <1>5 DEF TurnEnds, TurnJob, Captures, OfTurn
<1>8. TurnFiles'
  <2>1. edits' = edits /\ files' = files /\ reported' = reported
    BY <1>1 DEF provider
  <2>2. /\ \A i \in 1..edits[Turn] : <<Turn, i>> \in files
        /\ OfFirst(files, conversation, IF edits[Turn] = 0 THEN n - 1 ELSE n)
        /\ edits[Turn] # 0 => n - 1 \in DOMAIN refs
        /\ DOMAIN refs \subseteq 0..n /\ RefsOfFirst(n)
    BY <1>n DEF Working, TurnFiles
  <2>3. OfFirst(files, conversation, n)
    BY <1>n, <2>2, OfMore
  <2>4. RefsOfFirst(n)'
    BY <1>3, <1>4, <2>2, <2>3 DEF RefsOfFirst
  <2>6. OwedEdits(Turn) \subseteq files
    <3>1. /\ edits[Turn] \in Nat /\ reported[Turn] \in Nat /\ reported[Turn] <= edits[Turn]
      <4>1. Turn \in 1..Len(edits)
        BY <1>n DEF TurnsInv, Turn
      <4> QED
        BY <4>1, SMTT(30) DEF TypeOK, TurnsInv, Working, TurnStarted
    <3> QED
      BY <2>2, <3>1 DEF OwedEdits
  <2>7. OwedEdits(Turn)' = OwedEdits(Turn)
    BY <1>4, <2>1 DEF OwedEdits
  <2> QED
    BY <1>n, <1>2, <1>3, <1>4, <2>1, <2>2, <2>4, <2>6, <2>7 DEF TurnFiles
<1> QED
  BY <1>4, <1>6, <1>7, <1>8 DEF Working


\* A step of nobody leaves a turn at work.
LEMMA WorkingStays ==
    ASSUME TurnsInv, Working, UNCHANGED vars
    PROVE  TurnsInv' /\ Working'
<1> USE DEF vars, user, provider, queues
<1>1. Watched /\ RefsKept
  BY DEF Watched, TurnsInv, RefsKept
<1>2. TurnsInv' /\ TurnStarted' /\ Turn' = Turn /\ Told' = Told /\ conversation' = conversation
  BY <1>1, WatchedTurn DEF Working, Watched
<1>3. TurnFollows' /\ TurnCheckpoint'
  BY <1>1, FollowsStay, CheckpointStays DEF Working, PlaceholderWaits, Captures
<1>4. TurnJob' /\ TurnFiles'
  BY <1>1, JobStays, FilesStay DEF Working
<1>5. TurnEnds' /\ TurnActive'
  BY <1>1, EndsStay, ActiveStays DEF Working, Captures, Active
<1>6. TurnQueues'
  BY <1>2 DEF Working, TurnQueues, TurnEvents, RuntimeOK, DomainOK, OfTurn
<1> QED
  BY <1>2, <1>3, <1>4, <1>5, <1>6 DEF Working

\* A turn is at work or its events are worked off, and once they are, the user goes on.
LEMMA WorkingStep ==
    ASSUME TypeOK, TurnsInv, Working, CheckpointsFit, ~disturbed', [Next]_vars
    PROVE  TurnsInv' /\ (Resting \/ Reverting \/ Starting \/ Working)'
<1>1. CASE UNCHANGED vars
  BY <1>1, WorkingStays
<1>2. CASE SendTurn \/ \E turnCount \in 0..MaxTurns : RequestRevert(turnCount)
  <2>1. Quiet
    BY <1>2 DEF SendTurn, RequestRevert, Quiet
  <2>2. Resting
    BY <2>1, WorkDone DEF Quiet, Settled, Resting
  <2> QED
    BY <2>2, RestingStep
<1>3. ~StartTurn
  BY DEF StartTurn, Working, TurnStarted
<1>4. CASE EditFiles \/ ReportDiff \/ \E state \in EndStates : CompleteTurn(state)
  BY <1>4, EditFilesStep, ReportDiffStep, CompleteTurnStep
<1>5. CASE Ingestion
  BY <1>5, IngestTurnStep, IngestDiffStep, DispatchPlaceholderStep DEF Ingestion
<1>6. CASE Reactor
  <2>1. CASE Taking
    <3>1. ~BeginRevert /\ ~RefuseRevert
      <4> SUFFICES ASSUME TakeDomain("thread.checkpoint-revert-requested") PROVE FALSE
        BY DEF BeginRevert, RefuseRevert
      <4>1. DomainOK(Head(domainQueue)) /\ Head(domainQueue).type = "thread.checkpoint-revert-requested"
        BY TakeDomainKeeps
      <4> QED
        BY <4>1 DEF DomainOK, TurnStarts, Diffs
    <3> QED
      BY <2>1, <3>1, TurnStartStep, CompletionStep, PlaceholderStep DEF Taking
  <2>2. CASE BaselineStep /\ job \in BaselineJobs
    BY <2>2, CaptureBaselineStep, BaselineFailsStep DEF BaselineStep
  <2>3. CASE CaptureStep /\ job \in CaptureJobs
    <3>1. ~CaptureFails
      BY DEF CaptureFails
    <3> QED
      BY <2>3, <3>1, CaptureStepWorks, FinalizeCaptureStep DEF CaptureStep
  <2>4. job \notin RevertJobs
    BY JobKinds DEF Working, TurnJob
  <2> QED
    BY <1>6, <2>1, <2>2, <2>3, <2>4, ReactorSteps
<1> QED
  BY <1>1, <1>2, <1>3, <1>4, <1>5, <1>6 DEF Next

\* A new thread is at rest.
LEMMA InitPhase == Init => PhaseInv
<1> SUFFICES ASSUME Init PROVE TurnsInv /\ Resting
  BY DEF PhaseInv, InPhase, Init
<1>1. /\ conversation = <<>> /\ reported = <<>> /\ edits = <<>> /\ refs = <<>> /\ files = {}
      /\ thread.checkpoints = <<>> /\ thread.session = Null /\ "session" \in DOMAIN thread
      /\ ~requested /\ running = Null
  BY DEF Init, NewThread, HeadFiles
<1>2. Len(<<>>) = 0 /\ DOMAIN <<>> = {} /\ <<>> \in Seq(Nat)
  OBVIOUS
<1>3. TurnsInv
  BY <1>1, <1>2, CheckpointAssumption DEF TurnsInv, CheckpointAssumption
<1>4. AtRest
  BY <1>1, <1>2 DEF AtRest, Follows, Held, RefsOfFirst, OfFirst
<1>5. NoTurn
  BY <1>1 DEF NoTurn, Active, Init
<1> QED
  BY <1>1, <1>3, <1>4, <1>5 DEF Resting, Init

\* Who has disturbed the reactor once, has done so.
LEMMA DisturbedStays == ASSUME [Next]_vars, ~disturbed' PROVE ~disturbed
BY DEF Next, vars, user, SendTurn, RequestRevert, StartTurn, EditFiles, ReportDiff, CompleteTurn,
       Ingestion, IngestTurnStarted, IngestTurnCompleted, IngestTurnEvent, IngestDiffUpdated,
       DispatchPlaceholder, Reactor, ensurePreTurnBaselineFromDomainTurnStart,
       ensurePreTurnBaselineFromTurnStart, CaptureBaseline, BaselineFails,
       captureCheckpointFromTurnCompletion, captureCheckpointFromPlaceholder, CaptureCheckpoint,
       CaptureFails, FinalizeCapture, BeginRevert, RefuseRevert, RestoreCheckpoint, RestoreFails,
       RollbackConversation, RollbackFails, DeleteCheckpointRefs, DeleteCheckpointRefsFails,
       CompleteRevert, CompleteRevertFails, TakeDomain, TakeRuntime

\* Every step of a user who lets the reactor finish leads from phase to phase.
LEMMA PhaseStep == ASSUME TypeOK, CheckpointsFit, PhaseInv, [Next]_vars PROVE PhaseInv'
<1> SUFFICES ASSUME ~disturbed' PROVE TurnsInv' /\ (BrokenOff' \/ (lost' = {} /\ InPhase'))
  BY DEF PhaseInv
<1>1. TurnsInv /\ (BrokenOff \/ (lost = {} /\ InPhase))
  BY DisturbedStays DEF PhaseInv
<1>2. CASE BrokenOff
  BY <1>1, <1>2, BrokenOffStays
<1>3. CASE lost = {} /\ InPhase /\ ~DeleteCheckpointRefsFails /\ ~CompleteRevertFails
  <2>1. TurnsInv' /\ InPhase'
    BY <1>1, <1>3, RestingStep, RevertingStep, StartingStep, WorkingStep DEF InPhase
  <2> QED
    BY <1>3, <2>1, LostStays
<1>4. CASE lost = {} /\ InPhase /\ (DeleteCheckpointRefsFails \/ CompleteRevertFails)
  <2>1. job \in RevertJobs
    BY <1>4 DEF DeleteCheckpointRefsFails, CompleteRevertFails, At, TypeOK, Jobs, Idle, BaselineJobs,
                CaptureJobs
  <2>2. Reverting
    BY <1>4, <2>1, JobKinds DEF InPhase, Resting, Starting, Working, TurnJob
  <2> QED
    BY <1>1, <1>4, <2>2, BreakingStep DEF InPhase
<1> QED
  BY <1>1, <1>2, <1>3, <1>4

\* A thread at rest, whose user let the reactor finish, is in step, or was left so by a
\* revert that broke off.
LEMMA QuietIsAtRest ==
    ASSUME TypeOK, PhaseInv, Quiet, ~disturbed
    PROVE  /\ TurnsInv /\ RolledBack
           /\ lost = {} => Len(thread.checkpoints) = Len(conversation)
<1>1. TurnsInv /\ (BrokenOff \/ (lost = {} /\ InPhase))
  BY DEF PhaseInv
<1>2. job = Idle /\ ~requested
  BY DEF Quiet, Settled
<1>3. ~Reverting /\ ~Starting
  BY <1>2, JobKinds DEF Reverting, Starting
<1>4. CASE lost = {} /\ InPhase
  <2>1. AtRest
    BY <1>1, <1>3, <1>4, WorkDone DEF InPhase, Resting
  <2>2. Len(conversation) \in Nat /\ Len(thread.checkpoints) = Len(conversation)
    BY <1>1, <2>1 DEF TurnsInv, AtRest, Follows
  <2> QED
    BY <1>1, <2>1, <2>2 DEF AtRest, RolledBack
<1>5. CASE BrokenOff
  BY <1>1, <1>5 DEF BrokenOff
<1> QED
  BY <1>1, <1>4, <1>5

\* The checkpoints that stand are those of the conversation's turns.
LEMMA StandingFacts ==
    ASSUME TypeOK, PhaseInv, Quiet, ~disturbed, NEW n \in Nat, n = Len(conversation)
    PROVE  /\ RolledBack /\ DOMAIN conversation = 1..n
           /\ Standing = {thread.checkpoints[i] : i \in 1..n}
           /\ \A i \in 1..n : /\ thread.checkpoints[i].checkpointTurnCount = i
                              /\ thread.checkpoints[i].turnId = conversation[i]
<1>1. PICK old \in Nat : old = Len(thread.checkpoints) /\ DOMAIN thread.checkpoints = 1..old
  BY DEF TypeOK, IsThread
<1>2. /\ n <= old /\ Follows(thread, conversation, old, n) /\ (lost = {} => old = n)
      /\ DOMAIN conversation = 1..n /\ RolledBack
  BY <1>1, QuietIsAtRest DEF RolledBack, TurnsInv
<1>3. \A i \in 1..n : i \in 1..old
  BY <1>2
<1>4. {j \in DOMAIN thread.checkpoints : lost = {} \/ thread.checkpoints[j].checkpointTurnCount <= n} = 1..n
  BY <1>1, <1>2 DEF Follows
<1> QED
  BY <1>2, <1>3, <1>4 DEF Follows, Standing

-----------------------------------------------------------------------------
(* The theorems *)

\* The checkpoints' state keeps its types: what waits, what is in work and what the
\* thread has are of the shapes the code gives them, and a ref is that of its turn count.
THEOREM TypeCorrect == Spec => []TypeOK
<1>1. TypeOK /\ [Next]_vars => TypeOK'
  BY TypeStep
<1> QED
  BY InitType, <1>1, PTL DEF Spec

\* Every revert the user asks for is answered once the reactor has worked off its queue.
THEOREM RevertsAnswered == Spec => []RevertsAreAnswered
<1>1. CountInv /\ TypeOK /\ [Next]_vars => CountInv'
  BY CountStep
<1>2. CountInv /\ TypeOK => RevertsAreAnswered
  <2> SUFFICES ASSUME CountInv, TypeOK, job = Idle, domainQueue = <<>> PROVE answered = asked
    BY DEF RevertsAreAnswered
  <2>1. Waiting(domainQueue) = {} /\ InWork = 0
    BY DEF Waiting, InWork, Idle, RevertSteps
  <2>2. Cardinality(Waiting(domainQueue)) = 0
    BY <2>1, FS_EmptySet
  <2>3. answered \in Nat /\ asked \in Nat
    BY DEF TypeOK
  <2> QED
    BY <2>1, <2>2, <2>3 DEF CountInv
<1> QED
  BY InitCount, TypeCorrect, <1>1, <1>2, PTL DEF Spec

\* Git has the ref of every checkpoint that is not a placeholder, whenever the reactor is
\* between two inputs, but for those that a revert which broke off was to delete.
THEOREM CheckpointsAreRestorable == Spec => []CheckpointsHaveRefs
<1>1. RefInv /\ TypeOK /\ [Next]_vars => RefInv'
  BY RefStep
<1>2. RefInv => CheckpointsHaveRefs
  BY DEF RefInv, HasRef, KnownRefs, Doomed, CheckpointsHaveRefs, Idle
<1> QED
  BY InitRef, TypeCorrect, <1>1, <1>2, PTL DEF Spec

\* The k-th turn of the conversation has the checkpoint of count k and no other turn has
\* one, if the read model has room for every turn's.
THEOREM CheckpointsFollowConversationHolds ==
    ASSUME CheckpointsFit
    PROVE  Spec => []CheckpointsFollowConversation
<1>1. PhaseInv /\ TypeOK /\ [Next]_vars => PhaseInv'
  BY PhaseStep
<1>2. PhaseInv /\ TypeOK => CheckpointsFollowConversation
  <2> SUFFICES ASSUME PhaseInv, TypeOK, Quiet, ~disturbed
               PROVE  {<<c.checkpointTurnCount, c.turnId>> : c \in Standing}
                        = {<<k, conversation[k]>> : k \in DOMAIN conversation}
    BY DEF CheckpointsFollowConversation
  <2>1. PICK n \in Nat : n = Len(conversation)
    BY QuietIsAtRest DEF TurnsInv
  <2>2. /\ Standing = {thread.checkpoints[i] : i \in 1..n} /\ DOMAIN conversation = 1..n
        /\ \A i \in 1..n : /\ thread.checkpoints[i].checkpointTurnCount = i
                           /\ thread.checkpoints[i].turnId = conversation[i]
    BY <2>1, StandingFacts
  <2> QED
    BY <2>2
<1> QED
  BY InitPhase, TypeCorrect, <1>1, <1>2, PTL DEF Spec

\* Each checkpoint holds the edits of its turn that it owes, and of no turn but those up
\* to its own.
THEOREM CheckpointsHoldTheirTurnsHolds ==
    ASSUME CheckpointsFit
    PROVE  Spec => []CheckpointsHoldTheirTurns
<1>1. PhaseInv /\ TypeOK /\ [Next]_vars => PhaseInv'
  BY PhaseStep
<1>2. PhaseInv /\ TypeOK => CheckpointsHoldTheirTurns
  <2> SUFFICES ASSUME PhaseInv, TypeOK, Quiet, ~disturbed, NEW c \in Standing
               PROVE  LET held == refs[c.checkpointTurnCount]
                      IN  /\ c.checkpointTurnCount \in DOMAIN refs
                          /\ OwedEdits(c.turnId) \subseteq held
                          /\ \A edit \in held : \E k \in 1..c.checkpointTurnCount :
                                edit[1] = conversation[k]
    BY DEF CheckpointsHoldTheirTurns
  <2>1. PICK n \in Nat : n = Len(conversation)
    BY QuietIsAtRest DEF TurnsInv
  <2>2. Held(n) /\ RefsOfFirst(n)
    BY <2>1, StandingFacts DEF RolledBack
  <2>3. PICK i \in 1..n : c.checkpointTurnCount = i /\ c.turnId = conversation[i]
    BY <2>1, StandingFacts
  <2>4. i \in DOMAIN refs /\ OwedEdits(conversation[i]) \subseteq refs[i]
    BY <2>2, <2>3 DEF Held
  <2>5. OfFirst(refs[i], conversation, i)
    BY <2>2, <2>3, <2>4 DEF RefsOfFirst
  <2> QED
    BY <2>3, <2>4, <2>5 DEF OfFirst
<1> QED
  BY InitPhase, TypeCorrect, <1>1, <1>2, PTL DEF Spec
=============================================================================
