-------------------------- MODULE ProjectionPipelineProofs --------------------------
(***************************************************************************)
(* Proofs about the SQL projections, for every log, every set of           *)
(* projectors that the database was made with, and every crash of a        *)
(* bootstrap:                                                              *)
(*   - the type invariant (TypeCorrect),                                   *)
(*   - what is resolved stays so, and what has finished until an           *)
(*     interrupt or a revert (ApprovalsStayResolvedHolds,                  *)
(*     FinishedTurnsStayFinishedHolds), from the shape of the rows,        *)
(*   - a server that runs has the tables of a replay                       *)
(*     (TablesAreReplayHolds): there are tables for each number of events, *)
(*     each from the ones before by one event through all projectors, and  *)
(*     every table of the database is the one at its projector's cursor    *)
(*     (ReplayInv); the cursors reach the end of the log (CursorInv),      *)
(*   - the message that started a turn is there                            *)
(*     (PendingMessagesExistHolds), from an invariant of the replay        *)
(*     (PointsOK),                                                         *)
(*   - the tables tell what the read model does                            *)
(*     (SqlAgreesWithReadModelHolds): the two ways to fold an event agree  *)
(*     (AgreeStep), thread by thread and list by list (PartsAlike),        *)
(*   - the attachments of messages are on disk (FilesOutliveRowsHolds),    *)
(*     since what an event removes no row that it leaves needs             *)
(*     (FilesStep),                                                        *)
(*   - tables and read model have the same checkpoints                     *)
(*     (CheckpointsAgreeHolds), the rows of turns as a set, the model's    *)
(*     sorted list as the set of its entries (CheckpointsAlike).           *)
(* A projector writes its own table (ApplyWrites) and reads it and, for a  *)
(* revert, the turns that it keeps (ApplyReads): so one that catches up on *)
(* its own does what it would have done among the others, if those turns   *)
(* are the same (SameKept).                                                *)
(***************************************************************************)
EXTENDS ProjectionPipeline, ArrayLemmas

(***************************************************************************)
(* The tables, and one event through one projector                         *)
(***************************************************************************)

\* The projectors with a table: that of the checkpoints has none.
TableNames == DOMAIN EmptyTables

\* There are nine of them, and the turns are projected after what reads them.
LEMMA NamesFacts ==
    /\ Len(projectors) = 9 /\ DOMAIN projectors = 1..9
    /\ ProjectorNames = TableNames \cup {"checkpoints"} /\ "checkpoints" \notin TableNames
    /\ TableNames = {"projects", "threadMessages", "threadProposedPlans", "threadActivities",
                     "threadSessions", "threadTurns", "pendingApprovals", "threads"}
    /\ \A i \in 1..9 : projectors[i] \in ProjectorNames
    /\ \A i, j \in 1..9 : projectors[i] = projectors[j] => i = j
    /\ \A q \in ProjectorNames : \E i \in 1..9 : projectors[i] = q
    /\ projectors[6] = "threadTurns"
    /\ \A i \in 7..9 : projectors[i] \in {"checkpoints", "pendingApprovals", "threads"}
<1>1. projectors[1] = "projects" /\ projectors[2] = "threadMessages" /\ projectors[3] = "threadProposedPlans"
      /\ projectors[4] = "threadActivities" /\ projectors[5] = "threadSessions"
      /\ projectors[6] = "threadTurns" /\ projectors[7] = "checkpoints"
      /\ projectors[8] = "pendingApprovals" /\ projectors[9] = "threads"
      /\ Len(projectors) = 9 /\ DOMAIN projectors = 1..9
  BY DEF projectors
<1> HIDE DEF projectors
<1>2. TableNames = {"projects", "threadMessages", "threadProposedPlans", "threadActivities",
                    "threadSessions", "threadTurns", "pendingApprovals", "threads"}
  BY DEF TableNames, EmptyTables
<1>3. ProjectorNames = {"projects", "threadMessages", "threadProposedPlans", "threadActivities",
                     "threadSessions", "threadTurns", "checkpoints", "pendingApprovals", "threads"}
  BY <1>1 DEF ProjectorNames
<1>4. 1..9 = {1, 2, 3, 4, 5, 6, 7, 8, 9} /\ 7..9 = {7, 8, 9}
  OBVIOUS
<1>5. \A i, j \in 1..9 : projectors[i] = projectors[j] => i = j
  BY <1>1, <1>4
<1>6. \A q \in ProjectorNames : \E i \in 1..9 : projectors[i] = q
  BY <1>1 DEF ProjectorNames
<1>7. \A i \in 1..9 : projectors[i] \in ProjectorNames
  BY <1>1 DEF ProjectorNames
<1>8. \A i \in 7..9 : projectors[i] \in {"checkpoints", "pendingApprovals", "threads"}
  BY <1>1, <1>4
<1> QED
  BY <1>1, <1>2, <1>3, <1>5, <1>6, <1>7, <1>8

\* A function of the tables' names.
IsTables(x) == x = [q \in TableNames |-> x[q]]

\* A projector writes its own table.
LEMMA ApplyWrites ==
    ASSUME NEW tabs, IsTables(tabs), NEW p \in ProjectorNames, NEW e
    PROVE  LET new == apply(p, tabs, e)
           IN  IsTables(new) /\ \A q \in TableNames : q # p => new[q] = tabs[q]
<1> DEFINE new == apply(p, tabs, e)
<1>1. new = tabs \/ (p \in TableNames /\ \E row : new = [tabs EXCEPT ![p] = row])
  <2>1. CASE p = "projects"
    BY <2>1, NamesFacts DEF apply
  <2>2. CASE p # "projects" /\ ~OfThread(e)
    BY <2>2 DEF apply
  <2>3. CASE p # "projects" /\ OfThread(e)
    <3>1. new = ApplyToThread(p, tabs, e)
      BY <2>3 DEF apply
    <3> HIDE DEF new
    <3>2. CASE p = "threadMessages"
      BY <3>1, <3>2, NamesFacts DEF ApplyToThread
    <3>3. CASE p = "threadProposedPlans"
      BY <3>1, <3>3, NamesFacts DEF ApplyToThread
    <3>4. CASE p = "threadActivities"
      BY <3>1, <3>4, NamesFacts DEF ApplyToThread
    <3>5. CASE p = "threadSessions"
      BY <3>1, <3>5, NamesFacts DEF ApplyToThread
    <3>6. CASE p = "threadTurns"
      BY <3>1, <3>6, NamesFacts DEF ApplyToThread
    <3>7. CASE p = "pendingApprovals"
      BY <3>1, <3>7, NamesFacts DEF ApplyToThread
    <3>8. CASE p = "threads"
      BY <3>1, <3>8, NamesFacts DEF ApplyToThread
    <3>9. CASE p = "checkpoints"
      BY <3>1, <3>9 DEF ApplyToThread
    <3>10. p \in {"threadMessages", "threadProposedPlans", "threadActivities", "threadSessions",
                  "threadTurns", "pendingApprovals", "threads", "checkpoints"}
      BY <2>3, NamesFacts
    <3> QED
      BY <3>2, <3>3, <3>4, <3>5, <3>6, <3>7, <3>8, <3>9, <3>10
  <2> QED
    BY <2>1, <2>2, <2>3
<1> HIDE DEF new
<1>2. CASE new = tabs
  BY <1>2 DEF new
<1>3. ASSUME p \in TableNames, NEW row, new = [tabs EXCEPT ![p] = row]
      PROVE  IsTables(new) /\ \A q \in TableNames : q # p => new[q] = tabs[q]
  <2>1. tabs = [q \in TableNames |-> tabs[q]]
    BY DEF IsTables
  <2>2. DOMAIN new = TableNames /\ \A q \in TableNames : q # p => new[q] = tabs[q]
    BY <1>3, <2>1
  <2>3. new = [q \in TableNames |-> new[q]]
    BY <1>3, <2>1
  <2> QED
    BY <2>2, <2>3 DEF IsTables
<1> QED
  BY <1>1, <1>2, <1>3 DEF new

\* These read the turns beside their own table.
TurnReaders == {"threadMessages", "threadProposedPlans", "threadActivities"}

\* Of the turns, they read those that a revert keeps.
SameKept(tabs, tabs2, e) ==
    e.type = "thread.reverted" => KeptTurns(TurnsOf(tabs, e.threadId), e.turnCount)
                                    = KeptTurns(TurnsOf(tabs2, e.threadId), e.turnCount)

\* What they make of a thread is the same for turns that a revert keeps alike.
LEMMA ReadersRead ==
    ASSUME NEW rows, NEW turns, NEW turns2, NEW e,
           e.type = "thread.reverted" => KeptTurns(turns, e.turnCount) = KeptTurns(turns2, e.turnCount)
    PROVE  /\ MessagesAfter(rows, turns, e) = MessagesAfter(rows, turns2, e)
           /\ PlansAfter(rows, turns, e) = PlansAfter(rows, turns2, e)
           /\ ActivitiesAfter(rows, turns, e) = ActivitiesAfter(rows, turns2, e)
<1>1. CASE e.type = "thread.reverted"
  <2>1. RetainedTurnIds(turns, e.turnCount) = RetainedTurnIds(turns2, e.turnCount)
    BY <1>1 DEF RetainedTurnIds
  <2>2. retainProjectionMessagesAfterRevert(rows, turns, e.turnCount)
          = retainProjectionMessagesAfterRevert(rows, turns2, e.turnCount)
    BY <1>1, <2>1 DEF retainProjectionMessagesAfterRevert
  <2> QED
    BY <1>1, <2>1, <2>2 DEF MessagesAfter, PlansAfter, ActivitiesAfter
<1>2. CASE e.type # "thread.reverted"
  BY <1>2 DEF MessagesAfter, PlansAfter, ActivitiesAfter
<1> QED
  BY <1>1, <1>2

\* A projector reads its own table and those turns.
LEMMA ApplyReads ==
    ASSUME NEW tabs, IsTables(tabs), NEW tabs2, IsTables(tabs2), NEW p \in TableNames, NEW e,
           tabs2[p] = tabs[p], p \in TurnReaders => SameKept(tabs, tabs2, e)
    PROVE  apply(p, tabs2, e)[p] = apply(p, tabs, e)[p]
<1> DEFINE t == e.threadId
<1>1. /\ tabs = [q \in TableNames |-> tabs[q]] /\ tabs2 = [q \in TableNames |-> tabs2[q]]
  BY DEF IsTables
<1>2. CASE p = "projects"
  BY <1>1, <1>2, NamesFacts DEF apply
<1>3. CASE p # "projects" /\ ~OfThread(e)
  BY <1>3 DEF apply
<1>4. CASE p # "projects" /\ OfThread(e)
  <2>1. apply(p, tabs, e) = ApplyToThread(p, tabs, e) /\ apply(p, tabs2, e) = ApplyToThread(p, tabs2, e)
    BY <1>4 DEF apply
  <2>2. CASE p \in {"pendingApprovals", "threads"}
    BY <1>1, <2>1, <2>2, NamesFacts DEF ApplyToThread
  <2>3. CASE p = "threadSessions"
    BY <1>1, <2>1, <2>3, NamesFacts DEF ApplyToThread
  <2>4. CASE p \in TurnReaders
    <3> DEFINE turns == TurnsOf(tabs, t)
               turns2 == TurnsOf(tabs2, t)
    <3>1. \A rows : /\ MessagesAfter(rows, turns, e) = MessagesAfter(rows, turns2, e)
                    /\ PlansAfter(rows, turns, e) = PlansAfter(rows, turns2, e)
                    /\ ActivitiesAfter(rows, turns, e) = ActivitiesAfter(rows, turns2, e)
      BY <2>4, ReadersRead DEF SameKept
    <3> HIDE DEF turns, turns2
    <3>2. CASE p = "threadMessages"
      <4>1. /\ apply(p, tabs, e)[p] = Put(tabs[p], t, MessagesAfter(RowsOf(tabs[p], t), turns, e))
            /\ apply(p, tabs2, e)[p] = Put(tabs2[p], t, MessagesAfter(RowsOf(tabs2[p], t), turns2, e))
        BY <1>1, <2>1, <3>2, NamesFacts DEF ApplyToThread, turns, turns2
      <4> QED
        BY <3>1, <4>1
    <3>3. CASE p = "threadProposedPlans"
      <4>1. /\ apply(p, tabs, e)[p] = Put(tabs[p], t, PlansAfter(RowsOf(tabs[p], t), turns, e))
            /\ apply(p, tabs2, e)[p] = Put(tabs2[p], t, PlansAfter(RowsOf(tabs2[p], t), turns2, e))
        BY <1>1, <2>1, <3>3, NamesFacts DEF ApplyToThread, turns, turns2
      <4> QED
        BY <3>1, <4>1
    <3>4. CASE p = "threadActivities"
      <4>1. /\ apply(p, tabs, e)[p] = Put(tabs[p], t, ActivitiesAfter(RowsOf(tabs[p], t), turns, e))
            /\ apply(p, tabs2, e)[p] = Put(tabs2[p], t, ActivitiesAfter(RowsOf(tabs2[p], t), turns2, e))
        BY <1>1, <2>1, <3>4, NamesFacts DEF ApplyToThread, turns, turns2
      <4> QED
        BY <3>1, <4>1
    <3> QED
      BY <2>4, <3>2, <3>3, <3>4 DEF TurnReaders
  <2>5. CASE p = "threadTurns"
    <3>1. TurnsOf(tabs2, t) = TurnsOf(tabs, t)
      BY <2>5 DEF TurnsOf
    <3> QED
      BY <1>1, <2>1, <2>5, <3>1, NamesFacts DEF ApplyToThread
  <2> QED
    BY <1>4, <2>2, <2>3, <2>4, <2>5, NamesFacts DEF TurnReaders
<1> QED
  BY <1>2, <1>3, <1>4

(***************************************************************************)
(* One event through all projectors                                        *)
(***************************************************************************)

\* The store before and after the i-th projector.
AfterProjector(stores, store, names, e, i) ==
    IF i = 0 THEN store
    ELSE IF projectors[i] \in names THEN runProjectorForEvent(stores[i - 1], projectors[i], e)
    ELSE stores[i - 1]

\* The stores of projectThrough.
Stores(stores, store, names, e, n) ==
    stores = [i \in 0..n |-> AfterProjector(stores, store, names, e, i)]

\* Each comes from the one before.
LEMMA StoresFacts ==
    ASSUME NEW f, NEW store, NEW names, NEW e, NEW n \in Nat, Stores(f, store, names, e, n)
    PROVE  /\ f[0] = store
           /\ \A i \in 1..n : f[i] = IF projectors[i] \in names
                                       THEN runProjectorForEvent(f[i - 1], projectors[i], e)
                                     ELSE f[i - 1]
<1>1. \A i \in 0..n : f[i] = AfterProjector(f, store, names, e, i)
  BY Zenon DEF Stores
<1>2. 0 \in 0..n /\ \A i \in 1..n : i \in 0..n /\ i # 0
  OBVIOUS
<1> QED
  BY <1>1, <1>2 DEF AfterProjector

\* There are such stores: a recursive function has its values.
LEMMA StoresExist ==
    ASSUME NEW store, NEW names, NEW e, NEW n \in Nat
    PROVE  \E f : Stores(f, store, names, e, n)
<1> DEFINE T == {k \in Nat : \E f : Stores(f, store, names, e, k)}
<1>1. 0 \in T
  <2> DEFINE f == [i \in 0..0 |-> store]
  <2>1. \A i \in 0..0 : AfterProjector(f, store, names, e, i) = store
    BY DEF AfterProjector
  <2>2. Stores(f, store, names, e, 0)
    BY <2>1, Zenon DEF Stores
  <2> QED
    BY <2>2
<1>2. ASSUME NEW k \in T PROVE k + 1 \in T
  <2>1. PICK f : Stores(f, store, names, e, k)
    OBVIOUS
  <2> DEFINE last == IF projectors[k + 1] \in names
                       THEN runProjectorForEvent(f[k], projectors[k + 1], e) ELSE f[k]
             g == [i \in 0..(k + 1) |-> IF i <= k THEN f[i] ELSE last]
  <2> HIDE DEF last
  <2>2. ASSUME NEW i \in 0..(k + 1) PROVE g[i] = AfterProjector(g, store, names, e, i)
    <3>1. CASE i = 0
      <4>1. g[i] = f[0] /\ f[0] = store
        BY <2>1, <3>1, StoresFacts
      <4> QED
        BY <3>1, <4>1 DEF AfterProjector
    <3>2. CASE i \in 1..k
      <4>1. g[i] = f[i] /\ g[i - 1] = f[i - 1]
            /\ f[i] = IF projectors[i] \in names
                        THEN runProjectorForEvent(f[i - 1], projectors[i], e) ELSE f[i - 1]
        BY <2>1, <3>2, StoresFacts
      <4> HIDE DEF g
      <4> QED
        BY <3>2, <4>1 DEF AfterProjector
    <3>3. CASE i = k + 1
      <4>1. g[i] = last /\ g[i - 1] = f[k]
        BY <3>3
      <4> HIDE DEF g
      <4> QED
        BY <3>3, <4>1 DEF AfterProjector, last
    <3> QED
      BY <3>1, <3>2, <3>3
  <2>3. g = [i \in 0..(k + 1) |-> g[i]]
    OBVIOUS
  <2> HIDE DEF g
  <2>4. Stores(g, store, names, e, k + 1)
    BY <2>2, <2>3 DEF Stores
  <2> QED
    BY <2>4
<1> HIDE DEF T
<1>3. T = Nat
  <2>1. T \subseteq Nat
    BY DEF T
  <2> QED
    BY <1>1, <1>2, <2>1, SetInduction
<1> QED
  BY <1>3 DEF T

\* projectThrough is the last of them.
LEMMA ThroughStores ==
    ASSUME NEW store, NEW names, NEW e, NEW n \in Nat
    PROVE  \E f : Stores(f, store, names, e, n) /\ projectThrough(store, names, e, n) = f[n]
<1>1. PICK g : Stores(g, store, names, e, n)
  BY StoresExist
<1> DEFINE f == CHOOSE f : Stores(f, store, names, e, n)
<1>2. projectThrough(store, names, e, n) = f[n]
  BY Zenon DEF projectThrough, Stores, AfterProjector
<1>3. Stores(f, store, names, e, n)
  BY <1>1, Zenon
<1> QED
  BY <1>2, <1>3

-----------------------------------------------------------------------------
(* What projecting an event does to the tables and cursors *)

\* The tables once the projectors of names have taken the event.
After(tabs, names, e) ==
    [q \in TableNames |-> IF q \in names THEN apply(q, tabs, e)[q] ELSE tabs[q]]

\* All cursors of them are at the event.
CursorAfter(cur, names, e) == [q \in ProjectorNames |-> IF q \in names THEN e.sequence ELSE cur[q]]

\* A function of the projectors.
IsCursor(cur) == cur = [q \in ProjectorNames |-> cur[q]]

\* The first i projectors have taken the event.
HalfWay(new, store, names, e, i) ==
    /\ IsTables(new.tables) /\ IsCursor(new.cursor)
    /\ \A j \in 1..9 : projectors[j] \in TableNames =>
          new.tables[projectors[j]] = IF j <= i THEN After(store.tables, names, e)[projectors[j]]
                                      ELSE store.tables[projectors[j]]
    /\ \A j \in 1..9 : new.cursor[projectors[j]] = IF j <= i /\ projectors[j] \in names
                                                     THEN e.sequence ELSE store.cursor[projectors[j]]

\* The next projector takes the event.
LEMMA HalfWayStep ==
    ASSUME NEW old, NEW store, NEW names, NEW e, NEW i \in 1..9, IsTables(store.tables),
           HalfWay(old, store, names, e, i - 1)
    PROVE  HalfWay(IF projectors[i] \in names THEN runProjectorForEvent(old, projectors[i], e)
                   ELSE old, store, names, e, i)
<1> DEFINE p == projectors[i]
           new == IF p \in names THEN runProjectorForEvent(old, p, e) ELSE old
           aft == After(store.tables, names, e)
<1>1. /\ p \in ProjectorNames /\ \A j \in 1..9 : j # i => projectors[j] # p
      /\ \A j \in 1..9 : projectors[j] \in ProjectorNames
  BY NamesFacts
<1>2. \A j \in 1..9 : j <= i - 1 <=> j <= i /\ j # i
  OBVIOUS
<1>3. CASE p \notin names
  <2>1. new = old
    BY <1>3
  <2>2. p \in TableNames => aft[p] = store.tables[p]
    BY <1>3 DEF After
  <2> HIDE DEF new, p, aft
  <2>3. ASSUME NEW j \in 1..9, projectors[j] \in TableNames
        PROVE  old.tables[projectors[j]] = IF j <= i THEN aft[projectors[j]] ELSE store.tables[projectors[j]]
    <3>1. CASE j = i
      <4>1. ~(j <= i - 1) /\ j <= i
        BY <3>1
      <4> QED
        BY <2>2, <2>3, <3>1, <4>1 DEF HalfWay, p
    <3>2. CASE j # i
      BY <1>2, <2>3, <3>2 DEF HalfWay, aft
    <3> QED
      BY <3>1, <3>2
  <2>4. ASSUME NEW j \in 1..9
        PROVE  old.cursor[projectors[j]] = IF j <= i /\ projectors[j] \in names
                                             THEN e.sequence ELSE store.cursor[projectors[j]]
    BY <1>2, <1>3 DEF HalfWay, p
  <2>5. HalfWay(new, store, names, e, i)
    BY <2>1, <2>3, <2>4 DEF HalfWay, aft
  <2> QED
    BY <2>5 DEF new, p
<1>4. CASE p \in names
  <2>1. new.tables = apply(p, old.tables, e) /\ new.cursor = [old.cursor EXCEPT ![p] = e.sequence]
    BY <1>4 DEF runProjectorForEvent
  <2>2. IsTables(old.tables) /\ IsCursor(old.cursor)
    BY DEF HalfWay
  <2> HIDE DEF new, p, aft
  <2>3. IsTables(new.tables) /\ \A q \in TableNames : q # p => new.tables[q] = old.tables[q]
    BY <1>1, <2>1, <2>2, ApplyWrites
  <2>4. p \in TableNames => new.tables[p] = aft[p]
    <3> SUFFICES ASSUME p \in TableNames PROVE new.tables[p] = aft[p]
      OBVIOUS
    <3>1. old.tables[p] = store.tables[p]
      <4>1. ~(i <= i - 1)
        OBVIOUS
      <4> QED
        BY <4>1 DEF HalfWay, p
    <3>2. p \in TurnReaders => old.tables.threadTurns = store.tables.threadTurns
      <4> SUFFICES ASSUME p \in TurnReaders PROVE old.tables.threadTurns = store.tables.threadTurns
        OBVIOUS
      <4>1. p \notin {"threadTurns", "checkpoints", "pendingApprovals", "threads"}
        BY DEF TurnReaders
      <4>2. i # 6 /\ i \notin 7..9
        BY <4>1, NamesFacts DEF p
      <4>3. ~(6 <= i - 1) /\ 6 \in 1..9
        BY <4>2
      <4>4. projectors[6] = "threadTurns" /\ "threadTurns" \in TableNames
        BY NamesFacts
      <4> QED
        BY <4>3, <4>4 DEF HalfWay
    <3>5. p \in TurnReaders => SameKept(store.tables, old.tables, e)
      BY <3>2 DEF SameKept, TurnsOf
    <3>3. apply(p, old.tables, e)[p] = apply(p, store.tables, e)[p]
      BY <2>2, <3>1, <3>5, ApplyReads
    <3>4. aft[p] = apply(p, store.tables, e)[p]
      BY <1>4 DEF After, aft
    <3> QED
      BY <2>1, <3>3, <3>4
  <2>5. IsCursor(new.cursor) /\ new.cursor[p] = e.sequence
        /\ \A q \in ProjectorNames : q # p => new.cursor[q] = old.cursor[q]
    <3>1. old.cursor = [q \in ProjectorNames |-> old.cursor[q]]
      BY <2>2 DEF IsCursor
    <3>2. new.cursor = [q \in ProjectorNames |-> IF q = p THEN e.sequence ELSE old.cursor[q]]
      BY <1>1, <2>1, <3>1
    <3> HIDE DEF new
    <3> QED
      BY <1>1, <3>2 DEF IsCursor
  <2>6. ASSUME NEW j \in 1..9, projectors[j] \in TableNames
        PROVE  new.tables[projectors[j]] = IF j <= i THEN aft[projectors[j]] ELSE store.tables[projectors[j]]
    <3>1. CASE j = i
      <4>1. j <= i
        BY <3>1
      <4> QED
        BY <2>4, <2>6, <3>1, <4>1 DEF p
    <3>2. CASE j # i
      BY <1>1, <1>2, <2>3, <2>6, <3>2 DEF HalfWay, aft
    <3> QED
      BY <3>1, <3>2
  <2>7. ASSUME NEW j \in 1..9
        PROVE  new.cursor[projectors[j]] = IF j <= i /\ projectors[j] \in names
                                             THEN e.sequence ELSE store.cursor[projectors[j]]
    <3>1. CASE j = i
      <4>1. j <= i
        BY <3>1
      <4> QED
        BY <1>4, <2>5, <3>1, <4>1 DEF p
    <3>2. CASE j # i
      BY <1>1, <1>2, <2>5, <3>2, SMTT(30) DEF HalfWay
    <3> QED
      BY <3>1, <3>2
  <2>8. HalfWay(new, store, names, e, i)
    BY <2>3, <2>5, <2>6, <2>7 DEF HalfWay, aft
  <2> QED
    BY <2>8 DEF new, p
<1> QED
  BY <1>3, <1>4

\* So do the first n, by induction.
LEMMA ThroughHalfWay ==
    ASSUME NEW store, NEW names, NEW e, NEW n \in 0..9,
           IsTables(store.tables), IsCursor(store.cursor)
    PROVE  HalfWay(projectThrough(store, names, e, n), store, names, e, n)
<1>1. PICK f : Stores(f, store, names, e, n) /\ projectThrough(store, names, e, n) = f[n]
  BY ThroughStores
<1>2. /\ f[0] = store
      /\ \A i \in 1..n : f[i] = IF projectors[i] \in names
                                  THEN runProjectorForEvent(f[i - 1], projectors[i], e) ELSE f[i - 1]
  BY <1>1, StoresFacts
<1> DEFINE T == {i \in Nat : i <= n => HalfWay(f[i], store, names, e, i)}
<1>3. 0 \in T
  <2>1. \A j \in 1..9 : ~(j <= 0)
    OBVIOUS
  <2>2. HalfWay(store, store, names, e, 0)
    BY <2>1 DEF HalfWay
  <2> QED
    BY <1>2, <2>2
<1>4. ASSUME NEW i \in T PROVE i + 1 \in T
  <2> SUFFICES ASSUME i + 1 <= n PROVE HalfWay(f[i + 1], store, names, e, i + 1)
    OBVIOUS
  <2> DEFINE k == i + 1
  <2>1. k \in 1..n /\ k \in 1..9 /\ k - 1 = i /\ HalfWay(f[k - 1], store, names, e, k - 1)
    OBVIOUS
  <2> HIDE DEF k
  <2>2. f[k] = IF projectors[k] \in names
                 THEN runProjectorForEvent(f[k - 1], projectors[k], e) ELSE f[k - 1]
    BY <1>2, <2>1
  <2>3. HalfWay(f[k], store, names, e, k)
    BY <2>1, <2>2, HalfWayStep
  <2> QED
    BY <2>3 DEF k
<1> HIDE DEF T
<1>5. T = Nat
  <2>1. T \subseteq Nat
    BY DEF T
  <2> QED
    BY <1>3, <1>4, <2>1, SetInduction
<1> QED
  BY <1>1, <1>5 DEF T

\* The event has gone through all of them.
LEMMA ThroughAll ==
    ASSUME NEW store, NEW names, NEW e, IsTables(store.tables), IsCursor(store.cursor)
    PROVE  LET new == projectThrough(store, names, e, Len(projectors))
           IN  new.tables = After(store.tables, names, e) /\ new.cursor = CursorAfter(store.cursor, names, e)
<1> DEFINE new == projectThrough(store, names, e, 9)
<1>1. HalfWay(new, store, names, e, 9)
  BY ThroughHalfWay
<1> HIDE DEF new
<1>2. \A j \in 1..9 : j <= 9
  OBVIOUS
<1>3. \A q \in TableNames : new.tables[q] = After(store.tables, names, e)[q]
  <2> TAKE q \in TableNames
  <2>1. PICK j \in 1..9 : projectors[j] = q
    BY NamesFacts
  <2> QED
    BY <1>1, <1>2, <2>1 DEF HalfWay
<1>4. new.tables = After(store.tables, names, e)
  <2>1. new.tables = [q \in TableNames |-> new.tables[q]]
    BY <1>1 DEF HalfWay, IsTables
  <2>2. After(store.tables, names, e) = [q \in TableNames |-> After(store.tables, names, e)[q]]
    BY DEF After
  <2> HIDE DEF TableNames
  <2> QED
    BY <1>3, <2>1, <2>2
<1>5. \A q \in ProjectorNames : new.cursor[q] = CursorAfter(store.cursor, names, e)[q]
  <2> TAKE q \in ProjectorNames
  <2>1. PICK j \in 1..9 : projectors[j] = q
    BY NamesFacts
  <2>2. new.cursor[q] = IF q \in names THEN e.sequence ELSE store.cursor[q]
    BY <1>1, <1>2, <2>1 DEF HalfWay
  <2> QED
    BY <2>2 DEF CursorAfter
<1>6. new.cursor = CursorAfter(store.cursor, names, e)
  <2>1. new.cursor = [q \in ProjectorNames |-> new.cursor[q]]
    BY <1>1 DEF HalfWay, IsCursor
  <2>2. CursorAfter(store.cursor, names, e) = [q \in ProjectorNames |-> CursorAfter(store.cursor, names, e)[q]]
    BY DEF CursorAfter
  <2> HIDE DEF ProjectorNames
  <2> QED
    BY <1>5, <2>1, <2>2
<1> QED
  BY <1>4, <1>6, NamesFacts DEF new

\* What comes out are tables and cursors.
LEMMA AfterIsTables ==
    ASSUME NEW tabs, NEW names, NEW e, NEW cur
    PROVE  IsTables(After(tabs, names, e)) /\ IsCursor(CursorAfter(cur, names, e))
<1>1. After(tabs, names, e) = [q \in TableNames |-> After(tabs, names, e)[q]]
  BY DEF After
<1>2. CursorAfter(cur, names, e) = [q \in ProjectorNames |-> CursorAfter(cur, names, e)[q]]
  BY DEF CursorAfter
<1> QED
  BY <1>1, <1>2 DEF IsTables, IsCursor

(***************************************************************************)
(* The events of a command                                                 *)
(***************************************************************************)

\* The events that are about a project.
ProjectEventTypes == {"project.created", "project.meta-updated", "project.deleted"}

\* What the projectors rely on in an event.
EventOK(e) ==
    /\ OfThread(e) <=> e.type \notin ProjectEventTypes
    /\ e.type = "thread.turn-diff-completed" => e.turnId # Null

\* The fields in which events differ from their command.
PayloadFields == {"type", "runtimeMode", "interactionMode", "role", "streaming", "text", "turnId"}

\* The type of a command's event is the one CommandEvents gives it.
LEMMA EventTypes ==
    ASSUME NEW type \in DOMAIN EventTypeOf
    PROVE  <<type, EventTypeOf[type]>> \in CommandEvents
<1>1. PICK p \in CommandEvents : p[1] = type
  BY DEF EventTypeOf
<1> DEFINE q == CHOOSE q \in CommandEvents : q[1] = type
<1>2. q \in CommandEvents /\ q[1] = type
  BY <1>1
<1>3. EventTypeOf[type] = q[2]
  BY DEF EventTypeOf
<1>4. \A x \in CommandEvents : x = <<x[1], x[2]>>
  BY DEF CommandEvents
<1>5. q = <<q[1], q[2]>>
  BY <1>2, <1>4
<1> HIDE DEF q
<1> QED
  BY <1>2, <1>3, <1>5

\* The types of events that the proofs tell apart.
LEMMA EventTypeFacts ==
    ASSUME NEW type \in DOMAIN EventTypeOf
    PROVE  /\ EventTypeOf[type] \in ProjectEventTypes
                 <=> type \in {"project.create", "project.meta.update", "project.delete"}
           /\ EventTypeOf[type] = "thread.turn-diff-completed" => type = "thread.turn.diff.complete"
           /\ EventTypeOf[type] = "thread.turn-start-requested" => type = "thread.turn.start"
           /\ EventTypeOf[type] = "thread.created" => type = "thread.create"
           /\ EventTypeOf[type] = "thread.reverted" => type = "thread.revert.complete"
           /\ type = "thread.turn.start" => EventTypeOf[type] = "thread.turn-start-requested"
<1>1. <<type, EventTypeOf[type]>> \in CommandEvents
  BY EventTypes
<1> QED
  BY <1>1 DEF CommandEvents, ProjectEventTypes

\* The event e has the fields of the command c that are not among these, and a type.
KeepsPayload(e, c) ==
    /\ \A x : x \notin PayloadFields => (x \in DOMAIN e <=> x \in DOMAIN c)
    /\ \A x \in DOMAIN c : x \notin PayloadFields => e[x] = c[x]
    /\ "type" \in DOMAIN e

\* Every other field of a command is one of its event.
LEMMA EventFields ==
    ASSUME NEW model, NEW c, NEW e \in {EventOf(model, c), UserMessageEvent(c)}
    PROVE  /\ \A x : x \notin PayloadFields => (x \in DOMAIN e <=> x \in DOMAIN c)
           /\ \A x \in DOMAIN c : x \notin PayloadFields => e[x] = c[x]
           /\ "type" \in DOMAIN e
           /\ e = EventOf(model, c) =>
                /\ e.type = EventTypeOf[c.type]
                /\ "turnId" \in DOMAIN c => "turnId" \in DOMAIN e /\ e.turnId = c.turnId
           /\ e = UserMessageEvent(c) =>
                /\ "role" \in DOMAIN e /\ "turnId" \in DOMAIN e
                /\ e.type = "thread.message-sent" /\ e.role = "user" /\ e.turnId = Null
<1>1. CASE e = EventOf(model, c)
  <2> DEFINE patch == PayloadPatch(model, c)
  <2>1. DOMAIN patch \subseteq PayloadFields \ {"turnId"}
    <3>1. DOMAIN NoPatch = {}
      BY DEF NoPatch
    <3> HIDE DEF NoPatch
    <3>2. CASE c.type = "thread.turn.start"
      BY <3>2 DEF PayloadPatch, PayloadFields
    <3>3. CASE c.type = "thread.message.assistant.delta"
      BY <3>3 DEF PayloadPatch, PayloadFields
    <3>4. CASE c.type = "thread.message.assistant.complete"
      BY <3>4 DEF PayloadPatch, PayloadFields
    <3>5. CASE c.type \notin {"thread.turn.start", "thread.message.assistant.delta",
                              "thread.message.assistant.complete"}
      <4>1. patch = NoPatch
        BY <3>5 DEF PayloadPatch
      <4> QED
        BY <3>1, <4>1
    <3> QED
      BY <3>2, <3>3, <3>4, <3>5
  <2> HIDE DEF patch
  <2>2. e = Put(Patch(c, patch), "type", EventTypeOf[c.type])
    BY <1>1 DEF EventOf, patch
  <2>3. DOMAIN e = DOMAIN c \cup DOMAIN patch \cup {"type"}
    BY <2>2 DEF Put, Patch
  <2>4. e.type = EventTypeOf[c.type]
    BY <2>2 DEF Put, Patch
  <2>5. \A x \in DOMAIN c : x \notin DOMAIN patch /\ x # "type" => e[x] = c[x]
    BY <2>2 DEF Put, Patch
  <2>6. e # UserMessageEvent(c)
          \/ (/\ "role" \in DOMAIN e /\ "turnId" \in DOMAIN e
              /\ e.type = "thread.message-sent" /\ e.role = "user" /\ e.turnId = Null)
    BY DEF UserMessageEvent, Patch
  <2> QED
    BY <2>1, <2>3, <2>4, <2>5, <2>6 DEF PayloadFields
<1>2. CASE e = UserMessageEvent(c) /\ e # EventOf(model, c)
  <2> DEFINE patch == [type |-> "thread.message-sent", role |-> "user", turnId |-> Null, streaming |-> FALSE]
  <2>1. e = Patch(c, patch)
    BY <1>2 DEF UserMessageEvent
  <2>2. DOMAIN patch = {"type", "role", "turnId", "streaming"} /\ patch.type = "thread.message-sent"
        /\ patch.role = "user" /\ patch.turnId = Null
    OBVIOUS
  <2> HIDE DEF patch
  <2>3. /\ DOMAIN e = DOMAIN c \cup DOMAIN patch
        /\ \A x \in DOMAIN patch : e[x] = patch[x]
        /\ \A x \in DOMAIN c : x \notin DOMAIN patch => e[x] = c[x]
    BY <2>1 DEF Patch
  <2> QED
    BY <1>2, <2>2, <2>3 DEF PayloadFields
<1> QED
  BY <1>1, <1>2

\* The events that the command c appends to a log of n.
EventsOK(events, c, n) ==
    /\ IsSeq(events) /\ Len(events) \in 1..2
    /\ \A i \in 1..Len(events) : EventOK(events[i]) /\ events[i].sequence = n + i
    /\ \A i \in 1..Len(events) : OfThread(events[i]) =>
          OfThread(c) /\ events[i].threadId = c.threadId
    /\ \A i \in 1..Len(events) :
          /\ events[i].type = "thread.created" => c.type = "thread.create"
          /\ events[i].type = "thread.reverted" => c.type = "thread.revert.complete"
          /\ events[i].type = "thread.turn-diff-completed" => c.type = "thread.turn.diff.complete"
    /\ \A i \in 1..Len(events) : \A x \in DOMAIN c :
          x \notin PayloadFields /\ x # "sequence" => events[i][x] = c[x]
    /\ Len(events) = 2 =>
          /\ c.type = "thread.turn.start" /\ OfThread(c)
          /\ events[1].type = "thread.message-sent" /\ events[1].role = "user"
          /\ events[1].turnId = Null
          /\ events[2].type = "thread.turn-start-requested"
          /\ events[1].messageId = c.messageId /\ events[2].messageId = c.messageId
    /\ events[1].type # "thread.turn-start-requested"
    /\ \A i \in 1..Len(events) : "attachments" \in DOMAIN events[i] =>
          events[i].attachments = Attachments(c)

\* What decideOrchestrationCommand gives is such a batch.
LEMMA EventsFacts ==
    ASSUME Len(log) \in 0..MaxEvents, NEW c \in Commands(Len(log))
    PROVE  EventsOK(EventsOf(c), c, Len(log))
<1> DEFINE bases == decideOrchestrationCommand(readModel, c)
           events == EventsOf(c)
           main == EventOf(readModel, c)
           user == UserMessageEvent(c)
<1>1. /\ c.type \in DOMAIN EventTypeOf
      /\ OfThread(c) <=> c.type \notin {"project.create", "project.meta.update", "project.delete"}
      /\ c.type = "thread.turn.start" => "messageId" \in DOMAIN c
      /\ c.type = "thread.turn.diff.complete" => "turnId" \in DOMAIN c /\ c.turnId # Null
  BY CommandsAssumption
<1>2. IF c.type = "thread.turn.start" THEN bases = <<user, main>> ELSE bases = <<main>>
  BY DEF decideOrchestrationCommand
<1>3. IsSeq(bases) /\ Len(bases) = (IF c.type = "thread.turn.start" THEN 2 ELSE 1)
      /\ DOMAIN bases = 1..Len(bases)
      /\ (c.type = "thread.turn.start" => bases[1] = user /\ bases[2] = main)
      /\ (c.type # "thread.turn.start" => bases[1] = main)
  <2> HIDE DEF bases, user, main
  <2>1. CASE c.type = "thread.turn.start"
    <3>1. bases = <<user, main>>
      BY <1>2, <2>1
    <3>2. IsSeq(bases) /\ Len(bases) = 2 /\ bases[1] = user /\ bases[2] = main
      BY <3>1, PairFacts
    <3> QED
      BY <2>1, <3>2, SeqDomain
  <2>2. CASE c.type # "thread.turn.start"
    BY <1>2, <2>2, SingletonFacts, SeqDomain
  <2> QED
    BY <2>1, <2>2
<1> HIDE DEF bases
<1>4. events = [i \in 1..Len(bases) |-> Put(bases[i], "sequence", Len(log) + i)]
  BY <1>3 DEF EventsOf, bases
<1> HIDE DEF events
<1>5. Len(bases) \in 1..2 /\ Len(bases) \in Nat
  BY <1>3
<1>6. IsSeq(events) /\ Len(events) = Len(bases)
  <2>1. events \in Seq({events[i] : i \in 1..Len(bases)})
    BY <1>4, <1>5
  <2>2. IsSeq(events)
    BY <2>1 DEF IsSeq
  <2>3. DOMAIN events = 1..Len(bases) /\ DOMAIN events = 1..Len(events) /\ Len(events) \in Nat
    BY <1>4, <2>2, SeqDomain
  <2> QED
    BY <1>5, <2>2, <2>3
<1>7. \A i \in 1..Len(events) : events[i] = Put(bases[i], "sequence", Len(log) + i)
  BY <1>4, <1>6
<1>8. \A i \in 1..Len(events) : /\ events[i].sequence = Len(log) + i
                                /\ DOMAIN events[i] = DOMAIN bases[i] \cup {"sequence"}
                                /\ \A x \in DOMAIN bases[i] : x # "sequence" => events[i][x] = bases[i][x]
  BY <1>7, ZenonT(60) DEF Put
<1>9. \A i \in 1..Len(events) : bases[i] \in {main, user}
  BY <1>3, <1>6
<1>24. KeepsPayload(main, c) /\ KeepsPayload(user, c)
  BY EventFields DEF KeepsPayload
<1>23. \A i \in 1..Len(events) : KeepsPayload(bases[i], c)
  <2> HIDE DEF main, user
  <2> QED
    BY <1>9, <1>24
<1>22. \A i \in 1..Len(events) : \A x \in DOMAIN c :
          x \notin PayloadFields /\ x # "sequence" => events[i][x] = c[x]
  <2> SUFFICES ASSUME NEW i \in 1..Len(events)
               PROVE  \A x \in DOMAIN c :
                         x \notin PayloadFields /\ x # "sequence" => events[i][x] = c[x]
    OBVIOUS
  <2> QED
    BY <1>8, <1>23 DEF KeepsPayload
<1>10. \A i \in 1..Len(events) :
         /\ \A x \in {"threadId", "messageId", "attachments"} :
               /\ x \in DOMAIN events[i] <=> x \in DOMAIN c
               /\ x \in DOMAIN c => events[i][x] = c[x]
         /\ events[i].type = bases[i].type
         /\ \A x \in {"turnId", "role"} : x \in DOMAIN bases[i] => events[i][x] = bases[i][x]
  <2> SUFFICES ASSUME NEW i \in 1..Len(events)
               PROVE  /\ \A x \in {"threadId", "messageId", "attachments"} :
                           /\ x \in DOMAIN events[i] <=> x \in DOMAIN c
                           /\ x \in DOMAIN c => events[i][x] = c[x]
                      /\ events[i].type = bases[i].type
                      /\ \A x \in {"turnId", "role"} : x \in DOMAIN bases[i] => events[i][x] = bases[i][x]
    OBVIOUS
  <2>2. /\ \A x : x \notin PayloadFields => (x \in DOMAIN bases[i] <=> x \in DOMAIN c)
        /\ \A x \in DOMAIN c : x \notin PayloadFields => bases[i][x] = c[x]
        /\ "type" \in DOMAIN bases[i]
    BY <1>23 DEF KeepsPayload
  <2>3. \A x \in {"threadId", "messageId", "attachments"} : x \notin PayloadFields /\ x # "sequence"
    BY DEF PayloadFields
  <2>4. \A x \in {"threadId", "messageId", "attachments"} :
           /\ x \in DOMAIN events[i] <=> x \in DOMAIN c
           /\ x \in DOMAIN c => events[i][x] = c[x]
    BY <1>8, <2>2, <2>3
  <2>5. events[i].type = bases[i].type
        /\ \A x \in {"turnId", "role"} : x \in DOMAIN bases[i] => events[i][x] = bases[i][x]
    BY <1>8, <2>2
  <2> QED
    BY <2>4, <2>5
<1>11. /\ \A i \in 1..Len(events) : (c.type = "thread.turn.start" /\ i = 1) \/ bases[i] = main
       /\ c.type = "thread.turn.start" => bases[1] = user /\ bases[2] = main
       /\ Len(events) = 2 <=> c.type = "thread.turn.start"
       /\ Len(events) \in 1..2
  BY <1>3, <1>6
<1>12. main.type = EventTypeOf[c.type]
       /\ ("turnId" \in DOMAIN c => "turnId" \in DOMAIN main /\ main.turnId = c.turnId)
  BY EventFields
<1>13. /\ "role" \in DOMAIN user /\ "turnId" \in DOMAIN user
       /\ user.type = "thread.message-sent" /\ user.role = "user" /\ user.turnId = Null
  BY EventFields
<1> HIDE DEF main, user
<1>14. /\ EventTypeOf[c.type] \in ProjectEventTypes
             <=> c.type \in {"project.create", "project.meta.update", "project.delete"}
       /\ EventTypeOf[c.type] = "thread.turn-diff-completed" => c.type = "thread.turn.diff.complete"
       /\ EventTypeOf[c.type] = "thread.turn-start-requested" => c.type = "thread.turn.start"
       /\ EventTypeOf[c.type] = "thread.created" => c.type = "thread.create"
       /\ EventTypeOf[c.type] = "thread.reverted" => c.type = "thread.revert.complete"
       /\ c.type = "thread.turn.start" => EventTypeOf[c.type] = "thread.turn-start-requested"
  BY <1>1, EventTypeFacts
<1>15. ASSUME NEW i \in 1..Len(events) PROVE OfThread(events[i]) <=> OfThread(c)
  BY <1>10 DEF OfThread
<1>16. ASSUME c.type = "thread.turn.start"
       PROVE  /\ Len(events) = 2 /\ OfThread(c)
              /\ events[1].type = "thread.message-sent" /\ events[1].role = "user"
              /\ events[1].turnId = Null
              /\ events[2].type = "thread.turn-start-requested"
              /\ events[1].messageId = c.messageId /\ events[2].messageId = c.messageId
  <2>0. Len(events) = 2
    BY <1>11, <1>16
  <2>1. Len(events) = 2 /\ 1 \in 1..Len(events) /\ 2 \in 1..Len(events)
    BY <2>0
  <2>2. OfThread(c) /\ "messageId" \in DOMAIN c
    BY <1>1, <1>16
  <2>3. bases[1] = user /\ bases[2] = main
    BY <1>11, <1>16
  <2>4. events[1].messageId = c.messageId /\ events[2].messageId = c.messageId
    BY <1>10, <2>1, <2>2
  <2>5. events[1].type = "thread.message-sent" /\ events[1].role = "user" /\ events[1].turnId = Null
    BY <1>10, <1>13, <2>1, <2>3
  <2>6. events[2].type = "thread.turn-start-requested"
    BY <1>10, <1>12, <1>14, <1>16, <2>1, <2>3
  <2> QED
    BY <2>1, <2>2, <2>4, <2>5, <2>6
<1>17. ASSUME NEW i \in 1..Len(events), bases[i] = main
       PROVE  /\ events[i].type = EventTypeOf[c.type]
              /\ "turnId" \in DOMAIN c => events[i].turnId = c.turnId
  BY <1>10, <1>12, <1>17
<1>18. ASSUME NEW i \in 1..Len(events) PROVE EventOK(events[i])
  <2>1. CASE c.type = "thread.turn.start" /\ i = 1
    BY <1>15, <1>16, <2>1 DEF EventOK, ProjectEventTypes
  <2>2. CASE bases[i] = main
    BY <1>1, <1>14, <1>15, <1>17, <2>2 DEF EventOK
  <2> QED
    BY <1>11, <2>1, <2>2
<1>19. ASSUME NEW i \in 1..Len(events)
       PROVE  /\ events[i].type = "thread.created" => c.type = "thread.create"
              /\ events[i].type = "thread.reverted" => c.type = "thread.revert.complete"
              /\ events[i].type = "thread.turn-diff-completed" => c.type = "thread.turn.diff.complete"
  <2>1. CASE c.type = "thread.turn.start" /\ i = 1
    BY <1>16, <2>1
  <2>2. CASE bases[i] = main
    BY <1>14, <1>17, <2>2
  <2> QED
    BY <1>11, <2>1, <2>2
<1>20. events[1].type # "thread.turn-start-requested"
  <2>1. CASE c.type = "thread.turn.start"
    BY <1>16, <2>1
  <2>2. CASE c.type # "thread.turn.start"
    <3>1. 1 \in 1..Len(events) /\ bases[1] = main
      BY <1>11, <2>2
    <3> QED
      BY <1>14, <1>17, <2>2, <3>1
  <2> QED
    BY <2>1, <2>2
<1>21. \A i \in 1..Len(events) :
         /\ "attachments" \in DOMAIN events[i] => events[i].attachments = Attachments(c)
         /\ OfThread(events[i]) => OfThread(c) /\ events[i].threadId = c.threadId
  BY <1>10 DEF Attachments, OfThread
<1> QED
  <2>1. \A i \in 1..Len(events) : EventOK(events[i]) /\ events[i].sequence = Len(log) + i
    BY <1>8, <1>18
  <2>2. IsSeq(events) /\ Len(events) \in 1..2
    BY <1>6, <1>11
  <2>3. Len(events) = 2 => c.type = "thread.turn.start"
    BY <1>11
  <2>4. \A i \in 1..Len(events) : OfThread(events[i]) =>
           OfThread(c) /\ events[i].threadId = c.threadId
    BY <1>21
  <2>5. \A i \in 1..Len(events) :
          /\ events[i].type = "thread.created" => c.type = "thread.create"
          /\ events[i].type = "thread.reverted" => c.type = "thread.revert.complete"
          /\ events[i].type = "thread.turn-diff-completed" => c.type = "thread.turn.diff.complete"
    BY <1>19
  <2>6. Len(events) = 2 =>
          /\ c.type = "thread.turn.start" /\ OfThread(c)
          /\ events[1].type = "thread.message-sent" /\ events[1].role = "user"
          /\ events[1].turnId = Null
          /\ events[2].type = "thread.turn-start-requested"
          /\ events[1].messageId = c.messageId /\ events[2].messageId = c.messageId
    BY <1>16, <2>3
  <2>7. \A i \in 1..Len(events) : "attachments" \in DOMAIN events[i] =>
           events[i].attachments = Attachments(c)
    BY <1>21
  <2>9. \A i \in 1..Len(events) : \A x \in DOMAIN c :
           x \notin PayloadFields /\ x # "sequence" => events[i][x] = c[x]
    BY <1>22
  <2>8. EventsOK(events, c, Len(log))
    BY <1>20, <2>1, <2>2, <2>4, <2>5, <2>6, <2>7, <2>9, Zenon DEF EventsOK
  <2> QED
    BY <2>8 DEF events

(***************************************************************************)
(* The rows of turns and approvals                                         *)
(***************************************************************************)

\* The columns of a row.
TurnFields == {"turnId", "state", "pendingMessageId", "assistantMessageId",
               "checkpointTurnCount", "checkpointStatus", "checkpointRef"}

\* A row of the turns; the one without a turnId waits for its turn.
TurnOK(turn) ==
    /\ turn = [f \in TurnFields |-> turn[f]]
    /\ turn.state \in TurnStates
    /\ turn.state = "pending" <=> turn.turnId = Null
    /\ turn.turnId = Null => turn.checkpointTurnCount = Null

\* No two of them are of one turn.
TurnsOK(turns) ==
    /\ \A turn \in turns : TurnOK(turn)
    /\ \A turn, other \in turns : turn.turnId = other.turnId => turn = other

\* A turn that has finished still has, unless the event takes that back.
FinishedKept(turns, new, e) ==
    \A turn \in turns : Finished(turn) =>
        \/ TakesBack(e, turn.turnId)
        \/ \E after \in new : after.turnId = turn.turnId /\ Finished(after)

\* The row that a projector makes is one.
LEMMA NewTurnOK == \A id : id # Null => TurnOK(NewTurn(id)) /\ NewTurn(id).turnId = id
                                        /\ NewTurn(id).state = "running"
BY DEF TurnOK, NewTurn, TurnFields, TurnStates

\* So is the row it looks up.
LEMMA TurnRowFacts ==
    ASSUME NEW turns, TurnsOK(turns), NEW id, id # Null
    PROVE  LET row == TurnRow(turns, id)
           IN  /\ TurnOK(row) /\ row.turnId = id
               /\ \A turn \in turns : turn.turnId = id => turn = row
               /\ row.state \in {"completed", "error"} => row \in turns
<1> DEFINE existing == {turn \in turns : turn.turnId = id}
           row == TurnRow(turns, id)
<1>1. CASE existing = {}
  <2>1. row = NewTurn(id)
    BY <1>1 DEF TurnRow
  <2> HIDE DEF row
  <2> QED
    BY <1>1, <2>1, NewTurnOK DEF row
<1>2. CASE existing # {}
  <2>1. row = CHOOSE turn \in existing : TRUE
    BY <1>2 DEF TurnRow
  <2> HIDE DEF row
  <2>2. row \in existing
    BY <1>2, <2>1
  <2> QED
    BY <2>2 DEF row, TurnsOK
<1> QED
  BY <1>1, <1>2

\* The row of a turn is replaced.
LEMMA UpsertOK ==
    ASSUME NEW turns, TurnsOK(turns), NEW row, TurnOK(row)
    PROVE  TurnsOK(upsertByTurnId(turns, row))
BY DEF TurnsOK, upsertByTurnId

\* Rows of turns as they may be after an event: what has finished still has.
LEMMA UpsertKept ==
    ASSUME NEW turns, NEW mid, NEW row, NEW e,
           FinishedKept(turns, mid, e),
           \A turn \in turns : turn.turnId = row.turnId /\ Finished(turn)
               => Finished(row) \/ TakesBack(e, turn.turnId)
    PROVE  FinishedKept(turns, upsertByTurnId(mid, row), e)
<1> SUFFICES ASSUME NEW turn \in turns, Finished(turn), ~TakesBack(e, turn.turnId)
             PROVE  \E after \in upsertByTurnId(mid, row) : after.turnId = turn.turnId /\ Finished(after)
  BY DEF FinishedKept
<1>1. CASE turn.turnId = row.turnId
  BY <1>1 DEF upsertByTurnId
<1>2. CASE turn.turnId # row.turnId
  BY <1>2 DEF FinishedKept, upsertByTurnId
<1> QED
  BY <1>1, <1>2

\* Some rows of a thread are its rows.
LEMMA FewerOK ==
    ASSUME NEW turns, TurnsOK(turns), NEW new, new \subseteq turns
    PROVE  TurnsOK(new)
BY DEF TurnsOK

\* Those that stay keep what has finished.
LEMMA SelfKept ==
    ASSUME NEW turns, NEW new, \A turn \in turns : Finished(turn) => turn \in new
    PROVE  \A e : FinishedKept(turns, new, e)
BY DEF FinishedKept

\* What an EXCEPT makes of a row.
LEMMA RowExcept ==
    ASSUME NEW row, TurnOK(row), NEW f \in TurnFields, NEW v
    PROVE  LET new == [row EXCEPT ![f] = v]
           IN  /\ new = [g \in TurnFields |-> new[g]]
               /\ new[f] = v /\ \A g \in TurnFields : g # f => new[g] = row[g]
<1> DEFINE new == [row EXCEPT ![f] = v]
<1>1. row = [g \in TurnFields |-> row[g]]
  BY DEF TurnOK
<1> HIDE DEF TurnFields
<1>2. new = [g \in TurnFields |-> IF g = f THEN v ELSE row[g]]
  BY <1>1
<1> HIDE DEF new
<1> QED
  BY <1>2 DEF new

\* A session that runs a turn leaves rows, and the finished ones finished.
LEMMA TurnRunsOK ==
    ASSUME NEW turns, TurnsOK(turns), NEW id, id # Null
    PROVE  TurnsOK(TurnRuns(turns, id)) /\ \A e : FinishedKept(turns, TurnRuns(turns, id), e)
<1> DEFINE pending == {turn \in turns : IsPendingTurnStart(turn)}
           messageId == IF pending = {} THEN Null ELSE (CHOOSE turn \in pending : TRUE).pendingMessageId
           row == TurnRow(turns, id)
           new == [row EXCEPT !.state = RunningState(@),
                              !.pendingMessageId = IF @ # Null THEN @ ELSE messageId]
<1>1. TurnRuns(turns, id) = upsertByTurnId(turns \ pending, new)
  BY DEF TurnRuns
<1>2. /\ TurnOK(row) /\ row.turnId = id
      /\ \A turn \in turns : turn.turnId = id => turn = row
  BY TurnRowFacts
<1>5. TurnsOK(turns \ pending) /\ \A e : FinishedKept(turns, turns \ pending, e)
  <2>1. \A turn \in turns : Finished(turn) => turn \in turns \ pending
    BY DEF Finished, IsPendingTurnStart
  <2> HIDE DEF pending
  <2> QED
    BY <2>1, SelfKept, FewerOK
<1> HIDE DEF messageId, row, pending
<1>3. new.turnId = id /\ new.state = RunningState(row.state)
      /\ new = [f \in TurnFields |-> new[f]]
      /\ row.state \in TurnStates /\ row.state # "pending"
  BY <1>2 DEF TurnOK, TurnFields
<1> HIDE DEF new
<1>4. TurnOK(new)
  BY <1>3 DEF TurnOK, RunningState, TurnStates
<1>6. \A turn \in turns : turn.turnId = new.turnId /\ Finished(turn) => Finished(new)
  BY <1>2, <1>3 DEF RunningState, Finished
<1>7. TurnsOK(TurnRuns(turns, id))
  BY <1>1, <1>4, <1>5, UpsertOK
<1>8. ASSUME NEW e PROVE FinishedKept(turns, TurnRuns(turns, id), e)
  BY <1>1, <1>5, <1>6, UpsertKept
<1> QED
  BY <1>7, <1>8

\* So does a message of the assistant,
LEMMA AssistantMessageOK ==
    ASSUME NEW turns, TurnsOK(turns), NEW e, e.turnId # Null
    PROVE  TurnsOK(AssistantMessageSent(turns, e)) /\ FinishedKept(turns, AssistantMessageSent(turns, e), e)
<1> DEFINE row == TurnRow(turns, e.turnId)
           new == [row EXCEPT !.assistantMessageId = e.messageId,
                              !.state = IF e.streaming \/ @ \in {"interrupted", "error"} THEN @
                                        ELSE "completed"]
<1>1. AssistantMessageSent(turns, e) = upsertByTurnId(turns, new)
  BY DEF AssistantMessageSent
<1>2. /\ TurnOK(row) /\ row.turnId = e.turnId
      /\ \A turn \in turns : turn.turnId = e.turnId => turn = row
  BY TurnRowFacts
<1> HIDE DEF row
<1>3. new.turnId = e.turnId /\ new.state \in {row.state, "completed"}
      /\ new = [f \in TurnFields |-> new[f]]
      /\ row.state \in TurnStates /\ row.state # "pending"
  BY <1>2 DEF TurnOK, TurnFields
<1> HIDE DEF new
<1>4. TurnOK(new)
  BY <1>3 DEF TurnOK, TurnStates
<1>5. \A turn \in turns : turn.turnId = new.turnId /\ Finished(turn) => Finished(new)
  BY <1>2, <1>3 DEF Finished
<1>6. FinishedKept(turns, turns, e)
  BY SelfKept
<1> QED
  BY <1>1, <1>4, <1>5, <1>6, UpsertOK, UpsertKept

\* an interrupt,
LEMMA TurnInterruptedOK ==
    ASSUME NEW turns, TurnsOK(turns), NEW e, e.turnId # Null,
           e.type = "thread.turn-interrupt-requested"
    PROVE  TurnsOK(TurnInterrupted(turns, e)) /\ FinishedKept(turns, TurnInterrupted(turns, e), e)
<1> DEFINE row == TurnRow(turns, e.turnId)
           new == [row EXCEPT !.state = "interrupted"]
<1>1. TurnInterrupted(turns, e) = upsertByTurnId(turns, new)
  BY DEF TurnInterrupted
<1>2. TurnOK(row) /\ row.turnId = e.turnId
  BY TurnRowFacts
<1> HIDE DEF row
<1>3. new.turnId = e.turnId /\ new.state = "interrupted" /\ new = [f \in TurnFields |-> new[f]]
  BY <1>2 DEF TurnOK, TurnFields
<1> HIDE DEF new
<1>4. TurnOK(new)
  BY <1>3 DEF TurnOK, TurnStates
<1>5. \A turn \in turns : turn.turnId = new.turnId => TakesBack(e, turn.turnId)
  BY <1>3 DEF TakesBack
<1>6. FinishedKept(turns, turns, e)
  BY SelfKept
<1> QED
  BY <1>1, <1>4, <1>5, <1>6, UpsertOK, UpsertKept

\* a checkpoint that is taken from other turns,
LEMMA ClearConflictOK ==
    ASSUME NEW turns, TurnsOK(turns), NEW e
    PROVE  LET new == clearCheckpointTurnConflict(turns, e)
           IN  /\ TurnsOK(new) /\ FinishedKept(turns, new, e)
               /\ \A after \in new : \E turn \in turns :
                     /\ after.turnId = turn.turnId /\ after.state = turn.state
                     /\ after.pendingMessageId = turn.pendingMessageId
                     /\ after.checkpointTurnCount \in {turn.checkpointTurnCount, Null}
<1> DEFINE Cleared(turn) == [turn EXCEPT !.checkpointTurnCount = Null, !.checkpointStatus = Null,
                                         !.checkpointRef = Null]
           Image(turn) == IF turn.turnId # e.turnId /\ turn.checkpointTurnCount = e.checkpointTurnCount
                            THEN Cleared(turn) ELSE turn
           new == clearCheckpointTurnConflict(turns, e)
<1>1. new = {Image(turn) : turn \in turns}
  BY DEF clearCheckpointTurnConflict
<1>2. ASSUME NEW turn \in turns
      PROVE  /\ TurnOK(Image(turn)) /\ Image(turn).turnId = turn.turnId
             /\ Image(turn).state = turn.state /\ Image(turn).pendingMessageId = turn.pendingMessageId
             /\ Image(turn).checkpointTurnCount \in {turn.checkpointTurnCount, Null}
  <2>1. TurnOK(turn)
    BY DEF TurnsOK
  <2> DEFINE c == Cleared(turn)
  <2>2. /\ c = [f \in TurnFields |-> c[f]] /\ c.turnId = turn.turnId /\ c.state = turn.state
        /\ c.pendingMessageId = turn.pendingMessageId /\ c.checkpointTurnCount = Null
    BY <2>1 DEF TurnOK, TurnFields
  <2> HIDE DEF c
  <2>3. TurnOK(c)
    BY <2>1, <2>2 DEF TurnOK
  <2>4. Image(turn) = c \/ Image(turn) = turn
    BY DEF c
  <2> HIDE DEF Image
  <2> QED
    BY <2>1, <2>2, <2>3, <2>4
<1> HIDE DEF Image, new
<1>3. \A turn, other \in turns : turn.turnId = other.turnId => turn = other
  BY DEF TurnsOK
<1>4. TurnsOK(new)
  BY <1>1, <1>2, <1>3 DEF TurnsOK
<1>5. FinishedKept(turns, new, e)
  BY <1>1, <1>2 DEF FinishedKept, Finished
<1> QED
  BY <1>1, <1>2, <1>4, <1>5 DEF new

\* a checkpoint,
LEMMA TurnDiffOK ==
    ASSUME NEW turns, TurnsOK(turns), NEW e, e.turnId # Null
    PROVE  TurnsOK(TurnDiffCompleted(turns, e)) /\ FinishedKept(turns, TurnDiffCompleted(turns, e), e)
<1> DEFINE row == TurnRow(turns, e.turnId)
           mid == clearCheckpointTurnConflict(turns, e)
           new == [row EXCEPT !.assistantMessageId  = e.assistantMessageId,
                        !.state               = IF e.status = "error" THEN "error"
                                                ELSE "completed",
                        !.checkpointTurnCount = e.checkpointTurnCount,
                        !.checkpointStatus    = e.status,
                        !.checkpointRef       = e.checkpointRef]
<1>1. TurnDiffCompleted(turns, e) = upsertByTurnId(mid, new)
  BY DEF TurnDiffCompleted
<1>2. TurnOK(row) /\ row.turnId = e.turnId
  BY TurnRowFacts
<1>3. TurnsOK(mid) /\ FinishedKept(turns, mid, e)
  BY ClearConflictOK
<1> HIDE DEF row, mid
<1>4. new.turnId = e.turnId /\ new.state \in {"error", "completed"} /\ new = [f \in TurnFields |-> new[f]]
  BY <1>2 DEF TurnOK, TurnFields
<1> HIDE DEF new
<1>5. TurnOK(new) /\ Finished(new)
  BY <1>4 DEF TurnOK, TurnStates, Finished
<1> QED
  BY <1>1, <1>3, <1>5, UpsertOK, UpsertKept

\* a turn start,
LEMMA PendingTurnStartOK ==
    ASSUME NEW turns, TurnsOK(turns), NEW e
    PROVE  /\ TurnsOK(replacePendingTurnStart(turns, e))
           /\ FinishedKept(turns, replacePendingTurnStart(turns, e), e)
<1> DEFINE new == [NewTurn(Null) EXCEPT !.state = "pending", !.pendingMessageId = e.messageId]
           old == {turn \in turns : ~IsPendingTurnStart(turn)}
<1>1. replacePendingTurnStart(turns, e) = old \cup {new}
  BY DEF replacePendingTurnStart
<1>2. TurnOK(new) /\ new.turnId = Null
  BY DEF TurnOK, TurnFields, TurnStates, NewTurn
<1>3. \A turn \in turns : turn.turnId = Null => turn \notin old /\ turn.state = "pending"
  BY DEF TurnsOK, TurnOK, IsPendingTurnStart
<1>4. TurnsOK(old) /\ FinishedKept(turns, old, e)
  <2>1. \A turn \in turns : Finished(turn) => turn \in old
    BY DEF Finished, IsPendingTurnStart
  <2>2. old \subseteq turns
    OBVIOUS
  <2> HIDE DEF old
  <2> QED
    BY <2>1, <2>2, SelfKept, FewerOK
<1>7. old \subseteq turns
  OBVIOUS
<1> HIDE DEF old, new
<1>5. TurnsOK(old \cup {new})
  BY <1>2, <1>3, <1>4, <1>7 DEF TurnsOK
<1>6. FinishedKept(turns, old \cup {new}, e)
  BY <1>4 DEF FinishedKept
<1> QED
  BY <1>1, <1>5, <1>6

\* and every event.
LEMMA TurnsAfterOK ==
    ASSUME NEW turns, TurnsOK(turns), NEW e, EventOK(e)
    PROVE  TurnsOK(TurnsAfter(turns, e)) /\ FinishedKept(turns, TurnsAfter(turns, e), e)
<1> DEFINE new == TurnsAfter(turns, e)
<1>1. \/ new = replacePendingTurnStart(turns, e)
      \/ e.session.activeTurnId # Null /\ new = TurnRuns(turns, e.session.activeTurnId)
      \/ e.turnId # Null /\ new = AssistantMessageSent(turns, e)
      \/ /\ e.turnId # Null /\ e.type = "thread.turn-interrupt-requested"
         /\ new = TurnInterrupted(turns, e)
      \/ e.turnId # Null /\ new = TurnDiffCompleted(turns, e)
      \/ e.type = "thread.reverted" /\ new = KeptTurns(turns, e.turnCount)
      \/ new = turns
  BY DEF TurnsAfter, TurnsReverted, EventOK
<1> HIDE DEF new
<1>2. KeptTurns(turns, e.turnCount) \subseteq turns
  BY DEF KeptTurns
<1>3. /\ TurnsOK(KeptTurns(turns, e.turnCount)) /\ FinishedKept(turns, turns, e)
      /\ e.type = "thread.reverted" => FinishedKept(turns, KeptTurns(turns, e.turnCount), e)
  BY <1>2, SelfKept, FewerOK DEF FinishedKept, TakesBack
<1>4. TurnsOK(new) /\ FinishedKept(turns, new, e)
  BY <1>1, <1>3, PendingTurnStartOK, TurnRunsOK, AssistantMessageOK, TurnInterruptedOK, TurnDiffOK
<1> QED
  BY <1>4 DEF new

-----------------------------------------------------------------------------
(* Approvals *)

\* Every row of an approval has a status.
ApprovalsOK(approvals) == \A r \in DOMAIN approvals : "status" \in DOMAIN approvals[r]

\* What was resolved is.
ApprovalsKept(approvals, new) ==
    \A r \in DOMAIN approvals : IsResolved(approvals, r) => IsResolved(new, r)

\* An answer keeps what was resolved,
LEMMA ResolvedOK ==
    ASSUME NEW approvals, ApprovalsOK(approvals), NEW r, NEW fallback, "status" \in DOMAIN fallback,
           NEW decision
    PROVE  LET new == Resolved(approvals, r, fallback, decision)
           IN  ApprovalsOK(new) /\ ApprovalsKept(approvals, new)
<1> DEFINE row == IF r \in DOMAIN approvals THEN approvals[r] ELSE fallback
           done == [row EXCEPT !.status = "resolved", !.decision = decision]
<1>1. "status" \in DOMAIN row
  BY DEF ApprovalsOK
<1>2. Resolved(approvals, r, fallback, decision) = Put(approvals, r, done)
  BY DEF Resolved
<1> HIDE DEF row
<1>3. "status" \in DOMAIN done /\ done.status = "resolved"
  BY <1>1
<1> HIDE DEF done
<1> QED
  BY <1>2, <1>3 DEF Put, ApprovalsOK, ApprovalsKept, IsResolved

\* a request does,
LEMMA RequestedOK ==
    ASSUME NEW approvals, ApprovalsOK(approvals), NEW r, NEW row, "status" \in DOMAIN row
    PROVE  LET new == Requested(approvals, r, row)
           IN  ApprovalsOK(new) /\ ApprovalsKept(approvals, new)
BY DEF Requested, Put, ApprovalsOK, ApprovalsKept, IsResolved

\* and every event.
LEMMA ApprovalsAfterOK ==
    ASSUME NEW approvals, ApprovalsOK(approvals), NEW e
    PROVE  LET new == ApprovalsAfter(approvals, e)
           IN  ApprovalsOK(new) /\ ApprovalsKept(approvals, new)
<1> DEFINE Pending(turnId) == [threadId |-> e.threadId, turnId |-> turnId,
                               status |-> "pending", decision |-> Null]
           new == ApprovalsAfter(approvals, e)
<1>1. \/ new = Resolved(approvals, e.requestId, Pending(Null), e.decision)
      \/ new = Resolved(approvals, e.activity.requestId, Pending(e.activity.turnId), e.activity.decision)
      \/ new = Requested(approvals, e.activity.requestId, Pending(e.activity.turnId))
      \/ new = approvals
  BY DEF ApprovalsAfter
<1>2. \A id : "status" \in DOMAIN Pending(id)
  OBVIOUS
<1>3. ApprovalsKept(approvals, approvals)
  BY DEF ApprovalsKept
<1> HIDE DEF new, Pending
<1>4. ApprovalsOK(new) /\ ApprovalsKept(approvals, new)
  BY <1>1, <1>2, <1>3, ResolvedOK, RequestedOK
<1> QED
  BY <1>4 DEF new

(***************************************************************************)
(* What the projectors make of their tables                                *)
(***************************************************************************)

\* What each projector makes of its table.
LEMMA ApplyTable ==
    ASSUME NEW tabs, IsTables(tabs), NEW e
    PROVE  LET t == e.threadId
               turns == TurnsOf(tabs, t)
           IN  /\ apply("projects", tabs, e).projects = ProjectsAfter(tabs.projects, e)
               /\ ~OfThread(e) => \A q \in TableNames : q # "projects" => apply(q, tabs, e)[q] = tabs[q]
               /\ OfThread(e) =>
                    /\ apply("threadMessages", tabs, e).threadMessages
                         = Put(tabs.threadMessages, t,
                               MessagesAfter(RowsOf(tabs.threadMessages, t), turns, e))
                    /\ apply("threadTurns", tabs, e).threadTurns
                         = Put(tabs.threadTurns, t, TurnsAfter(turns, e))
                    /\ apply("pendingApprovals", tabs, e).pendingApprovals
                         = ApprovalsAfter(tabs.pendingApprovals, e)
                    /\ apply("threads", tabs, e).threads = ThreadsAfter(tabs.threads, e)
<1>1. tabs = [q \in TableNames |-> tabs[q]]
  BY DEF IsTables
<1>2. apply("projects", tabs, e).projects = ProjectsAfter(tabs.projects, e)
  BY <1>1, NamesFacts DEF apply
<1>3. ASSUME ~OfThread(e) PROVE \A q \in TableNames : q # "projects" => apply(q, tabs, e)[q] = tabs[q]
  BY <1>3 DEF apply
<1>4. ASSUME OfThread(e)
      PROVE  \A q \in TableNames : q # "projects" => apply(q, tabs, e) = ApplyToThread(q, tabs, e)
  BY <1>4 DEF apply
<1>5. ASSUME OfThread(e)
      PROVE  apply("threadMessages", tabs, e).threadMessages
               = Put(tabs.threadMessages, e.threadId,
                     MessagesAfter(RowsOf(tabs.threadMessages, e.threadId), TurnsOf(tabs, e.threadId), e))
  BY <1>1, <1>4, <1>5, NamesFacts DEF ApplyToThread
<1>6. ASSUME OfThread(e)
      PROVE  apply("threadTurns", tabs, e).threadTurns
               = Put(tabs.threadTurns, e.threadId, TurnsAfter(TurnsOf(tabs, e.threadId), e))
  BY <1>1, <1>4, <1>6, NamesFacts DEF ApplyToThread
<1>7. ASSUME OfThread(e)
      PROVE  apply("pendingApprovals", tabs, e).pendingApprovals = ApprovalsAfter(tabs.pendingApprovals, e)
  BY <1>1, <1>4, <1>7, NamesFacts DEF ApplyToThread
<1>8. ASSUME OfThread(e)
      PROVE  apply("threads", tabs, e).threads = ThreadsAfter(tabs.threads, e)
  BY <1>1, <1>4, <1>8, NamesFacts DEF ApplyToThread
<1> QED
  BY <1>2, <1>3, <1>5, <1>6, <1>7, <1>8

\* The shape of the tables.
TablesOK(tabs) ==
    /\ IsTables(tabs)
    /\ \A t \in DOMAIN tabs.threadTurns : TurnsOK(tabs.threadTurns[t])
    /\ ApprovalsOK(tabs.pendingApprovals)

\* The tables after a step of some projectors with the event e.
Stepped(new, tabs, e) ==
    /\ IsTables(new)
    /\ \A q \in TableNames : new[q] \in {tabs[q], apply(q, tabs, e)[q]}

\* The turns of every thread that have finished still have, unless the event is of the
\* thread and takes that back.
TurnTableKept(tabs, new, e) ==
    \A t \in DOMAIN tabs.threadTurns : \A turn \in tabs.threadTurns[t] : Finished(turn) =>
        \/ OfThread(e) /\ e.threadId = t /\ TakesBack(e, turn.turnId)
        \/ \E after \in TurnsOf(new, t) : after.turnId = turn.turnId /\ Finished(after)

\* They do when the rows are the same.
LEMMA SameTurnsKept ==
    ASSUME NEW tabs, NEW new, new.threadTurns = tabs.threadTurns
    PROVE  \A e : TurnTableKept(tabs, new, e)
BY DEF TurnTableKept, TurnsOf

\* Such a step leaves the tables in shape, and keeps turns and approvals.
LEMMA SteppedOK ==
    ASSUME NEW tabs, TablesOK(tabs), NEW e, EventOK(e), NEW new, Stepped(new, tabs, e)
    PROVE  /\ TablesOK(new)
           /\ TurnTableKept(tabs, new, e)
           /\ ApprovalsKept(tabs.pendingApprovals, new.pendingApprovals)
<1> DEFINE t == e.threadId
           turns == TurnsOf(tabs, t)
<1>1. IsTables(tabs) /\ IsTables(new)
  BY DEF TablesOK, Stepped
<1>2. \A x \in DOMAIN tabs.threadTurns : TurnsOK(tabs.threadTurns[x])
  BY DEF TablesOK
<1>3. TurnsOK(turns)
  <2>1. TurnsOK({})
    BY DEF TurnsOK
  <2> QED
    BY <1>2, <2>1 DEF TurnsOf
<1>4. \/ new.threadTurns = tabs.threadTurns
      \/ OfThread(e) /\ new.threadTurns = Put(tabs.threadTurns, t, TurnsAfter(turns, e))
  <2>1. "threadTurns" \in TableNames /\ "threadTurns" # "projects"
    BY NamesFacts
  <2> QED
    BY <1>1, <2>1, ApplyTable DEF Stepped
<1>5. \/ new.pendingApprovals = tabs.pendingApprovals
      \/ new.pendingApprovals = ApprovalsAfter(tabs.pendingApprovals, e)
  <2>1. "pendingApprovals" \in TableNames /\ "pendingApprovals" # "projects"
    BY NamesFacts
  <2> QED
    BY <1>1, <2>1, ApplyTable DEF Stepped
<1>6. ApprovalsOK(new.pendingApprovals) /\ ApprovalsKept(tabs.pendingApprovals, new.pendingApprovals)
  <2>1. ApprovalsOK(tabs.pendingApprovals)
    BY DEF TablesOK
  <2>2. ApprovalsKept(tabs.pendingApprovals, tabs.pendingApprovals)
    BY DEF ApprovalsKept
  <2> QED
    BY <1>5, <2>1, <2>2, ApprovalsAfterOK
<1>7. TurnsOK(TurnsAfter(turns, e)) /\ FinishedKept(turns, TurnsAfter(turns, e), e)
  BY <1>3, TurnsAfterOK
<1>9. (\A x \in DOMAIN new.threadTurns : TurnsOK(new.threadTurns[x])) /\ TurnTableKept(tabs, new, e)
  <2>1. CASE new.threadTurns = tabs.threadTurns
    BY <1>2, <2>1, SameTurnsKept
  <2>2. CASE OfThread(e) /\ new.threadTurns = Put(tabs.threadTurns, t, TurnsAfter(turns, e))
    <3>1. /\ DOMAIN new.threadTurns = DOMAIN tabs.threadTurns \cup {t}
          /\ \A x \in DOMAIN new.threadTurns :
                new.threadTurns[x] = IF x = t THEN TurnsAfter(turns, e) ELSE tabs.threadTurns[x]
      BY <2>2 DEF Put
    <3>2. t \in DOMAIN tabs.threadTurns => turns = tabs.threadTurns[t]
      BY DEF TurnsOf
    <3> HIDE DEF turns
    <3>3. ASSUME NEW x \in DOMAIN new.threadTurns PROVE TurnsOK(new.threadTurns[x])
      BY <1>2, <1>7, <3>1
    <3>4. ASSUME NEW x \in DOMAIN tabs.threadTurns, NEW turn \in tabs.threadTurns[x], Finished(turn)
          PROVE  \/ OfThread(e) /\ e.threadId = x /\ TakesBack(e, turn.turnId)
                 \/ \E after \in TurnsOf(new, x) : after.turnId = turn.turnId /\ Finished(after)
      <4>1. TurnsOf(new, x) = IF x = t THEN TurnsAfter(turns, e) ELSE tabs.threadTurns[x]
        BY <3>1 DEF TurnsOf
      <4>2. CASE x = t
        BY <1>7, <2>2, <3>2, <3>4, <4>1, <4>2 DEF FinishedKept
      <4>3. CASE x # t
        BY <3>4, <4>1, <4>3
      <4> QED
        BY <4>2, <4>3
    <3> QED
      BY <3>3, <3>4 DEF TurnTableKept
  <2> QED
    BY <1>4, <2>1, <2>2
<1> QED
  BY <1>1, <1>6, <1>9 DEF TablesOK

\* All projectors at once are such a step, in a command's transaction,
LEMMA AfterSteps ==
    ASSUME NEW tabs, NEW names, NEW e
    PROVE  Stepped(After(tabs, names, e), tabs, e)
<1>1. \A q \in TableNames : After(tabs, names, e)[q] \in {tabs[q], apply(q, tabs, e)[q]}
  BY DEF After
<1> QED
  BY <1>1, AfterIsTables DEF Stepped

\* and so is one of them, in a bootstrap.
LEMMA ApplySteps ==
    ASSUME NEW tabs, IsTables(tabs), NEW p \in ProjectorNames, NEW e
    PROVE  Stepped(apply(p, tabs, e), tabs, e)
BY ApplyWrites DEF Stepped

-----------------------------------------------------------------------------
(* The events of a command, one after another *)

\* The stores of ProjectAll.
AllStores(stores, store, names, events, m) ==
    stores = [i \in 0..m |-> IF i = 0 THEN store
                             ELSE projectThrough(stores[i - 1], names, events[i], Len(projectors))]

\* One or two events go through all of them.
LEMMA ProjectAllFacts ==
    ASSUME NEW store, NEW names, NEW events, NEW m \in 1..2
    PROVE  LET one == projectThrough(store, names, events[1], Len(projectors))
           IN  ProjectAll(store, names, events, m)
                 = IF m = 1 THEN one ELSE projectThrough(one, names, events[2], Len(projectors))
<1> DEFINE one == projectThrough(store, names, events[1], Len(projectors))
           two == projectThrough(one, names, events[2], Len(projectors))
           g == [i \in 0..m |-> IF i = 0 THEN store ELSE IF i = 1 THEN one ELSE two]
           f == CHOOSE f : AllStores(f, store, names, events, m)
<1>1. ProjectAll(store, names, events, m) = f[m]
  BY Zenon DEF ProjectAll, AllStores
<1>2. AllStores(g, store, names, events, m)
  <2> DEFINE Next1(i) == IF i = 0 THEN store
                         ELSE projectThrough(g[i - 1], names, events[i], Len(projectors))
  <2>1. ASSUME NEW i \in 0..m PROVE g[i] = Next1(i)
    <3>0. i \in {0, 1, 2} /\ (i >= 1 => i - 1 \in 0..m)
      OBVIOUS
    <3>1. CASE i = 0
      BY <3>1
    <3>2. CASE i = 1
      <4>1. g[i - 1] = store /\ g[i] = one
        BY <3>2
      <4> HIDE DEF g
      <4> QED
        BY <3>2, <4>1 DEF one
    <3>3. CASE i = 2
      <4>1. g[i - 1] = one /\ g[i] = two
        BY <3>3
      <4> HIDE DEF g, one
      <4> QED
        BY <3>3, <4>1 DEF two
    <3> QED
      BY <3>0, <3>1, <3>2, <3>3
  <2>2. g = [i \in 0..m |-> g[i]]
    OBVIOUS
  <2> HIDE DEF g
  <2>3. g = [i \in 0..m |-> Next1(i)]
    BY <2>1, <2>2
  <2> QED
    BY <2>3 DEF AllStores
<1>3. AllStores(f, store, names, events, m)
  BY <1>2, Zenon
<1> HIDE DEF f, g
<1>4. \A i \in 0..m : f[i] = IF i = 0 THEN store
                             ELSE projectThrough(f[i - 1], names, events[i], Len(projectors))
  BY <1>3, Zenon DEF AllStores
<1>5. f[0] = store /\ f[1] = one
  <2>1. 0 \in 0..m /\ 1 \in 0..m /\ 1 # 0 /\ 1 - 1 = 0
    OBVIOUS
  <2>2. f[0] = store
    BY <1>4, <2>1
  <2>3. f[1] = projectThrough(f[0], names, events[1], Len(projectors))
    BY <1>4, <2>1
  <2> QED
    BY <2>2, <2>3
<1>6. m = 2 => f[2] = two
  <2> SUFFICES ASSUME m = 2 PROVE f[2] = two
    OBVIOUS
  <2>1. 2 \in 0..m /\ 2 # 0 /\ 2 - 1 = 1
    OBVIOUS
  <2>2. f[2] = projectThrough(f[1], names, events[2], Len(projectors))
    BY <1>4, <2>1
  <2> QED
    BY <1>5, <2>2
<1>7. m = 1 \/ m = 2
  OBVIOUS
<1> HIDE DEF one, two
<1>8. ProjectAll(store, names, events, m) = IF m = 1 THEN one ELSE two
  BY <1>1, <1>5, <1>6, <1>7
<1> QED
  BY <1>8 DEF one, two

\* The tables and cursors after the events of a command.
Twice(tabs, names, ev) ==
    IF Len(ev) = 1 THEN After(tabs, names, ev[1])
    ELSE After(After(tabs, names, ev[1]), names, ev[2])

\* The cursors after the events of a command.
CursorTwice(cur, names, ev) ==
    IF Len(ev) = 1 THEN CursorAfter(cur, names, ev[1])
    ELSE CursorAfter(CursorAfter(cur, names, ev[1]), names, ev[2])

\* That is what ProjectAll makes of tables and cursors.
LEMMA ProjectAllTables ==
    ASSUME NEW store, IsTables(store.tables), IsCursor(store.cursor), NEW names, NEW events,
           Len(events) \in 1..2
    PROVE  LET new == ProjectAll(store, names, events, Len(events))
           IN  /\ new.tables = Twice(store.tables, names, events)
               /\ new.cursor = CursorTwice(store.cursor, names, events)
<1> DEFINE one == projectThrough(store, names, events[1], Len(projectors))
<1>1. one.tables = After(store.tables, names, events[1])
      /\ one.cursor = CursorAfter(store.cursor, names, events[1])
  BY ThroughAll
<1>2. IsTables(one.tables) /\ IsCursor(one.cursor)
  BY <1>1, AfterIsTables
<1>3. ProjectAll(store, names, events, Len(events))
        = IF Len(events) = 1 THEN one ELSE projectThrough(one, names, events[2], Len(projectors))
  BY ProjectAllFacts
<1> HIDE DEF one
<1>4. LET two == projectThrough(one, names, events[2], Len(projectors))
      IN  two.tables = After(one.tables, names, events[2])
          /\ two.cursor = CursorAfter(one.cursor, names, events[2])
  BY <1>2, ThroughAll
<1> QED
  BY <1>1, <1>3, <1>4 DEF Twice, CursorTwice

(***************************************************************************)
(* The read model                                                          *)
(***************************************************************************)

\* The models of projectEvents.
NextModel(models, model, events, i) ==
    IF i = 0 THEN model ELSE projectEvent(models[i - 1], events[i])

\* Each comes from the one before.
Models(models, model, events, n) == models = [i \in 0..n |-> NextModel(models, model, events, i)]

\* The first is the model itself.
LEMMA ModelsFacts ==
    ASSUME NEW f, NEW model, NEW events, NEW n \in Nat, Models(f, model, events, n)
    PROVE  f[0] = model /\ \A i \in 1..n : f[i] = projectEvent(f[i - 1], events[i])
<1>1. \A i \in 0..n : f[i] = NextModel(f, model, events, i)
  BY Zenon DEF Models
<1>2. 0 \in 0..n /\ \A i \in 1..n : i \in 0..n /\ i # 0
  OBVIOUS
<1> QED
  BY <1>1, <1>2 DEF NextModel

\* There are such models.
LEMMA ModelsExist ==
    ASSUME NEW model, NEW events, NEW n \in Nat
    PROVE  \E f : Models(f, model, events, n)
<1> DEFINE T == {k \in Nat : \E f : Models(f, model, events, k)}
<1>1. 0 \in T
  <2> DEFINE f == [i \in 0..0 |-> model]
  <2>1. \A i \in 0..0 : NextModel(f, model, events, i) = model
    BY DEF NextModel
  <2>2. Models(f, model, events, 0)
    BY <2>1, Zenon DEF Models
  <2> QED
    BY <2>2
<1>2. ASSUME NEW k \in T PROVE k + 1 \in T
  <2>1. PICK f : Models(f, model, events, k)
    OBVIOUS
  <2> DEFINE g == [i \in 0..(k + 1) |-> IF i <= k THEN f[i] ELSE projectEvent(f[k], events[k + 1])]
  <2>2. ASSUME NEW i \in 0..(k + 1) PROVE g[i] = NextModel(g, model, events, i)
    <3>1. CASE i = 0
      <4>1. g[i] = f[0] /\ f[0] = model
        BY <2>1, <3>1, ModelsFacts
      <4> QED
        BY <3>1, <4>1 DEF NextModel
    <3>2. CASE i \in 1..k
      <4>1. g[i] = f[i] /\ g[i - 1] = f[i - 1] /\ f[i] = projectEvent(f[i - 1], events[i])
        BY <2>1, <3>2, ModelsFacts
      <4> HIDE DEF g
      <4> QED
        BY <3>2, <4>1 DEF NextModel
    <3>3. CASE i = k + 1
      <4>1. g[i] = projectEvent(f[k], events[k + 1]) /\ g[i - 1] = f[k]
        BY <3>3
      <4> HIDE DEF g
      <4> QED
        BY <3>3, <4>1 DEF NextModel
    <3> QED
      BY <3>1, <3>2, <3>3
  <2>3. g = [i \in 0..(k + 1) |-> g[i]]
    OBVIOUS
  <2> HIDE DEF g
  <2>4. Models(g, model, events, k + 1)
    BY <2>2, <2>3 DEF Models
  <2> QED
    BY <2>4
<1> HIDE DEF T
<1>3. T = Nat
  <2>1. T \subseteq Nat
    BY DEF T
  <2> QED
    BY <1>1, <1>2, <2>1, SetInduction
<1> QED
  BY <1>3 DEF T

\* projectEvents is the last of them.
LEMMA ProjectEventsModels ==
    ASSUME NEW model, NEW events, Len(events) \in Nat
    PROVE  \E f : Models(f, model, events, Len(events)) /\ projectEvents(model, events) = f[Len(events)]
<1>1. PICK g : Models(g, model, events, Len(events))
  BY ModelsExist
<1> DEFINE f == CHOOSE f : Models(f, model, events, Len(events))
<1>2. projectEvents(model, events) = f[Len(events)]
  BY Zenon DEF projectEvents, Models, NextModel
<1>3. Models(f, model, events, Len(events))
  BY <1>1, Zenon
<1> QED
  BY <1>2, <1>3

\* The threads created by the first n events.
CreatedThreads(events, n) ==
    {events[i].threadId : i \in {j \in 1..n : events[j].type = "thread.created"}}

\* The model has seen the first n events.
Tracks(model, events, n) ==
    /\ "snapshotSequence" \in DOMAIN model /\ "threads" \in DOMAIN model
    /\ model.snapshotSequence = n
    /\ DOMAIN model.threads = CreatedThreads(events, n)

\* An event moves the sequence, and a created thread is there.
LEMMA ProjectEventFacts ==
    ASSUME NEW m, NEW e, "snapshotSequence" \in DOMAIN m, "threads" \in DOMAIN m
    PROVE  LET new == projectEvent(m, e)
           IN  /\ "snapshotSequence" \in DOMAIN new /\ "threads" \in DOMAIN new
               /\ new.snapshotSequence = e.sequence
               /\ DOMAIN new.threads = IF e.type = "thread.created"
                                         THEN DOMAIN m.threads \cup {e.threadId}
                                       ELSE DOMAIN m.threads
<1> DEFINE base == [m EXCEPT !.snapshotSequence = e.sequence]
           new == projectEvent(m, e)
           Good(x) == /\ "snapshotSequence" \in DOMAIN x /\ "threads" \in DOMAIN x
                      /\ x.snapshotSequence = e.sequence
           Same(x) == Good(x) /\ DOMAIN x.threads = DOMAIN m.threads
<1>1. Same(base)
  OBVIOUS
<1>2. \A x : Same([base EXCEPT !.projects = x])
  BY <1>1
<1>3. \A t, x : Same([base EXCEPT !.threads[t] = x])
  BY <1>1
<1>4. \A x : LET y == [base EXCEPT !.threads = x] IN Good(y) /\ y.threads = x
  BY <1>1
<1>5. Same(updateThread(base, e))
  <2> HIDE DEF Same, base
  <2>1. CASE e.threadId \in DOMAIN base.threads
    <3> DEFINE th == Patch(base.threads[e.threadId], ThreadPatch(base.threads[e.threadId], e))
    <3>1. updateThread(base, e) = [base EXCEPT !.threads[e.threadId] = th]
      BY <2>1 DEF updateThread
    <3> HIDE DEF th
    <3> QED
      BY <1>3, <3>1
  <2>2. CASE e.threadId \notin DOMAIN base.threads
    BY <1>1, <2>2 DEF updateThread
  <2> QED
    BY <2>1, <2>2
<1>6. CASE e.type = "thread.created"
  <2> DEFINE x == Put(base.threads, e.threadId, NewThread(e))
  <2>1. new = [base EXCEPT !.threads = x]
    BY <1>6 DEF projectEvent
  <2>2. DOMAIN x = DOMAIN m.threads \cup {e.threadId}
    BY <1>1 DEF Put
  <2> HIDE DEF x, base, new
  <2>3. Good(new) /\ new.threads = x
    BY <1>4, <2>1
  <2> QED
    BY <1>6, <2>2, <2>3 DEF new
<1>7. CASE e.type # "thread.created"
  <2>1. \/ new = base
        \/ \E x : new = [base EXCEPT !.projects = x]
        \/ new = updateThread(base, e)
    <3> DEFINE p1 == [base.projects EXCEPT ![e.projectId].meta = e.meta]
               p2 == [base.projects EXCEPT ![e.projectId].deleted = TRUE]
               p3 == Put(base.projects, e.projectId, [meta |-> e.meta, deleted |-> FALSE])
    <3>1. \/ new = base
          \/ new = [base EXCEPT !.projects = p1]
          \/ new = [base EXCEPT !.projects = p2]
          \/ new = [base EXCEPT !.projects = p3]
          \/ new = updateThread(base, e)
      BY <1>7 DEF projectEvent
    <3> HIDE DEF p1, p2, p3, base, new
    <3> QED
      BY <3>1
  <2> HIDE DEF base, new, Same
  <2>2. Same(new)
    BY <1>1, <1>2, <1>5, <2>1
  <2> QED
    BY <1>7, <2>2 DEF new, Same
<1> QED
  BY <1>6, <1>7

\* So the model keeps up, an event at a time,
LEMMA TracksStep ==
    ASSUME NEW model, NEW events, NEW n \in Nat, Tracks(model, events, n), events[n + 1].sequence = n + 1
    PROVE  Tracks(projectEvent(model, events[n + 1]), events, n + 1)
<1> DEFINE new == projectEvent(model, events[n + 1])
           e == events[n + 1]
<1>1. /\ "snapshotSequence" \in DOMAIN new /\ "threads" \in DOMAIN new
      /\ new.snapshotSequence = e.sequence
      /\ DOMAIN new.threads = IF e.type = "thread.created"
                                THEN DOMAIN model.threads \cup {e.threadId}
                              ELSE DOMAIN model.threads
  BY ProjectEventFacts DEF Tracks
<1> HIDE DEF new
<1>2. DOMAIN model.threads = CreatedThreads(events, n)
  BY DEF Tracks
<1>3. CreatedThreads(events, n + 1) = IF e.type = "thread.created"
                                        THEN CreatedThreads(events, n) \cup {e.threadId}
                                      ELSE CreatedThreads(events, n)
  <2>1. 1..(n + 1) = (1..n) \cup {n + 1}
    OBVIOUS
  <2> QED
    BY <2>1 DEF CreatedThreads
<1>4. Tracks(new, events, n + 1)
  BY <1>1, <1>2, <1>3 DEF Tracks
<1> QED
  BY <1>4 DEF new

\* A model that has seen n events of the log folds the next ones.
LEMMA FoldTracks ==
    ASSUME NEW model, NEW all, NEW n \in Nat, Tracks(model, all, n), NEW events, Len(events) \in Nat,
           \A i \in 1..Len(events) : events[i] = all[n + i] /\ events[i].sequence = n + i
    PROVE  Tracks(projectEvents(model, events), all, n + Len(events))
<1>1. PICK f : Models(f, model, events, Len(events)) /\ projectEvents(model, events) = f[Len(events)]
  BY ProjectEventsModels
<1>2. f[0] = model /\ \A i \in 1..Len(events) : f[i] = projectEvent(f[i - 1], events[i])
  BY <1>1, ModelsFacts
<1> DEFINE T == {i \in Nat : i <= Len(events) => Tracks(f[i], all, n + i)}
<1>3. 0 \in T
  <2>1. n + 0 = n
    OBVIOUS
  <2> QED
    BY <1>2, <2>1
<1>4. ASSUME NEW i \in T PROVE i + 1 \in T
  <2> SUFFICES ASSUME i + 1 <= Len(events) PROVE Tracks(f[i + 1], all, n + (i + 1))
    OBVIOUS
  <2>1. Tracks(f[i], all, n + i) /\ i + 1 \in 1..Len(events) /\ (i + 1) - 1 = i
        /\ n + (i + 1) = (n + i) + 1 /\ n + i \in Nat
    OBVIOUS
  <2>2. f[i + 1] = projectEvent(f[i], all[(n + i) + 1]) /\ all[(n + i) + 1].sequence = (n + i) + 1
    BY <1>2, <2>1
  <2>3. Tracks(f[i + 1], all, (n + i) + 1)
    BY <2>1, <2>2, TracksStep
  <2> QED
    BY <2>1, <2>3
<1> HIDE DEF T
<1>5. T = Nat
  <2>1. T \subseteq Nat
    BY DEF T
  <2> QED
    BY <1>3, <1>4, <2>1, SetInduction
<1> QED
  BY <1>1, <1>5 DEF T

\* A longer log has the same beginning.
LEMMA TracksLonger ==
    ASSUME NEW model, NEW d, NEW e, NEW n \in Nat, \A i \in 1..n : d[i] = e[i], Tracks(model, d, n)
    PROVE  Tracks(model, e, n)
<1>1. CreatedThreads(d, n) = CreatedThreads(e, n)
  BY DEF CreatedThreads
<1> QED
  BY <1>1 DEF Tracks

\* from the empty one.
LEMMA EmptyTracks == \A events : Tracks(createEmptyReadModel, events, 0)
<1> TAKE events
<1>1. DOMAIN <<>> = {}
  BY NilFacts
<1>2. CreatedThreads(events, 0) = {}
  BY DEF CreatedThreads
<1> QED
  BY <1>1, <1>2 DEF Tracks, createEmptyReadModel

(***************************************************************************)
(* The inductive invariant                                                 *)
(***************************************************************************)

\* The events of the log are numbered, and such as the decider makes.
LogInv ==
    /\ IsSeq(log) /\ Len(log) <= MaxEvents
    /\ \A i \in 1..Len(log) : log[i].sequence = i /\ EventOK(log[i])

\* The tables are in shape, and no cursor is ahead of the log.
TableInv ==
    /\ TablesOK(tables) /\ IsCursor(cursor)
    /\ \A q \in ProjectorNames : cursor[q] \in 0..Len(log)
    /\ TablesOK(replayed.tables) /\ IsCursor(replayed.cursor)

\* The bootstrap knows its projector, and removes files that are there.
ControlInv ==
    /\ installed \subseteq ProjectorNames
    /\ status \in {"down", "bootstrapping", "running"}
    /\ bootstrap.projector \in 0..10 /\ bootstrap.left \in 0..READ_LIMIT
    /\ bootstrap = [projector |-> bootstrap.projector, left |-> bootstrap.left]
    /\ status = "bootstrapping" => bootstrap.projector \in 1..10
    /\ sideEffects \subseteq files
    /\ sideEffects # {} => status = "bootstrapping" /\ bootstrap.projector \in 1..9
    /\ UploadsInterleave \/ uploaded = {}

\* The engine's read model has seen the log.
ModelInv ==
    /\ status = "running" => Tracks(readModel, log, Len(log))
    /\ status # "running" => readModel = createEmptyReadModel

\* The inductive invariant.
BaseInv == LogInv /\ TableInv /\ ControlInv /\ ModelInv

\* The empty tables are in shape.
LEMMA EmptyFacts ==
    /\ TablesOK(EmptyTables) /\ DOMAIN EmptyTables.threadTurns = {}
    /\ DOMAIN EmptyTables.pendingApprovals = {} /\ DOMAIN EmptyTables.threadMessages = {}
    /\ DOMAIN EmptyTables.threads = {} /\ IsCursor([p \in ProjectorNames |-> 0])
<1>1. DOMAIN <<>> = {}
  BY NilFacts
<1>2. DOMAIN EmptyTables.threadTurns = {} /\ DOMAIN EmptyTables.pendingApprovals = {}
      /\ DOMAIN EmptyTables.threadMessages = {} /\ DOMAIN EmptyTables.threads = {}
  BY <1>1 DEF EmptyTables
<1>3. EmptyTables = [q \in TableNames |-> EmptyTables[q]]
  BY DEF TableNames, EmptyTables
<1>4. IsCursor([p \in ProjectorNames |-> 0])
  <2> HIDE DEF ProjectorNames
  <2> QED
    BY DEF IsCursor
<1> HIDE DEF EmptyTables
<1> QED
  BY <1>2, <1>3, <1>4 DEF TablesOK, IsTables, ApprovalsOK

\* It implies the type invariant.
LEMMA BaseImpliesTypeOK == BaseInv => TypeOK
<1> SUFFICES ASSUME BaseInv PROVE TypeOK
  OBVIOUS
<1>1. DOMAIN log = 1..Len(log) /\ Len(log) \in Nat
  BY SeqDomain DEF BaseInv, LogInv
<1>2. \A i \in DOMAIN log : log[i].sequence = i
  BY <1>1 DEF BaseInv, LogInv
<1>3. DOMAIN tables = DOMAIN EmptyTables
  BY DEF BaseInv, TableInv, TablesOK, IsTables, TableNames
<1>4. \A t \in DOMAIN tables.threadTurns : \A turn \in tables.threadTurns[t] :
          turn.state \in TurnStates /\ (turn.state = "pending" => turn.turnId = Null)
  BY DEF BaseInv, TableInv, TablesOK, TurnsOK, TurnOK
<1>5. cursor \in [ProjectorNames -> 0..Len(log)]
  <2> HIDE DEF ProjectorNames
  <2> QED
    BY DEF BaseInv, TableInv, IsCursor
<1>6. readModel.snapshotSequence \in 0..Len(log)
  <2>1. CASE status = "running"
    BY <1>1, <2>1 DEF BaseInv, ModelInv, Tracks
  <2>2. CASE status # "running"
    <3>1. readModel.snapshotSequence = 0
      BY <2>2 DEF BaseInv, ModelInv, createEmptyReadModel
    <3> QED
      BY <1>1, <3>1
  <2> QED
    BY <2>1, <2>2
<1>7. Len(projectors) = 9
  BY NamesFacts
<1> QED
  BY <1>2, <1>3, <1>4, <1>5, <1>6, <1>7 DEF BaseInv, ControlInv, TypeOK

\* It holds in the beginning.
LEMMA InitBase == Init => BaseInv
<1> SUFFICES ASSUME Init PROVE BaseInv
  OBVIOUS
<1>1. log = <<>> /\ Len(log) = 0 /\ IsSeq(log)
  BY NilFacts DEF Init
<1>2. LogInv
  BY <1>1, ProjectionAssumption DEF LogInv
<1>3. TableInv
  <2>1. tables = EmptyTables /\ replayed.tables = EmptyTables
        /\ cursor = [p \in ProjectorNames |-> 0] /\ replayed.cursor = [p \in ProjectorNames |-> 0]
    BY DEF Init, NothingProjected
  <2>2. \A q \in ProjectorNames : cursor[q] \in 0..Len(log)
    BY <1>1, <2>1
  <2> QED
    BY <2>1, <2>2, EmptyFacts DEF TableInv
<1>4. ControlInv
  BY ProjectionAssumption DEF Init, ControlInv, NoBootstrap
<1>5. ModelInv
  BY DEF Init, ModelInv
<1> QED
  BY <1>2, <1>3, <1>4, <1>5 DEF BaseInv

-----------------------------------------------------------------------------
(* The steps *)

\* What a dispatch does to the database and the history.
Dispatched(c, ev) ==
    /\ EventsOK(ev, c, Len(log))
    /\ IsSeq(log') /\ Len(log') = Len(log) + Len(ev) /\ Len(log') <= MaxEvents
    /\ \A i \in 1..Len(log) : log'[i] = log[i]
    /\ \A i \in 1..Len(ev) : log'[Len(log) + i] = ev[i]
    /\ tables' = Twice(tables, installed, ev) /\ cursor' = CursorTwice(cursor, installed, ev)
    /\ replayed'.tables = Twice(replayed.tables, ProjectorNames, ev)
    /\ replayed'.cursor = CursorTwice(replayed.cursor, ProjectorNames, ev)
    /\ readModel' = projectEvents(readModel, ev)
    /\ status = "running" /\ Accepts(readModel, c)

\* That is what a dispatch does.
LEMMA DispatchFacts ==
    ASSUME BaseInv, NEW c \in Commands(Len(log)), dispatch(c)
    PROVE  Dispatched(c, EventsOf(c))
<1> DEFINE ev == EventsOf(c)
           after == ProjectAll(Before(c), installed, ev, Len(ev))
           replay == ProjectAll(replayed, ProjectorNames, ev, Len(ev))
<1>1. IsSeq(log) /\ Len(log) \in Nat /\ Len(log) <= MaxEvents /\ MaxEvents \in Nat
  BY SeqDomain, ProjectionAssumption DEF BaseInv, LogInv
<1>2. EventsOK(ev, c, Len(log))
  BY <1>1, EventsFacts
<1>3. /\ Len(log) + Len(ev) <= MaxEvents
      /\ log' = log \o ev /\ tables' = after.tables /\ cursor' = after.cursor
      /\ readModel' = projectEvents(readModel, ev)
      /\ replayed' = replay
      /\ status = "running" /\ Accepts(readModel, c)
  BY DEF dispatch, CanDispatch
<1> HIDE DEF ev
<1>4. IsSeq(ev) /\ Len(ev) \in 1..2
  BY <1>2 DEF EventsOK
<1>5. /\ IsSeq(log') /\ Len(log') = Len(log) + Len(ev)
      /\ \A i \in 1..Len(log) : log'[i] = log[i]
      /\ \A i \in 1..Len(ev) : log'[Len(log) + i] = ev[i]
  BY <1>1, <1>3, <1>4, ConcatFacts
<1>6. tables' = Twice(tables, installed, ev) /\ cursor' = CursorTwice(cursor, installed, ev)
  <2>1. Before(c).tables = tables /\ Before(c).cursor = cursor
    BY DEF Before
  <2>2. IsTables(tables) /\ IsCursor(cursor)
    BY DEF BaseInv, TableInv, TablesOK
  <2> DEFINE store == Before(c)
  <2> HIDE DEF store
  <2>3. IsTables(store.tables) /\ IsCursor(store.cursor)
    BY <2>1, <2>2 DEF store
  <2>4. LET new == ProjectAll(store, installed, ev, Len(ev))
        IN  /\ new.tables = Twice(store.tables, installed, ev)
            /\ new.cursor = CursorTwice(store.cursor, installed, ev)
    BY <1>4, <2>3, ProjectAllTables
  <2> QED
    BY <1>3, <2>1, <2>4 DEF store
<1>7. /\ replayed'.tables = Twice(replayed.tables, ProjectorNames, ev)
      /\ replayed'.cursor = CursorTwice(replayed.cursor, ProjectorNames, ev)
  <2>2. IsTables(replayed.tables) /\ IsCursor(replayed.cursor)
    BY DEF BaseInv, TableInv, TablesOK
  <2>4. LET new == ProjectAll(replayed, ProjectorNames, ev, Len(ev))
        IN  /\ new.tables = Twice(replayed.tables, ProjectorNames, ev)
            /\ new.cursor = CursorTwice(replayed.cursor, ProjectorNames, ev)
    BY <1>4, <2>2, ProjectAllTables
  <2> QED
    BY <1>3, <2>4
<1>8. Len(log') <= MaxEvents
  BY <1>3, <1>5
<1> HIDE DEF after, replay
<1>9. Dispatched(c, ev)
  BY <1>2, <1>3, <1>5, <1>6, <1>7, <1>8 DEF Dispatched
<1> QED
  BY <1>9 DEF ev

\* The events of a command leave the tables in shape, and keep turns and approvals.
LEMMA TwiceOK ==
    ASSUME NEW tabs, TablesOK(tabs), NEW names, NEW ev, NEW c, NEW n, EventsOK(ev, c, n)
    PROVE  /\ TablesOK(Twice(tabs, names, ev))
           /\ TurnTableKept(tabs, Twice(tabs, names, ev), ev[Len(ev)])
           /\ ApprovalsKept(tabs.pendingApprovals, Twice(tabs, names, ev).pendingApprovals)
<1> DEFINE one == After(tabs, names, ev[1])
           two == After(one, names, ev[2])
<1>1. Len(ev) \in 1..2 /\ \A i \in 1..Len(ev) : EventOK(ev[i])
  BY DEF EventsOK
<1>2. EventOK(ev[1]) /\ (Len(ev) = 2 => EventOK(ev[2])) /\ (Len(ev) = 1 \/ Len(ev) = 2)
  BY <1>1
<1>3. TablesOK(one) /\ TurnTableKept(tabs, one, ev[1]) /\ ApprovalsKept(tabs.pendingApprovals, one.pendingApprovals)
  BY <1>2, AfterSteps, SteppedOK
<1>4. CASE Len(ev) = 1
  BY <1>3, <1>4 DEF Twice
<1>5. CASE Len(ev) = 2
  <2>1. \A t : TurnsOf(one, t) = TurnsOf(tabs, t)
    <3>1. ev[1].type = "thread.message-sent" /\ ev[1].role = "user"
      BY <1>5 DEF EventsOK
    <3>2. \A turns : TurnsAfter(turns, ev[1]) = turns
      BY <3>1 DEF TurnsAfter
    <3> DEFINE x == ev[1].threadId
    <3>3. one.threadTurns = tabs.threadTurns \/ one.threadTurns = Put(tabs.threadTurns, x, TurnsOf(tabs, x))
      <4>1. one.threadTurns \in {tabs.threadTurns, apply("threadTurns", tabs, ev[1]).threadTurns}
        BY NamesFacts DEF After
      <4>2. IsTables(tabs)
        BY DEF TablesOK
      <4>3. \/ apply("threadTurns", tabs, ev[1]).threadTurns = tabs.threadTurns
            \/ apply("threadTurns", tabs, ev[1]).threadTurns
                 = Put(tabs.threadTurns, x, TurnsAfter(TurnsOf(tabs, x), ev[1]))
        <5>1. "threadTurns" \in TableNames /\ "threadTurns" # "projects"
          BY NamesFacts
        <5> QED
          BY <4>2, <5>1, ApplyTable
      <4> QED
        BY <3>2, <4>1, <4>3
    <3> HIDE DEF one
    <3> QED
      BY <3>3 DEF Put, TurnsOf
  <2> HIDE DEF one
  <2>2. TablesOK(two) /\ TurnTableKept(one, two, ev[2]) /\ ApprovalsKept(one.pendingApprovals, two.pendingApprovals)
    BY <1>2, <1>3, <1>5, AfterSteps, SteppedOK
  <2>3. Twice(tabs, names, ev) = two
    BY <1>5 DEF Twice, one
  <2> HIDE DEF two
  <2>4. ApprovalsKept(tabs.pendingApprovals, two.pendingApprovals)
    <3>1. \A r \in DOMAIN tabs.pendingApprovals : IsResolved(tabs.pendingApprovals, r)
              => r \in DOMAIN one.pendingApprovals /\ IsResolved(one.pendingApprovals, r)
      BY <1>3 DEF ApprovalsKept, IsResolved
    <3> QED
      BY <2>2, <3>1 DEF ApprovalsKept
  <2>5. TurnTableKept(tabs, two, ev[2])
    <3> SUFFICES ASSUME NEW t \in DOMAIN tabs.threadTurns, NEW turn \in tabs.threadTurns[t]
                 PROVE  t \in DOMAIN one.threadTurns /\ turn \in one.threadTurns[t]
      BY <2>2 DEF TurnTableKept
    <3>1. TurnsOf(one, t) = tabs.threadTurns[t]
      BY <2>1 DEF TurnsOf
    <3> QED
      BY <3>1 DEF TurnsOf
  <2> QED
    BY <1>5, <2>2, <2>3, <2>4, <2>5
<1> QED
  BY <1>2, <1>4, <1>5

\* What one event of a bootstrap does.
LEMMA BootstrapFacts ==
    ASSUME BaseInv, BootstrapEvent
    PROVE  LET p == projectors[bootstrap.projector]
               e == log[cursor[p] + 1]
           IN  /\ bootstrap.projector \in 1..9 /\ p \in ProjectorNames
               /\ cursor[p] < Len(log) /\ cursor[p] + 1 \in 1..Len(log)
               /\ EventOK(e) /\ e.sequence = cursor[p] + 1
               /\ tables' = apply(p, tables, e) /\ cursor' = [cursor EXCEPT ![p] = cursor[p] + 1]
               /\ sideEffects' \subseteq files
<1> DEFINE p == projectors[bootstrap.projector]
           e == log[cursor[p] + 1]
<1>1. bootstrap.projector \in 1..9 /\ p \in ProjectorNames
  <2>1. status = "bootstrapping" /\ bootstrap.projector <= 9
    BY NamesFacts DEF BootstrapEvent, Bootstrapping
  <2>2. bootstrap.projector \in 1..9
    BY <2>1 DEF BaseInv, ControlInv
  <2> QED
    BY <2>2, NamesFacts, SMTT(30)
<1>2. Len(log) \in Nat
  BY SeqDomain DEF BaseInv, LogInv
<1>3. cursor[p] < Len(log) /\ tables' = apply(p, tables, e)
      /\ cursor' = [cursor EXCEPT ![p] = e.sequence] /\ sideEffects' \subseteq files
  BY DEF BootstrapEvent, runProjectorForEvent
<1> HIDE DEF p
<1>4. cursor[p] \in 0..Len(log)
  BY <1>1 DEF BaseInv, TableInv
<1>5. cursor[p] + 1 \in 1..Len(log)
  BY <1>2, <1>3, <1>4
<1>6. EventOK(e) /\ e.sequence = cursor[p] + 1
  BY <1>5, SMTT(30) DEF BaseInv, LogInv
<1> QED
  BY <1>1, <1>3, <1>5, <1>6 DEF p

\* Every other step leaves database and history alone.
LEMMA DatabaseChanges ==
    ASSUME [Next]_vars
    PROVE  \/ UNCHANGED <<log, tables, cursor, replayed>>
           \/ \E c \in Commands(Len(log)) : dispatch(c)
           \/ BootstrapEvent /\ UNCHANGED <<log, replayed>>
BY DEF Next, vars, database, Upload, DispatchRolledBack, Crash, Upgrade, Start, BootstrapStep,
       BootstrapEvent, RunAttachmentSideEffects, NextProjector, Serve

\* A set of numbers has a least one.
LEMMA MinFacts ==
    ASSUME NEW S, S \subseteq Nat, S # {}
    PROVE  Min(S) \in S /\ \A y \in S : Min(S) <= y
<1>1. PICK x \in S : \A y \in S : ~(<<y, x>> \in Less)
  BY LessIsWellFounded, WFMin, Zenon
<1>2. \A y \in S : x <= y
  <2> TAKE y \in S
  <2>1. x \in Nat /\ y \in Nat /\ ~(<<y, x>> \in Less)
    BY <1>1
  <2>2. ~(y < x)
    BY <2>1 DEF Less
  <2> QED
    BY <2>1, <2>2
<1> QED
  BY <1>2 DEF Min

\* Every projector before the first that is behind has caught up.
LEMMA FirstBehindFacts ==
    ASSUME BaseInv, NEW i \in 1..10
    PROVE  /\ FirstBehind(i) \in i..10
           /\ \A j \in i..9 : j < FirstBehind(i) /\ projectors[j] \in installed
                 => cursor[projectors[j]] = Len(log)
           /\ FirstBehind(i) <= 9 => projectors[FirstBehind(i)] \in installed
<1> DEFINE S == {j \in i..9 : projectors[j] \in installed /\ cursor[projectors[j]] < Len(log)} \cup {10}
<1>1. FirstBehind(i) = Min(S)
  BY NamesFacts DEF FirstBehind
<1>2. S \subseteq Nat /\ S # {} /\ S \subseteq i..10
  OBVIOUS
<1>3. Min(S) \in S /\ \A y \in S : Min(S) <= y
  BY <1>2, MinFacts
<1>4. Len(log) \in Nat /\ \A j \in 1..9 : cursor[projectors[j]] \in 0..Len(log)
  BY SeqDomain, NamesFacts DEF BaseInv, LogInv, TableInv
<1>5. ASSUME NEW j \in i..9, j < FirstBehind(i), projectors[j] \in installed
      PROVE  cursor[projectors[j]] = Len(log)
  <2>1. j \notin S
    BY <1>1, <1>3, <1>2, <1>5
  <2>2. ~(cursor[projectors[j]] < Len(log)) /\ j \in 1..9
    BY <1>5, <2>1
  <2> DEFINE at == cursor[projectors[j]]
  <2>3. at \in 0..Len(log) /\ ~(at < Len(log)) /\ Len(log) \in Nat
    BY <1>4, <2>2
  <2> HIDE DEF at
  <2>4. at = Len(log)
    BY <2>3
  <2> QED
    BY <2>4 DEF at
<1>6. FirstBehind(i) <= 9 => projectors[FirstBehind(i)] \in installed
  BY <1>1, <1>3
<1>7. FirstBehind(i) \in i..10
  BY <1>1, <1>2, <1>3
<1> QED
  BY <1>5, <1>6, <1>7

\* Every step keeps the log's invariant.
LEMMA LogStep == BaseInv /\ [Next]_vars => LogInv'
<1> SUFFICES ASSUME BaseInv, [Next]_vars PROVE LogInv'
  OBVIOUS
<1>1. LogInv
  BY DEF BaseInv
<1>2. CASE log' = log
  BY <1>1, <1>2 DEF LogInv
<1>3. ASSUME NEW c \in Commands(Len(log)), dispatch(c) PROVE LogInv'
  <2> DEFINE ev == EventsOf(c)
  <2>1. Dispatched(c, ev)
    BY <1>3, DispatchFacts
  <2> HIDE DEF ev
  <2>2. /\ IsSeq(log') /\ Len(log') = Len(log) + Len(ev) /\ Len(log') <= MaxEvents
        /\ \A i \in 1..Len(log) : log'[i] = log[i]
        /\ \A i \in 1..Len(ev) : log'[Len(log) + i] = ev[i]
    BY <2>1 DEF Dispatched
  <2>3. Len(ev) \in 1..2 /\ \A i \in 1..Len(ev) : EventOK(ev[i]) /\ ev[i].sequence = Len(log) + i
    BY <2>1 DEF Dispatched, EventsOK
  <2>4. Len(log) \in Nat /\ \A i \in 1..Len(log) : log[i].sequence = i /\ EventOK(log[i])
    BY <1>1, SeqDomain DEF LogInv
  <2>5. ASSUME NEW i \in 1..Len(log') PROVE log'[i].sequence = i /\ EventOK(log'[i])
    <3>1. CASE i <= Len(log)
      BY <2>2, <2>4, <3>1
    <3>2. CASE i > Len(log)
      <4> DEFINE k == i - Len(log)
      <4>1. k \in 1..Len(ev) /\ i = Len(log) + k
        BY <2>2, <2>3, <2>4, <3>2
      <4> HIDE DEF k
      <4> QED
        BY <2>2, <2>3, <4>1
    <3> QED
      BY <2>4, <3>1, <3>2
  <2>6. \A i \in 1..Len(log') : log'[i].sequence = i /\ EventOK(log'[i])
    BY <2>5
  <2> QED
    BY <2>2, <2>6 DEF LogInv, EventOK, OfThread
<1> QED
  BY <1>2, <1>3, DatabaseChanges

\* The cursors of installed projectors are at the last event of a command.
LEMMA CursorTwiceFacts ==
    ASSUME NEW cur, NEW names, NEW ev, NEW c, NEW n \in Nat, EventsOK(ev, c, n)
    PROVE  /\ IsCursor(CursorTwice(cur, names, ev))
           /\ \A q \in ProjectorNames :
                 CursorTwice(cur, names, ev)[q] = IF q \in names THEN n + Len(ev) ELSE cur[q]
<1>1. /\ Len(ev) = 1 \/ Len(ev) = 2
      /\ ev[1].sequence = n + 1 /\ (Len(ev) = 2 => ev[2].sequence = n + 2)
  BY DEF EventsOK
<1>2. CASE Len(ev) = 1
  <2>1. CursorTwice(cur, names, ev) = CursorAfter(cur, names, ev[1])
    BY <1>2 DEF CursorTwice
  <2> QED
    BY <1>1, <1>2, <2>1, AfterIsTables DEF CursorAfter
<1>3. CASE Len(ev) = 2
  <2>1. CursorTwice(cur, names, ev) = CursorAfter(CursorAfter(cur, names, ev[1]), names, ev[2])
    BY <1>3 DEF CursorTwice
  <2> QED
    BY <1>1, <1>3, <2>1, AfterIsTables DEF CursorAfter
<1> QED
  BY <1>1, <1>2, <1>3

\* The turns that have finished still have, unless the step projects what takes it back.
TurnsStay ==
    \A t \in DOMAIN tables.threadTurns : \A turn \in tables.threadTurns[t] :
        Finished(turn) =>
            \/ \E after \in TurnsOf(tables', t) :
                  after.turnId = turn.turnId /\ Finished(after)
            \/ \E i \in (cursor["threadTurns"] + 1)..cursor'["threadTurns"] :
                  /\ OfThread(log'[i]) /\ log'[i].threadId = t
                  /\ TakesBack(log'[i], turn.turnId)

\* So a step does that leaves the rows alone, or projects an event to them.
LEMMA TurnsStayFacts ==
    ASSUME \/ tables'.threadTurns = tables.threadTurns
           \/ \E i \in (cursor["threadTurns"] + 1)..cursor'["threadTurns"] :
                 TurnTableKept(tables, tables', log'[i])
    PROVE  TurnsStay
BY DEF TurnsStay, TurnTableKept, TurnsOf

\* What a step does to the rows of turns and approvals.
LEMMA TableStep ==
    ASSUME BaseInv, [Next]_vars
    PROVE  /\ TableInv'
           /\ TurnsStay
           /\ ApprovalsKept(tables.pendingApprovals, tables'.pendingApprovals)
<1>1. TableInv /\ Len(log) \in Nat
  BY SeqDomain DEF BaseInv, LogInv
<1>2. CASE UNCHANGED <<log, tables, cursor, replayed>>
  <2>1. TableInv'
    BY <1>1, <1>2 DEF TableInv
  <2>2. TurnsStay
    BY <1>2, TurnsStayFacts
  <2> QED
    BY <1>2, <2>1, <2>2 DEF ApprovalsKept
<1>3. ASSUME NEW c \in Commands(Len(log)), dispatch(c)
      PROVE  /\ TableInv'
             /\ TurnsStay
             /\ ApprovalsKept(tables.pendingApprovals, tables'.pendingApprovals)
  <2> DEFINE ev == EventsOf(c)
  <2>1. Dispatched(c, ev)
    BY <1>3, DispatchFacts
  <2> HIDE DEF ev
  <2>2. /\ EventsOK(ev, c, Len(log)) /\ Len(log') = Len(log) + Len(ev)
        /\ tables' = Twice(tables, installed, ev) /\ cursor' = CursorTwice(cursor, installed, ev)
        /\ replayed'.tables = Twice(replayed.tables, ProjectorNames, ev)
        /\ replayed'.cursor = CursorTwice(replayed.cursor, ProjectorNames, ev)
        /\ \A i \in 1..Len(ev) : log'[Len(log) + i] = ev[i]
    BY <2>1 DEF Dispatched
  <2>3. TablesOK(tables') /\ TurnTableKept(tables, tables', ev[Len(ev)])
        /\ ApprovalsKept(tables.pendingApprovals, tables'.pendingApprovals)
    BY <1>1, <2>2, TwiceOK DEF TableInv
  <2>4. TablesOK(replayed'.tables)
    BY <1>1, <2>2, TwiceOK DEF TableInv
  <2>5. IsCursor(cursor') /\ IsCursor(replayed'.cursor)
    BY <1>1, <2>2, CursorTwiceFacts
  <2>6. \A q \in ProjectorNames : cursor'[q] \in 0..Len(log')
    <3>1. \A q \in ProjectorNames : cursor'[q] = IF q \in installed THEN Len(log) + Len(ev) ELSE cursor[q]
      BY <1>1, <2>2, CursorTwiceFacts
    <3>2. Len(ev) \in 1..2
      BY <2>2 DEF EventsOK
    <3> QED
      BY <1>1, <2>2, <3>1, <3>2 DEF TableInv
  <2>7. TableInv'
    BY <2>3, <2>4, <2>5, <2>6 DEF TableInv, TablesOK, IsCursor, IsTables, ApprovalsOK, TurnsOK, TurnOK
  <2>8. TurnsStay
    <3>1. CASE "threadTurns" \in installed
      <4>1. cursor'["threadTurns"] = Len(log) + Len(ev) /\ cursor["threadTurns"] \in 0..Len(log)
        BY <1>1, <2>2, <3>1, CursorTwiceFacts, NamesFacts DEF TableInv
      <4>2. Len(ev) \in 1..2
        BY <2>2 DEF EventsOK
      <4>3. log'[Len(log) + Len(ev)] = ev[Len(ev)]
        <5>1. Len(ev) \in 1..Len(ev)
          BY <4>2
        <5> QED
          BY <2>2, <5>1
      <4>4. Len(log) + Len(ev) \in (cursor["threadTurns"] + 1)..cursor'["threadTurns"]
        <5>1. \A n, m, from \in Nat : from <= n /\ m >= 1 => n + m \in (from + 1)..(n + m)
          OBVIOUS
        <5>2. /\ Len(log) \in Nat /\ Len(ev) \in Nat /\ cursor["threadTurns"] \in Nat
              /\ cursor["threadTurns"] <= Len(log) /\ Len(ev) >= 1
          BY <1>1, <4>1, <4>2
        <5> QED
          BY <4>1, <5>1, <5>2
      <4> QED
        BY <2>3, <4>3, <4>4, TurnsStayFacts
    <3>2. CASE "threadTurns" \notin installed
      <4>1. tables'.threadTurns = tables.threadTurns
        BY <2>2, <3>2, NamesFacts DEF Twice, After
      <4> QED
        BY <4>1, TurnsStayFacts
    <3> QED
      BY <3>1, <3>2
  <2> QED
    BY <2>3, <2>7, <2>8
<1>4. CASE BootstrapEvent /\ UNCHANGED <<log, replayed>>
  <2> DEFINE p == projectors[bootstrap.projector]
             e == log[cursor[p] + 1]
  <2>1. /\ p \in ProjectorNames /\ cursor[p] + 1 \in 1..Len(log) /\ EventOK(e)
        /\ tables' = apply(p, tables, e) /\ cursor' = [cursor EXCEPT ![p] = cursor[p] + 1]
    BY <1>4, BootstrapFacts
  <2> HIDE DEF p, e
  <2>2. Stepped(tables', tables, e)
    BY <1>1, <2>1, ApplySteps DEF TableInv, TablesOK
  <2>3. TablesOK(tables') /\ TurnTableKept(tables, tables', e)
        /\ ApprovalsKept(tables.pendingApprovals, tables'.pendingApprovals)
    BY <1>1, <2>1, <2>2, SteppedOK DEF TableInv
  <2>4. IsCursor(cursor') /\ \A q \in ProjectorNames : cursor'[q] \in 0..Len(log')
    <3>1. cursor = [q \in ProjectorNames |-> cursor[q]] /\ \A q \in ProjectorNames : cursor[q] \in 0..Len(log)
      BY <1>1 DEF TableInv, IsCursor
    <3> HIDE DEF ProjectorNames
    <3>2. cursor' = [q \in ProjectorNames |-> IF q = p THEN cursor[p] + 1 ELSE cursor[q]]
      BY <2>1, <3>1
    <3>3. cursor' = [q \in ProjectorNames |-> cursor'[q]]
      BY <3>2
    <3>4. \A q \in ProjectorNames : cursor'[q] \in 0..Len(log')
      BY <1>1, <1>4, <2>1, <3>1, <3>2
    <3> QED
      BY <3>3, <3>4 DEF IsCursor
  <2>5. TableInv'
    BY <1>1, <1>4, <2>3, <2>4 DEF TableInv, TablesOK, IsCursor, IsTables, ApprovalsOK, TurnsOK, TurnOK
  <2>6. TurnsStay
    <3>1. CASE p = "threadTurns"
      <4>1. log'[cursor["threadTurns"] + 1] = e
        BY <1>4, <3>1 DEF e
      <4>2. cursor["threadTurns"] \in 0..Len(log) /\ cursor'["threadTurns"] = cursor["threadTurns"] + 1
        BY <1>1, <2>1, <3>1 DEF TableInv, IsCursor
      <4>3. cursor["threadTurns"] + 1 \in (cursor["threadTurns"] + 1)..cursor'["threadTurns"]
        BY <1>1, <4>2
      <4> QED
        BY <2>3, <4>1, <4>3, TurnsStayFacts
    <3>2. CASE p # "threadTurns"
      <4>1. tables'.threadTurns = tables.threadTurns
        <5>1. IsTables(tables) /\ "threadTurns" \in TableNames
          BY <1>1, NamesFacts DEF TableInv, TablesOK
        <5>2. \A q \in TableNames : q # p => tables'[q] = tables[q]
          BY <2>1, <5>1, ApplyWrites
        <5> QED
          BY <3>2, <5>1, <5>2
      <4> QED
        BY <4>1, TurnsStayFacts
    <3> QED
      BY <3>1, <3>2
  <2> QED
    BY <2>3, <2>5, <2>6
<1> QED
  BY <1>2, <1>3, <1>4, DatabaseChanges

\* Every step keeps the invariant of the server's control,
LEMMA ControlStep == BaseInv /\ [Next]_vars => ControlInv'
<1> SUFFICES ASSUME BaseInv, [Next]_vars PROVE ControlInv'
  OBVIOUS
<1>1. ControlInv /\ READ_LIMIT \in Nat \ {0} /\ Len(projectors) = 9
  BY ProjectionAssumption, NamesFacts DEF BaseInv
<1>2. ASSUME NEW c, Upload(c) PROVE ControlInv'
  BY <1>1, <1>2 DEF Upload, ControlInv
<1>3. ASSUME NEW c, dispatch(c) PROVE ControlInv'
  BY <1>1, <1>3 DEF dispatch, CanDispatch, ControlInv
<1>4. ASSUME NEW c, DispatchRolledBack(c) PROVE ControlInv'
  BY <1>1, <1>4 DEF DispatchRolledBack, CanDispatch, ControlInv
<1>5. CASE Crash
  BY <1>1, <1>5 DEF Crash, ControlInv, NoBootstrap
<1>6. CASE Upgrade
  BY <1>1, <1>6 DEF Upgrade, ControlInv
<1>7. CASE Start
  <2>1. FirstBehind(1) \in 1..10
    BY FirstBehindFacts
  <2> QED
    BY <1>1, <1>7, <2>1 DEF Start, ControlInv
<1>8. CASE BootstrapEvent
  <2>1. sideEffects' \subseteq files /\ bootstrap.projector \in 1..9
    BY <1>8, BootstrapFacts
  <2>2. bootstrap' = [bootstrap EXCEPT !.left = bootstrap.left - 1] /\ bootstrap.left > 0
        /\ status = "bootstrapping"
        /\ UNCHANGED <<files, uploaded, installed, status>>
    BY <1>8 DEF BootstrapEvent, Bootstrapping
  <2>3. bootstrap'.projector = bootstrap.projector /\ bootstrap'.left = bootstrap.left - 1
        /\ bootstrap' = [projector |-> bootstrap'.projector, left |-> bootstrap'.left]
    BY <1>1, <2>2 DEF ControlInv
  <2> QED
    BY <1>1, <2>1, <2>2, <2>3 DEF ControlInv
<1>9. CASE RunAttachmentSideEffects
  BY <1>1, <1>9 DEF RunAttachmentSideEffects, ControlInv
<1>10. CASE NextProjector
  <2>1. bootstrap.projector \in 1..9
    BY <1>1, <1>10 DEF NextProjector, Bootstrapping, ControlInv
  <2>2. FirstBehind(bootstrap.projector + 1) \in 1..10
    BY <2>1, FirstBehindFacts
  <2> QED
    BY <1>1, <1>10, <2>2 DEF NextProjector, Bootstrapping, ControlInv
<1>11. CASE Serve
  <2>1. sideEffects = {}
    BY <1>1, <1>11 DEF Serve, ControlInv
  <2> QED
    BY <1>1, <1>11, <2>1 DEF Serve, ControlInv, NoBootstrap
<1>12. CASE UNCHANGED vars
  BY <1>1, <1>12 DEF vars, database, ControlInv
<1> QED
  BY <1>2, <1>3, <1>4, <1>5, <1>6, <1>7, <1>8, <1>9, <1>10, <1>11, <1>12 DEF Next, BootstrapStep

\* that of the read model,
LEMMA ModelStep == BaseInv /\ [Next]_vars => ModelInv'
<1> SUFFICES ASSUME BaseInv, [Next]_vars PROVE ModelInv'
  OBVIOUS
<1>1. ModelInv /\ LogInv /\ Len(log) \in Nat
  BY SeqDomain DEF BaseInv, LogInv
<1>2. ASSUME NEW c \in Commands(Len(log)), dispatch(c) PROVE ModelInv'
  <2> DEFINE ev == EventsOf(c)
  <2>1. Dispatched(c, ev)
    BY <1>2, DispatchFacts
  <2> HIDE DEF ev
  <2>2. /\ EventsOK(ev, c, Len(log)) /\ Len(log') = Len(log) + Len(ev)
        /\ \A i \in 1..Len(log) : log'[i] = log[i]
        /\ \A i \in 1..Len(ev) : log'[Len(log) + i] = ev[i]
        /\ readModel' = projectEvents(readModel, ev) /\ status = "running"
    BY <2>1 DEF Dispatched
  <2>3. Tracks(readModel, log', Len(log))
    BY <1>1, <2>2, TracksLonger DEF ModelInv
  <2>4. Len(ev) \in Nat /\ \A i \in 1..Len(ev) : ev[i] = log'[Len(log) + i] /\ ev[i].sequence = Len(log) + i
    BY <2>2 DEF EventsOK
  <2>5. Tracks(readModel', log', Len(log'))
    BY <1>1, <2>2, <2>3, <2>4, FoldTracks
  <2>6. status' = "running"
    BY <1>2, <2>2 DEF dispatch
  <2> QED
    BY <2>5, <2>6 DEF ModelInv, Tracks, CreatedThreads
<1>3. CASE Serve
  <2>1. Tracks(createEmptyReadModel, log, 0)
    BY EmptyTracks
  <2>2. \A i \in 1..Len(log) : log[i] = log[0 + i] /\ log[i].sequence = 0 + i
    BY <1>1 DEF LogInv
  <2>3. Tracks(projectEvents(createEmptyReadModel, log), log, 0 + Len(log))
    BY <1>1, <2>1, <2>2, FoldTracks
  <2>4. 0 + Len(log) = Len(log)
    BY <1>1
  <2>5. readModel' = projectEvents(createEmptyReadModel, log) /\ log' = log /\ status' = "running"
    BY <1>3 DEF Serve, database
  <2> QED
    BY <2>3, <2>4, <2>5 DEF ModelInv, Tracks, CreatedThreads
<1>4. CASE Crash
  <2>1. readModel' = createEmptyReadModel /\ status' = "down"
    BY <1>4 DEF Crash
  <2> QED
    BY <2>1 DEF ModelInv
<1>5. CASE Start
  <2>1. readModel' = readModel /\ status' = "bootstrapping" /\ status = "down"
    BY <1>5 DEF Start
  <2> QED
    BY <1>1, <2>1 DEF ModelInv
<1>6. CASE UNCHANGED <<readModel, status, log>>
  BY <1>1, <1>6, SMTT(30) DEF ModelInv, Tracks, CreatedThreads
<1>7. \/ UNCHANGED <<readModel, status, log>>
      \/ \E c \in Commands(Len(log)) : dispatch(c)
      \/ Crash \/ Start \/ Serve
  BY DEF Next, vars, database, Upload, DispatchRolledBack, Upgrade, BootstrapStep,
         BootstrapEvent, RunAttachmentSideEffects, NextProjector
<1> QED
  BY <1>2, <1>3, <1>4, <1>5, <1>6, <1>7

\* and so all of it.
LEMMA BaseStep == BaseInv /\ [Next]_vars => BaseInv'
BY LogStep, TableStep, ControlStep, ModelStep DEF BaseInv

\* The inductive invariant holds in every state of every execution.
THEOREM Invariance == Spec => []BaseInv
<1>1. BaseInv /\ [Next]_vars => BaseInv'
  BY BaseStep
<1> QED
  BY InitBase, <1>1, PTL DEF Spec

\* The rows, the cursors, the bootstrap and the files it removes have the shapes that the code gives
\* them, and no cursor and no read model is ahead of the log: for every log, every set of projectors
\* the database came with and every limit of a read.
THEOREM TypeCorrect == Spec => []TypeOK
BY Invariance, BaseImpliesTypeOK, PTL

\* ApprovalsAfter: an approval that was resolved stays so in every step, those of a bootstrap that
\* crashes and resumes included, whatever the provider's activities and the user's answers.
THEOREM ApprovalsStayResolvedHolds == Spec => ApprovalsStayResolved
<1>1. BaseInv /\ [Next]_vars
        => [\A requestId \in DOMAIN tables.pendingApprovals :
              IsResolved(tables.pendingApprovals, requestId)
                => IsResolved(tables'.pendingApprovals, requestId)]_vars
  BY TableStep DEF ApprovalsKept
<1> QED
  BY Invariance, <1>1, PTL DEF Spec, ApprovalsStayResolved

\* TurnsAfter: a turn that completed or failed stays so until an interrupt of it or a revert of its
\* thread is projected to the turns, for every order of session updates, message chunks and
\* checkpoints, whichever projectors the database came with and wherever a bootstrap crashes.
THEOREM FinishedTurnsStayFinishedHolds == Spec => FinishedTurnsStayFinished
<1>1. BaseInv /\ [Next]_vars
        => [\A t \in DOMAIN tables.threadTurns : \A turn \in tables.threadTurns[t] :
              Finished(turn) =>
                 \/ \E after \in TurnsOf(tables', t) :
                       after.turnId = turn.turnId /\ Finished(after)
                 \/ \E i \in (cursor["threadTurns"] + 1)..cursor'["threadTurns"] :
                       /\ OfThread(log'[i]) /\ log'[i].threadId = t
                       /\ TakesBack(log'[i], turn.turnId)]_vars
  BY TableStep DEF TurnsStay
<1> QED
  BY Invariance, <1>1, PTL DEF Spec, FinishedTurnsStayFinished

(***************************************************************************)
(* Reverts that keep nothing                                               *)
(***************************************************************************)

\* The projectors that read the turns were there from the beginning, with the turns.
TurnsWereThere == TurnReaders \cup {"threadTurns"} \subseteq InitiallyInstalled

\* What the commands may be otherwise: reverts go to the beginning, and checkpoints count from one.
RevertsKeepNothing ==
    \A n \in 0..MaxEvents : \A c \in Commands(n) :
        /\ c.type = "thread.revert.complete" => "turnCount" \in DOMAIN c /\ c.turnCount = 0
        /\ c.type = "thread.turn.diff.complete" =>
              "checkpointTurnCount" \in DOMAIN c /\ c.checkpointTurnCount \in Nat \ {0}

\* The same of an event.
KeepsNothing(e) ==
    /\ e.type = "thread.reverted" => e.turnCount = 0
    /\ e.type = "thread.turn-diff-completed" => e.checkpointTurnCount \in Nat \ {0}

\* Checkpoints of turns count from one.
Positive(turns) ==
    \A turn \in turns : turn.checkpointTurnCount = Null \/ turn.checkpointTurnCount \in Nat \ {0}

\* Those of every thread.
PositiveTable(tabs) == \A t \in DOMAIN tabs.threadTurns : Positive(tabs.threadTurns[t])

\* That of the row that a projector looks up.
LEMMA RowCount ==
    ASSUME NEW turns, TurnsOK(turns), Positive(turns), NEW id, id # Null
    PROVE  LET row == TurnRow(turns, id)
           IN  TurnOK(row) /\ (row.checkpointTurnCount = Null \/ row.checkpointTurnCount \in Nat \ {0})
<1> DEFINE existing == {turn \in turns : turn.turnId = id}
           row == TurnRow(turns, id)
<1>1. TurnOK(row)
  BY TurnRowFacts
<1>2. CASE existing = {}
  BY <1>1, <1>2 DEF TurnRow, NewTurn
<1>3. CASE existing # {}
  <2>1. row = CHOOSE turn \in existing : TRUE
    BY <1>3 DEF TurnRow
  <2> HIDE DEF row
  <2>2. row \in turns
    BY <1>3, <2>1
  <2> QED
    BY <1>1, <2>2 DEF row, Positive
<1> QED
  BY <1>2, <1>3

\* A row among the others.
LEMMA PositiveUpsert ==
    ASSUME NEW turns, Positive(turns), NEW row,
           row.checkpointTurnCount = Null \/ row.checkpointTurnCount \in Nat \ {0}
    PROVE  Positive(upsertByTurnId(turns, row))
BY DEF Positive, upsertByTurnId

\* Every event leaves them so,
LEMMA PositiveStep ==
    ASSUME NEW turns, TurnsOK(turns), Positive(turns), NEW e, EventOK(e), KeepsNothing(e)
    PROVE  Positive(TurnsAfter(turns, e))
<1> DEFINE new == TurnsAfter(turns, e)
<1>1. \/ new = replacePendingTurnStart(turns, e)
      \/ e.session.activeTurnId # Null /\ new = TurnRuns(turns, e.session.activeTurnId)
      \/ e.turnId # Null /\ new = AssistantMessageSent(turns, e)
      \/ e.turnId # Null /\ new = TurnInterrupted(turns, e)
      \/ e.turnId # Null /\ e.type = "thread.turn-diff-completed" /\ new = TurnDiffCompleted(turns, e)
      \/ new = KeptTurns(turns, e.turnCount)
      \/ new = turns
  BY DEF TurnsAfter, TurnsReverted, EventOK
<1> HIDE DEF new
<1>2. CASE new = replacePendingTurnStart(turns, e)
  <2> DEFINE row == [NewTurn(Null) EXCEPT !.state = "pending", !.pendingMessageId = e.messageId]
  <2>1. row.checkpointTurnCount = Null
    BY DEF NewTurn
  <2>2. new \subseteq turns \cup {row}
    BY <1>2 DEF replacePendingTurnStart
  <2> HIDE DEF row
  <2>3. Positive(new)
    BY <2>1, <2>2 DEF Positive
  <2> QED
    BY <2>3 DEF new
<1>3. CASE e.session.activeTurnId # Null /\ new = TurnRuns(turns, e.session.activeTurnId)
  <2> DEFINE id == e.session.activeTurnId
             pending == {turn \in turns : IsPendingTurnStart(turn)}
             messageId == IF pending = {} THEN Null ELSE (CHOOSE turn \in pending : TRUE).pendingMessageId
             row == TurnRow(turns, id)
             row2 == [row EXCEPT !.state = RunningState(@),
                                 !.pendingMessageId = IF @ # Null THEN @ ELSE messageId]
  <2>1. new = upsertByTurnId(turns \ pending, row2)
    BY <1>3 DEF TurnRuns
  <2>2. TurnOK(row) /\ (row.checkpointTurnCount = Null \/ row.checkpointTurnCount \in Nat \ {0})
    BY <1>3, RowCount
  <2> HIDE DEF row, messageId, pending
  <2>3. row2.checkpointTurnCount = row.checkpointTurnCount
    BY <2>2 DEF TurnOK, TurnFields
  <2>4. Positive(turns \ pending)
    BY DEF Positive
  <2> HIDE DEF row2
  <2>5. Positive(new)
    BY <2>1, <2>2, <2>3, <2>4, PositiveUpsert
  <2> QED
    BY <2>5 DEF new
<1>4. CASE e.turnId # Null /\ new = AssistantMessageSent(turns, e)
  <2> DEFINE row == TurnRow(turns, e.turnId)
             row2 == [row EXCEPT !.assistantMessageId = e.messageId,
                                 !.state = IF e.streaming \/ @ \in {"interrupted", "error"} THEN @
                                           ELSE "completed"]
  <2>1. new = upsertByTurnId(turns, row2)
    BY <1>4 DEF AssistantMessageSent
  <2>2. TurnOK(row) /\ (row.checkpointTurnCount = Null \/ row.checkpointTurnCount \in Nat \ {0})
    BY <1>4, RowCount
  <2> HIDE DEF row
  <2>3. row2.checkpointTurnCount = row.checkpointTurnCount
    BY <2>2 DEF TurnOK, TurnFields
  <2> HIDE DEF row2
  <2>5. Positive(new)
    BY <2>1, <2>2, <2>3, PositiveUpsert
  <2> QED
    BY <2>5 DEF new
<1>5. CASE e.turnId # Null /\ new = TurnInterrupted(turns, e)
  <2> DEFINE row == TurnRow(turns, e.turnId)
             row2 == [row EXCEPT !.state = "interrupted"]
  <2>1. new = upsertByTurnId(turns, row2)
    BY <1>5 DEF TurnInterrupted
  <2>2. TurnOK(row) /\ (row.checkpointTurnCount = Null \/ row.checkpointTurnCount \in Nat \ {0})
    BY <1>5, RowCount
  <2> HIDE DEF row
  <2>3. row2.checkpointTurnCount = row.checkpointTurnCount
    BY <2>2 DEF TurnOK, TurnFields
  <2> HIDE DEF row2
  <2>5. Positive(new)
    BY <2>1, <2>2, <2>3, PositiveUpsert
  <2> QED
    BY <2>5 DEF new
<1>6. CASE e.turnId # Null /\ e.type = "thread.turn-diff-completed" /\ new = TurnDiffCompleted(turns, e)
  <2> DEFINE row == TurnRow(turns, e.turnId)
             mid == clearCheckpointTurnConflict(turns, e)
             row2 == [row EXCEPT !.assistantMessageId  = e.assistantMessageId,
                          !.state               = IF e.status = "error" THEN "error"
                                                  ELSE "completed",
                          !.checkpointTurnCount = e.checkpointTurnCount,
                          !.checkpointStatus    = e.status,
                          !.checkpointRef       = e.checkpointRef]
  <2>1. new = upsertByTurnId(mid, row2)
    BY <1>6 DEF TurnDiffCompleted
  <2>2. TurnOK(row)
    BY <1>6, TurnRowFacts
  <2> HIDE DEF row
  <2>3. row2.checkpointTurnCount = e.checkpointTurnCount
    BY <2>2 DEF TurnOK, TurnFields
  <2>4. \A after \in mid : \E turn \in turns :
           after.checkpointTurnCount \in {turn.checkpointTurnCount, Null}
    BY ClearConflictOK
  <2> HIDE DEF row2, mid
  <2>5. Positive(mid)
    BY <2>4 DEF Positive
  <2>6. Positive(new)
    BY <1>6, <2>1, <2>3, <2>5, PositiveUpsert DEF KeepsNothing
  <2> QED
    BY <2>6 DEF new
<1>7. CASE new = KeptTurns(turns, e.turnCount)
  BY <1>7 DEF new, KeptTurns, Positive
<1>8. CASE new = turns
  BY <1>8 DEF new
<1> QED
  BY <1>1, <1>2, <1>3, <1>4, <1>5, <1>6, <1>7, <1>8

\* in whatever step of the projectors.
LEMMA PositiveStepped ==
    ASSUME NEW tabs, TablesOK(tabs), PositiveTable(tabs), NEW e, EventOK(e), KeepsNothing(e),
           NEW new, Stepped(new, tabs, e)
    PROVE  PositiveTable(new)
<1> DEFINE t == e.threadId
           turns == TurnsOf(tabs, t)
<1>1. TurnsOK(turns) /\ Positive(turns)
  <2>1. TurnsOK({}) /\ Positive({})
    BY DEF TurnsOK, Positive
  <2> QED
    BY <2>1 DEF TurnsOf, TablesOK, PositiveTable
<1>2. Positive(TurnsAfter(turns, e))
  BY <1>1, PositiveStep
<1>3. \/ new.threadTurns = tabs.threadTurns
      \/ new.threadTurns = Put(tabs.threadTurns, t, TurnsAfter(turns, e))
  <2>1. "threadTurns" \in TableNames /\ "threadTurns" # "projects"
    BY NamesFacts
  <2>2. IsTables(tabs)
    BY DEF TablesOK
  <2> QED
    BY <2>1, <2>2, ApplyTable DEF Stepped
<1> HIDE DEF turns
<1> QED
  BY <1>2, <1>3 DEF Put, PositiveTable

\* A revert reads the same in both tables.
LEMMA SameRead ==
    ASSUME NEW tabs, NEW tabs2, NEW e,
           \/ tabs.threadTurns = tabs2.threadTurns
           \/ PositiveTable(tabs) /\ PositiveTable(tabs2) /\ KeepsNothing(e)
    PROVE  SameKept(tabs, tabs2, e)
<1>1. CASE tabs.threadTurns = tabs2.threadTurns
  BY <1>1 DEF SameKept, TurnsOf
<1>2. CASE PositiveTable(tabs) /\ PositiveTable(tabs2) /\ KeepsNothing(e)
  <2>1. \A turns : Positive(turns) => KeptTurns(turns, 0) = {}
    BY DEF Positive, KeptTurns
  <2>2. Positive({})
    BY DEF Positive
  <2>3. Positive(TurnsOf(tabs, e.threadId)) /\ Positive(TurnsOf(tabs2, e.threadId))
    BY <1>2, <2>2 DEF PositiveTable, TurnsOf
  <2> QED
    BY <1>2, <2>1, <2>3 DEF SameKept, KeepsNothing
<1> QED
  BY <1>1, <1>2

\* A table that is that of n events is that of n + 1 afterwards.
LEMMA OneEvent ==
    ASSUME NEW tabs, IsTables(tabs), NEW at, IsTables(at), NEW names, NEW e,
           \A q \in TableNames : q \in names => tabs[q] = at[q], SameKept(at, tabs, e)
    PROVE  \A q \in TableNames : q \in names => After(tabs, names, e)[q] = After(at, ProjectorNames, e)[q]
<1> SUFFICES ASSUME NEW q \in TableNames, q \in names
             PROVE  After(tabs, names, e)[q] = After(at, ProjectorNames, e)[q]
  OBVIOUS
<1>1. q \in ProjectorNames
  BY NamesFacts
<1>2. After(tabs, names, e)[q] = apply(q, tabs, e)[q] /\ After(at, ProjectorNames, e)[q] = apply(q, at, e)[q]
  BY <1>1 DEF After
<1>3. apply(q, tabs, e)[q] = apply(q, at, e)[q]
  BY ApplyReads
<1> QED
  BY <1>2, <1>3

(***************************************************************************)
(* The cursors                                                             *)
(***************************************************************************)

\* The database was made by a version with all projectors, or a start reads all of the log.
CatchesUp == InitiallyInstalled = ProjectorNames \/ MaxEvents <= READ_LIMIT

\* Who is installed has seen the log while the server runs, and who was before this one in a bootstrap;
\* what its own read may still give is enough for this one.
CursorInv ==
    /\ InitiallyInstalled \subseteq installed
    /\ \A q \in InitiallyInstalled : cursor[q] = Len(log)
    /\ \A q \in ProjectorNames : replayed.cursor[q] = Len(log)
    /\ status = "running" => \A q \in installed : cursor[q] = Len(log)
    /\ status = "bootstrapping" =>
          /\ \A j \in 1..9 : j < bootstrap.projector /\ projectors[j] \in installed
                => cursor[projectors[j]] = Len(log)
          /\ bootstrap.projector <= 9
                => Len(log) - cursor[projectors[bootstrap.projector]] <= bootstrap.left

\* It holds in the beginning.
LEMMA InitCursor == Init => CursorInv
<1> SUFFICES ASSUME Init PROVE CursorInv
  OBVIOUS
<1>1. Len(log) = 0 /\ installed = InitiallyInstalled /\ status = "down"
      /\ cursor = [p \in ProjectorNames |-> 0] /\ replayed.cursor = [p \in ProjectorNames |-> 0]
  BY NilFacts DEF Init, NothingProjected
<1>2. InitiallyInstalled \subseteq ProjectorNames
  BY ProjectionAssumption
<1> HIDE DEF ProjectorNames
<1> QED
  BY <1>1, <1>2 DEF CursorInv

\* A read has enough for whoever is behind.
LEMMA Behind ==
    ASSUME BaseInv, CursorInv, CatchesUp, NEW i \in 1..10, FirstBehind(i) <= 9
    PROVE  Len(log) - cursor[projectors[FirstBehind(i)]] <= READ_LIMIT
<1> DEFINE q == projectors[FirstBehind(i)]
           at == cursor[q]
<1>1. FirstBehind(i) \in 1..9
  BY FirstBehindFacts
<1>2. q \in ProjectorNames
  BY <1>1, NamesFacts
<1>3. Len(log) \in Nat /\ Len(log) <= MaxEvents /\ MaxEvents \in Nat /\ READ_LIMIT \in Nat \ {0}
  BY SeqDomain, ProjectionAssumption DEF BaseInv, LogInv
<1> HIDE DEF q
<1>4. at \in 0..Len(log)
  BY <1>2 DEF BaseInv, TableInv
<1>5. InitiallyInstalled = ProjectorNames => at = Len(log)
  BY <1>2 DEF CursorInv
<1> HIDE DEF at
<1>6. Len(log) - at <= READ_LIMIT
  BY <1>3, <1>4, <1>5 DEF CatchesUp
<1> QED
  BY <1>6 DEF at, q

\* Every step keeps it.
LEMMA CursorStep ==
    ASSUME BaseInv, CursorInv, CatchesUp, [Next]_vars
    PROVE  CursorInv'
<1>1. /\ Len(log) \in Nat /\ installed \subseteq ProjectorNames
      /\ \A q \in ProjectorNames : cursor[q] \in 0..Len(log)
      /\ InitiallyInstalled \subseteq ProjectorNames
      /\ status = "bootstrapping" => bootstrap.projector \in 1..10
      /\ bootstrap.left \in 0..READ_LIMIT /\ READ_LIMIT \in Nat \ {0}
      /\ bootstrap = [projector |-> bootstrap.projector, left |-> bootstrap.left]
      /\ \A j \in 1..9 : projectors[j] \in ProjectorNames
      /\ Len(projectors) = 9
      /\ \A i, j \in 1..9 : projectors[i] = projectors[j] => i = j
  BY SeqDomain, ProjectionAssumption, NamesFacts DEF BaseInv, LogInv, TableInv, ControlInv
<1>2. CursorInv
  OBVIOUS
<1> HIDE DEF ProjectorNames, projectors
<1>3. ASSUME NEW c \in Commands(Len(log)), dispatch(c) PROVE CursorInv'
  <2> DEFINE ev == EventsOf(c)
  <2>1. Dispatched(c, ev)
    BY <1>3, DispatchFacts
  <2> HIDE DEF ev
  <2>2. /\ EventsOK(ev, c, Len(log)) /\ Len(log') = Len(log) + Len(ev)
        /\ cursor' = CursorTwice(cursor, installed, ev)
        /\ replayed'.cursor = CursorTwice(replayed.cursor, ProjectorNames, ev)
        /\ status = "running"
    BY <2>1 DEF Dispatched
  <2>3. \A q \in ProjectorNames : q \in installed => cursor'[q] = Len(log')
    BY <1>1, <2>2, CursorTwiceFacts, SMTT(30)
  <2>4. \A q \in ProjectorNames : replayed'.cursor[q] = Len(log')
    BY <1>1, <2>2, CursorTwiceFacts, SMTT(30)
  <2>5. installed' = installed /\ status' = "running"
    BY <1>3, <2>2, SMTT(30) DEF dispatch
  <2> QED
    BY <1>1, <1>2, <2>3, <2>4, <2>5 DEF CursorInv
<1>4. CASE BootstrapEvent
  <2> DEFINE p == projectors[bootstrap.projector]
  <2>1. /\ bootstrap.projector \in 1..9 /\ p \in ProjectorNames /\ cursor[p] < Len(log)
        /\ cursor' = [cursor EXCEPT ![p] = cursor[p] + 1]
    BY <1>4, BootstrapFacts
  <2>2. /\ bootstrap' = [bootstrap EXCEPT !.left = bootstrap.left - 1] /\ bootstrap.left > 0
        /\ status = "bootstrapping" /\ UNCHANGED <<log, installed, status, replayed>>
    BY <1>4 DEF BootstrapEvent, Bootstrapping
  <2>3. bootstrap'.projector = bootstrap.projector /\ bootstrap'.left = bootstrap.left - 1
    BY <1>1, <2>2
  <2>4. cursor = [q \in ProjectorNames |-> cursor[q]]
    BY DEF BaseInv, TableInv, IsCursor
  <2>5. \A q \in ProjectorNames : cursor'[q] = IF q = p THEN cursor[p] + 1 ELSE cursor[q]
    BY <2>1, <2>4
  <2>6. \A q \in ProjectorNames : cursor[q] = Len(log) => cursor'[q] = Len(log)
    BY <1>1, <2>1, <2>5, SMTT(30)
  <2>7. Len(log) - cursor'[p] <= bootstrap.left - 1
    <3>1. Len(log) - cursor[p] <= bootstrap.left
      BY <2>1, <2>2 DEF CursorInv
    <3>2. cursor'[p] = cursor[p] + 1 /\ cursor[p] \in 0..Len(log)
      BY <1>1, <2>1, <2>5
    <3> QED
      BY <1>1, <3>1, <3>2, SMTT(30)
  <2>8. p = projectors[bootstrap'.projector]
    BY <2>3
  <2> HIDE DEF p
  <2>9. \A j \in 1..9 : j < bootstrap.projector /\ projectors[j] \in installed
           => cursor'[projectors[j]] = Len(log)
    BY <1>1, <1>2, <2>2, <2>6 DEF CursorInv
  <2> QED
    BY <1>1, <1>2, <2>1, <2>2, <2>3, <2>6, <2>7, <2>8, <2>9 DEF CursorInv
<1>5. CASE Crash
  BY <1>2, <1>5 DEF Crash, CursorInv, database
<1>6. CASE Upgrade
  BY <1>1, <1>2, <1>6 DEF Upgrade, CursorInv, database
<1>7. CASE Start
  <2>1. /\ FirstBehind(1) \in 1..10
        /\ \A j \in 1..9 : j < FirstBehind(1) /\ projectors[j] \in installed
              => cursor[projectors[j]] = Len(log)
    BY FirstBehindFacts
  <2>2. FirstBehind(1) <= 9 => Len(log) - cursor[projectors[FirstBehind(1)]] <= READ_LIMIT
    BY Behind
  <2>3. /\ bootstrap'.projector = FirstBehind(1) /\ bootstrap'.left = READ_LIMIT
        /\ status' = "bootstrapping" /\ UNCHANGED <<log, cursor, installed, replayed>>
    BY <1>7 DEF Start, database
  <2> QED
    BY <1>2, <2>1, <2>2, <2>3 DEF CursorInv
<1>8. CASE NextProjector
  <2> DEFINE b == bootstrap.projector
             next == FirstBehind(b + 1)
  <2>1. status = "bootstrapping" /\ b <= 9
        /\ (bootstrap.left = 0 \/ cursor[projectors[b]] = Len(log))
        /\ bootstrap'.projector = next /\ bootstrap'.left = READ_LIMIT
        /\ UNCHANGED <<log, cursor, installed, replayed, status>>
    BY <1>1, <1>8 DEF NextProjector, Bootstrapping, database
  <2>2. b \in 1..9 /\ b + 1 \in 1..10
    BY <1>1, <2>1
  <2>3. /\ next \in (b + 1)..10
        /\ \A j \in (b + 1)..9 : j < next /\ projectors[j] \in installed
              => cursor[projectors[j]] = Len(log)
    BY <2>2, FirstBehindFacts
  <2>4. next <= 9 => Len(log) - cursor[projectors[next]] <= READ_LIMIT
    BY <2>2, Behind
  <2>5. cursor[projectors[b]] = Len(log)
    <3> DEFINE at == cursor[projectors[b]]
    <3>1. Len(log) - at <= bootstrap.left
      BY <2>1 DEF CursorInv
    <3>2. at \in 0..Len(log)
      BY <1>1, <2>2
    <3>3. bootstrap.left = 0 \/ at = Len(log)
      BY <2>1
    <3> HIDE DEF at
    <3>4. at = Len(log)
      BY <1>1, <3>1, <3>2, <3>3
    <3> QED
      BY <3>4 DEF at
  <2>6. \A j \in 1..9 : j < b /\ projectors[j] \in installed => cursor[projectors[j]] = Len(log)
    BY <2>1 DEF CursorInv
  <2> HIDE DEF b, next
  <2>7. \A j \in 1..9 : j < next /\ projectors[j] \in installed => cursor[projectors[j]] = Len(log)
    <3> TAKE j \in 1..9
    <3>1. j < b \/ j = b \/ j \in (b + 1)..9
      BY <2>2
    <3> QED
      BY <2>3, <2>5, <2>6, <3>1
  <2> QED
    BY <1>2, <2>1, <2>4, <2>7 DEF CursorInv
<1>9. CASE Serve
  <2>1. status = "bootstrapping" /\ bootstrap.projector > 9
        /\ UNCHANGED <<log, cursor, installed, replayed>> /\ status' = "running"
    BY <1>1, <1>9 DEF Serve, database
  <2>2. bootstrap.projector \in 1..10
    BY <1>1, <2>1
  <2>3. \A j \in 1..9 : projectors[j] \in installed => cursor[projectors[j]] = Len(log)
    BY <2>1, <2>2, SMTT(30) DEF CursorInv
  <2>4. \A q \in ProjectorNames : \E j \in 1..9 : projectors[j] = q
    BY NamesFacts
  <2>5. ASSUME NEW q \in installed PROVE cursor[q] = Len(log)
    <3>1. PICK j \in 1..9 : projectors[j] = q
      BY <1>1, <2>4
    <3> QED
      BY <2>3, <3>1
  <2> QED
    BY <1>2, <2>1, <2>5 DEF CursorInv
<1>10. CASE UNCHANGED <<log, cursor, replayed, installed, status, bootstrap>>
  BY <1>2, <1>10 DEF CursorInv
<1>11. \/ \E c \in Commands(Len(log)) : dispatch(c)
       \/ BootstrapEvent \/ Crash \/ Upgrade \/ Start \/ NextProjector \/ Serve
       \/ UNCHANGED <<log, cursor, replayed, installed, status, bootstrap>>
  BY DEF Next, vars, database, Upload, DispatchRolledBack, BootstrapStep, RunAttachmentSideEffects
<1> QED
  BY <1>3, <1>4, <1>5, <1>6, <1>7, <1>8, <1>9, <1>10, <1>11

(***************************************************************************)
(* The tables are what the projectors make of the log                      *)
(***************************************************************************)

\* f[i] are the tables of the first i events.
Replays(f, events) ==
    /\ f[0] = EmptyTables
    /\ \A i \in 1..Len(events) : f[i] = After(f[i - 1], ProjectorNames, events[i])

\* Every table is that of the events its projector has seen.
AreThoseOf(tabs, cur, f) == \A q \in TableNames : tabs[q] = f[cur[q]][q]

\* The tables are those of a replay, each as of its cursor.
ReplayInv == \E f : Replays(f, log) /\ AreThoseOf(tables, cursor, f) /\ replayed.tables = f[Len(log)]

\* The same of the log.
LogKeepsNothing == RevertsKeepNothing => \A i \in 1..Len(log) : KeepsNothing(log[i])

\* A projector that catches up reads turns of which a revert keeps the same as in a replay.
ReadsAlike == TurnsWereThere \/ RevertsKeepNothing

\* What the proof needs of tables of which those of f are a copy.
Fit(tabs) == TablesOK(tabs) /\ (RevertsKeepNothing => PositiveTable(tabs))

\* And of an event.
FitEvent(e) == EventOK(e) /\ (RevertsKeepNothing => KeepsNothing(e))

\* An event leaves such tables,
LEMMA FitSteps ==
    ASSUME NEW tabs, Fit(tabs), NEW names, NEW e, FitEvent(e)
    PROVE  Fit(After(tabs, names, e))
<1> DEFINE new == After(tabs, names, e)
<1>1. Stepped(new, tabs, e)
  BY AfterSteps
<1> HIDE DEF new
<1>2. TablesOK(new)
  BY <1>1, SteppedOK DEF Fit, FitEvent
<1>3. RevertsKeepNothing => PositiveTable(new)
  BY <1>1, PositiveStepped DEF Fit, FitEvent
<1>4. Fit(new)
  BY <1>2, <1>3 DEF Fit
<1> QED
  BY <1>4 DEF new

\* so those of a replay are, by induction.
LEMMA FitReplay ==
    ASSUME NEW f, NEW events, Len(events) \in Nat, Replays(f, events),
           \A i \in 1..Len(events) : FitEvent(events[i])
    PROVE  \A i \in 0..Len(events) : Fit(f[i])
<1> DEFINE T == {i \in Nat : i <= Len(events) => Fit(f[i])}
<1>1. 0 \in T
  <2>1. f[0] = EmptyTables
    BY DEF Replays
  <2>2. Fit(EmptyTables)
    BY EmptyFacts DEF Fit, PositiveTable
  <2> QED
    BY <2>1, <2>2
<1>2. ASSUME NEW i \in T PROVE i + 1 \in T
  <2> SUFFICES ASSUME i + 1 <= Len(events) PROVE Fit(f[i + 1])
    OBVIOUS
  <2>1. i + 1 \in 1..Len(events) /\ (i + 1) - 1 = i /\ Fit(f[i])
    BY <1>2
  <2>2. f[i + 1] = After(f[i], ProjectorNames, events[i + 1])
    BY <2>1 DEF Replays
  <2> QED
    BY <2>1, <2>2, FitSteps
<1> HIDE DEF T
<1>3. T = Nat
  <2>1. T \subseteq Nat
    BY DEF T
  <2> QED
    BY <1>1, <1>2, <2>1, SetInduction
<1> QED
  BY <1>3 DEF T

\* One event through tables that are those of f as far as names go.
LEMMA Together ==
    ASSUME ReadsAlike, NEW tabs, Fit(tabs), NEW at, Fit(at), NEW names, NEW e, FitEvent(e),
           InitiallyInstalled \subseteq names,
           \A q \in TableNames : q \in names => tabs[q] = at[q]
    PROVE  /\ Fit(After(tabs, names, e)) /\ Fit(After(at, ProjectorNames, e))
           /\ \A q \in TableNames : q \in names =>
                 After(tabs, names, e)[q] = After(at, ProjectorNames, e)[q]
<1>1. SameKept(at, tabs, e)
  <2>1. CASE TurnsWereThere
    <3>1. "threadTurns" \in TableNames /\ "threadTurns" \in names
      BY <2>1, NamesFacts DEF TurnsWereThere
    <3>2. tabs.threadTurns = at.threadTurns
      BY <3>1
    <3> QED
      BY <3>2, SameRead
  <2>2. CASE RevertsKeepNothing
    <3>1. PositiveTable(at) /\ PositiveTable(tabs) /\ KeepsNothing(e)
      BY <2>2 DEF Fit, FitEvent
    <3> QED
      BY <3>1, SameRead
  <2> QED
    BY <2>1, <2>2 DEF ReadsAlike
<1>2. IsTables(tabs) /\ IsTables(at)
  BY DEF Fit, TablesOK
<1>3. \A q \in TableNames : q \in names =>
         After(tabs, names, e)[q] = After(at, ProjectorNames, e)[q]
  BY <1>1, <1>2, OneEvent
<1> QED
  BY <1>3, FitSteps

\* The events of a command.
LEMMA TogetherTwice ==
    ASSUME ReadsAlike, NEW tabs, Fit(tabs), NEW at, Fit(at), NEW names, NEW ev,
           Len(ev) = 1 \/ Len(ev) = 2, FitEvent(ev[1]), Len(ev) = 2 => FitEvent(ev[2]),
           InitiallyInstalled \subseteq names,
           \A q \in TableNames : q \in names => tabs[q] = at[q]
    PROVE  \A q \in TableNames : Twice(tabs, names, ev)[q]
              = IF q \in names THEN Twice(at, ProjectorNames, ev)[q] ELSE tabs[q]
<1> DEFINE one == After(tabs, names, ev[1])
           two == After(one, names, ev[2])
           at1 == After(at, ProjectorNames, ev[1])
           at2 == After(at1, ProjectorNames, ev[2])
<1>1. Fit(one) /\ Fit(at1) /\ \A q \in TableNames : q \in names => one[q] = at1[q]
  BY Together
<1>2. \A q \in TableNames : q \notin names => one[q] = tabs[q]
  BY DEF After
<1>3. CASE Len(ev) = 1
  BY <1>1, <1>2, <1>3 DEF Twice
<1>4. CASE Len(ev) = 2
  <2> HIDE DEF one, at1
  <2>1. \A q \in TableNames : q \in names => two[q] = at2[q]
    BY <1>1, <1>4, Together
  <2>2. \A q \in TableNames : q \notin names => two[q] = one[q]
    BY DEF After
  <2>3. Twice(tabs, names, ev) = two /\ Twice(at, ProjectorNames, ev) = at2
    BY <1>4 DEF Twice, one, at1
  <2> HIDE DEF two, at2
  <2> QED
    BY <1>2, <2>1, <2>2, <2>3
<1> QED
  BY <1>3, <1>4

-----------------------------------------------------------------------------
\* An empty log replays to empty tables.
LEMMA InitReplay == Init => ReplayInv /\ LogKeepsNothing
<1> SUFFICES ASSUME Init PROVE ReplayInv /\ LogKeepsNothing
  OBVIOUS
<1>1. Len(log) = 0 /\ tables = EmptyTables /\ replayed.tables = EmptyTables
      /\ cursor = [p \in ProjectorNames |-> 0]
  BY NilFacts DEF Init, NothingProjected
<1> DEFINE f == [i \in {0} |-> EmptyTables]
<1>2. f[0] = EmptyTables
  OBVIOUS
<1>3. \A q \in TableNames : cursor[q] = 0
  BY <1>1, NamesFacts
<1> HIDE DEF f
<1>4. Replays(f, log) /\ AreThoseOf(tables, cursor, f) /\ replayed.tables = f[Len(log)]
  BY <1>1, <1>2, <1>3 DEF Replays, AreThoseOf
<1> QED
  BY <1>1, <1>4 DEF ReplayInv, LogKeepsNothing

\* The event of a command that keeps nothing keeps nothing.
LEMMA EventKeepsNothing ==
    ASSUME NEW n \in 0..MaxEvents, NEW c \in Commands(n), NEW ev, EventsOK(ev, c, n),
           RevertsKeepNothing, NEW i \in 1..Len(ev)
    PROVE  KeepsNothing(ev[i])
<1>1. /\ c.type = "thread.revert.complete" => "turnCount" \in DOMAIN c /\ c.turnCount = 0
      /\ c.type = "thread.turn.diff.complete" =>
              "checkpointTurnCount" \in DOMAIN c /\ c.checkpointTurnCount \in Nat \ {0}
  BY DEF RevertsKeepNothing
<1>2. /\ ev[i].type = "thread.reverted" => c.type = "thread.revert.complete"
      /\ ev[i].type = "thread.turn-diff-completed" => c.type = "thread.turn.diff.complete"
      /\ \A x \in DOMAIN c : x \notin PayloadFields /\ x # "sequence" => ev[i][x] = c[x]
  BY DEF EventsOK
<1>3. "turnCount" \notin PayloadFields /\ "checkpointTurnCount" \notin PayloadFields
  BY DEF PayloadFields
<1> QED
  BY <1>1, <1>2, <1>3 DEF KeepsNothing

\* Every step keeps what the log is assumed to be.
LEMMA KeepsStep == BaseInv /\ LogKeepsNothing /\ [Next]_vars => LogKeepsNothing'
<1> SUFFICES ASSUME BaseInv, LogKeepsNothing, [Next]_vars, RevertsKeepNothing
             PROVE  \A i \in 1..Len(log') : KeepsNothing(log'[i])
  BY DEF LogKeepsNothing, RevertsKeepNothing, KeepsNothing
<1>1. Len(log) \in 0..MaxEvents /\ \A i \in 1..Len(log) : KeepsNothing(log[i])
  BY SeqDomain, ProjectionAssumption DEF BaseInv, LogInv, LogKeepsNothing
<1>2. CASE log' = log
  BY <1>1, <1>2
<1>3. ASSUME NEW c \in Commands(Len(log)), dispatch(c)
      PROVE  \A i \in 1..Len(log') : KeepsNothing(log'[i])
  <2> DEFINE ev == EventsOf(c)
  <2>1. Dispatched(c, ev)
    BY <1>3, DispatchFacts
  <2> HIDE DEF ev
  <2>2. /\ EventsOK(ev, c, Len(log)) /\ Len(log') = Len(log) + Len(ev)
        /\ \A i \in 1..Len(log) : log'[i] = log[i]
        /\ \A i \in 1..Len(ev) : log'[Len(log) + i] = ev[i]
    BY <2>1 DEF Dispatched
  <2>3. Len(ev) \in 1..2
    BY <2>2 DEF EventsOK
  <2>4. \A i \in 1..Len(ev) : KeepsNothing(ev[i])
    BY <1>1, <2>2, EventKeepsNothing
  <2> TAKE i \in 1..Len(log')
  <2>5. CASE i <= Len(log)
    BY <1>1, <2>2, <2>5
  <2>6. CASE i > Len(log)
    <3> DEFINE k == i - Len(log)
    <3>1. k \in 1..Len(ev) /\ i = Len(log) + k
      BY <1>1, <2>2, <2>3, <2>6
    <3> HIDE DEF k
    <3> QED
      BY <2>2, <2>4, <3>1
  <2> QED
    BY <1>1, <2>5, <2>6
<1> QED
  BY <1>2, <1>3, DatabaseChanges

\* Every step keeps the tables those of a replay.
LEMMA ReplayStep ==
    ASSUME BaseInv, CursorInv, LogKeepsNothing, ReplayInv, ReadsAlike, [Next]_vars
    PROVE  ReplayInv'
<1>1. PICK f : Replays(f, log) /\ AreThoseOf(tables, cursor, f) /\ replayed.tables = f[Len(log)]
  BY DEF ReplayInv
<1>2. /\ Len(log) \in 0..MaxEvents /\ \A i \in 1..Len(log) : FitEvent(log[i])
      /\ \A q \in ProjectorNames : cursor[q] \in 0..Len(log)
      /\ installed \subseteq ProjectorNames /\ InitiallyInstalled \subseteq installed
  BY SeqDomain, ProjectionAssumption DEF BaseInv, LogInv, LogKeepsNothing, FitEvent, TableInv, ControlInv, CursorInv
<1>3. \A i \in 0..Len(log) : Fit(f[i])
  BY <1>1, <1>2, FitReplay
<1>4. TableNames \subseteq ProjectorNames
  BY NamesFacts
<1>5. Fit(tables)
  <2>1. TablesOK(tables)
    BY DEF BaseInv, TableInv
  <2>2. "threadTurns" \in TableNames /\ cursor["threadTurns"] \in 0..Len(log)
    BY <1>2, NamesFacts
  <2>3. tables.threadTurns = f[cursor["threadTurns"]].threadTurns
    BY <1>1, <2>2 DEF AreThoseOf
  <2>4. Fit(f[cursor["threadTurns"]])
    BY <1>3, <2>2
  <2> QED
    BY <2>1, <2>3, <2>4 DEF Fit, PositiveTable
<1> HIDE DEF ProjectorNames, projectors
<1>6. CASE UNCHANGED <<log, tables, cursor, replayed>>
  BY <1>1, <1>6 DEF ReplayInv, Replays, AreThoseOf
<1>7. ASSUME NEW c \in Commands(Len(log)), dispatch(c) PROVE ReplayInv'
  <2> DEFINE ev == EventsOf(c)
             n == Len(log)
             at == f[n]
             at1 == After(at, ProjectorNames, ev[1])
             at2 == After(at1, ProjectorNames, ev[2])
             g == [i \in 0..(n + 2) |-> IF i <= n THEN f[i] ELSE IF i = n + 1 THEN at1 ELSE at2]
  <2>1. Dispatched(c, ev)
    BY <1>7, DispatchFacts
  <2> HIDE DEF ev
  <2>2. /\ EventsOK(ev, c, n) /\ Len(log') = n + Len(ev)
        /\ \A i \in 1..n : log'[i] = log[i]
        /\ \A i \in 1..Len(ev) : log'[n + i] = ev[i]
        /\ tables' = Twice(tables, installed, ev) /\ cursor' = CursorTwice(cursor, installed, ev)
        /\ replayed'.tables = Twice(replayed.tables, ProjectorNames, ev)
        /\ status = "running"
    BY <2>1 DEF Dispatched
  <2>3. /\ Len(ev) = 1 \/ Len(ev) = 2
        /\ \A i \in 1..Len(ev) : FitEvent(ev[i])
    BY <1>2, <2>2, EventKeepsNothing, SMTT(30) DEF EventsOK, FitEvent
  <2>4. n \in Nat
    BY <1>2
  <2>5. Fit(at)
    BY <1>3, <2>4
  <2>6. \A q \in TableNames : q \in installed => tables[q] = at[q]
    <3>1. \A q \in installed : cursor[q] = Len(log)
      BY <2>2 DEF CursorInv
    <3> QED
      BY <1>1, <3>1 DEF AreThoseOf
  <2>7. FitEvent(ev[1]) /\ (Len(ev) = 2 => FitEvent(ev[2]))
    BY <2>3
  <2> HIDE DEF at
  <2>8. \A q \in TableNames : tables'[q]
              = IF q \in installed THEN Twice(at, ProjectorNames, ev)[q] ELSE tables[q]
    BY <1>2, <1>5, <2>2, <2>3, <2>5, <2>6, <2>7, TogetherTwice
  <2>9. Twice(at, ProjectorNames, ev) = IF Len(ev) = 1 THEN at1 ELSE at2
    BY DEF Twice
  <2>10. (\A i \in 0..n : g[i] = f[i]) /\ g[n + 1] = at1 /\ g[n + 2] = at2 /\ g[n] = at
    <3> HIDE DEF at1, at2
    <3> QED
      BY <2>4 DEF at
  <2>11. at1 = After(at, ProjectorNames, ev[1]) /\ at2 = After(at1, ProjectorNames, ev[2])
    OBVIOUS
  <2> HIDE DEF g, at1, at2
  <2>12. g[Len(log')] = Twice(at, ProjectorNames, ev)
    BY <2>2, <2>3, <2>9, <2>10
  <2>13. Replays(g, log')
    <3>1. g[0] = EmptyTables
      BY <1>1, <2>4, <2>10 DEF Replays
    <3>2. ASSUME NEW i \in 1..Len(log') PROVE g[i] = After(g[i - 1], ProjectorNames, log'[i])
      <4>1. CASE i <= n
        <5>1. i \in 1..n /\ i - 1 \in 0..n /\ i \in 0..n
          BY <2>4, <4>1
        <5>2. f[i] = After(f[i - 1], ProjectorNames, log[i])
          BY <1>1, <5>1 DEF Replays
        <5> QED
          BY <2>2, <2>10, <5>1, <5>2
      <4>2. CASE i = n + 1
        <5>1. i - 1 = n /\ log'[i] = ev[1]
          BY <2>2, <2>3, <2>4, <4>2
        <5> QED
          BY <2>10, <2>11, <4>2, <5>1
      <4>3. CASE i = n + 2
        <5>1. i - 1 = n + 1 /\ Len(ev) = 2
          BY <2>2, <2>3, <2>4, <4>3
        <5>2. log'[i] = ev[2]
          BY <2>2, <2>3, <2>4, <4>3, <5>1
        <5> QED
          BY <2>10, <2>11, <4>3, <5>1, <5>2
      <4>4. i <= n \/ i = n + 1 \/ i = n + 2
        BY <2>2, <2>3, <2>4, SMTT(30)
      <4> QED
        BY <4>1, <4>2, <4>3, <4>4
    <3> QED
      BY <3>1, <3>2 DEF Replays
  <2>14. AreThoseOf(tables', cursor', g)
    <3> SUFFICES ASSUME NEW q \in TableNames PROVE tables'[q] = g[cursor'[q]][q]
      BY DEF AreThoseOf
    <3>1. cursor'[q] = IF q \in installed THEN n + Len(ev) ELSE cursor[q]
      BY <1>4, <2>2, <2>4, CursorTwiceFacts
    <3>2. CASE q \in installed
      BY <2>2, <2>8, <2>12, <3>1, <3>2
    <3>3. CASE q \notin installed
      <4>1. cursor[q] \in 0..n
        BY <1>2, <1>4
      <4> QED
        BY <1>1, <2>8, <2>10, <3>1, <3>3, <4>1 DEF AreThoseOf
    <3> QED
      BY <3>2, <3>3
  <2>15. replayed'.tables = g[Len(log')]
    BY <1>1, <2>2, <2>12 DEF at
  <2> QED
    BY <2>13, <2>14, <2>15 DEF ReplayInv, Replays, AreThoseOf
<1>8. CASE BootstrapEvent /\ UNCHANGED <<log, replayed>>
  <2> DEFINE p == projectors[bootstrap.projector]
             k == cursor[p]
             e == log[k + 1]
  <2>1. /\ p \in ProjectorNames /\ k < Len(log) /\ k + 1 \in 1..Len(log)
        /\ tables' = apply(p, tables, e) /\ cursor' = [cursor EXCEPT ![p] = k + 1]
    BY <1>8, BootstrapFacts
  <2>2. k \in 0..Len(log) /\ (k + 1) - 1 = k
    BY <1>2, <2>1
  <2>3. cursor = [q \in ProjectorNames |-> cursor[q]]
    BY DEF BaseInv, TableInv, IsCursor
  <2>4. IsTables(tables)
    BY DEF BaseInv, TableInv, TablesOK
  <2>5. FitEvent(e)
    BY <1>2, <2>1
  <2>6. p \in InitiallyInstalled => k = Len(log)
    BY DEF CursorInv
  <2>14. k = cursor[p]
    OBVIOUS
  <2> HIDE DEF p, k, e
  <2>7. \A q \in ProjectorNames : cursor'[q] = IF q = p THEN k + 1 ELSE cursor[q]
    BY <2>1, <2>3
  <2>8. IsTables(tables') /\ \A q \in TableNames : q # p => tables'[q] = tables[q]
    BY <2>1, <2>4, ApplyWrites
  <2>9. Fit(f[k]) /\ Fit(f[k + 1])
    BY <1>3, <2>1, <2>2
  <2>10. f[k + 1] = After(f[k], ProjectorNames, e)
    BY <1>1, <2>1, <2>2 DEF Replays, e
  <2>11. p \in TableNames => tables'[p] = f[k + 1][p]
    <3> SUFFICES ASSUME p \in TableNames PROVE tables'[p] = f[k + 1][p]
      OBVIOUS
    <3>1. IsTables(f[k])
      BY <2>9 DEF Fit, TablesOK
    <3>2. tables[p] = f[k][p]
      BY <1>1, <2>14 DEF AreThoseOf
    <3>3. p \in TurnReaders => SameKept(f[k], tables, e)
      <4>1. CASE TurnsWereThere
        BY <1>2, <2>1, <2>2, <2>6, <4>1 DEF TurnsWereThere
      <4>2. CASE RevertsKeepNothing
        <5>1. PositiveTable(f[k]) /\ PositiveTable(tables) /\ KeepsNothing(e)
          BY <1>5, <2>5, <2>9, <4>2 DEF Fit, FitEvent
        <5> QED
          BY <5>1, SameRead
      <4> QED
        BY <4>1, <4>2 DEF ReadsAlike
    <3>4. apply(p, tables, e)[p] = apply(p, f[k], e)[p]
      BY <2>4, <3>1, <3>2, <3>3, ApplyReads
    <3>5. After(f[k], ProjectorNames, e)[p] = apply(p, f[k], e)[p]
      BY <2>1 DEF After
    <3> QED
      BY <2>1, <2>10, <3>4, <3>5
  <2>12. \A q \in TableNames : tables'[q] = f[cursor'[q]][q]
    BY <1>1, <1>4, <2>7, <2>8, <2>11 DEF AreThoseOf
  <2>13. AreThoseOf(tables', cursor', f)
    BY <2>12 DEF AreThoseOf
  <2> QED
    BY <1>1, <1>8, <2>13 DEF ReplayInv, Replays, AreThoseOf
<1> QED
  BY <1>6, <1>7, <1>8, DatabaseChanges

\* The inductive invariant of the replay.
ReplayedInv == BaseInv /\ CursorInv /\ LogKeepsNothing /\ ReplayInv

\* Who has seen the whole log has the tables of all of it.
LEMMA ReplayedMeansReplay ==
    ASSUME ReplayedInv PROVE TablesAreReplay
<1> SUFFICES ASSUME UpToDate PROVE tables = replayed.tables /\ cursor = replayed.cursor
  BY DEF TablesAreReplay
<1>1. PICK f : Replays(f, log) /\ AreThoseOf(tables, cursor, f) /\ replayed.tables = f[Len(log)]
  BY DEF ReplayedInv, ReplayInv
<1>2. /\ IsTables(tables) /\ IsTables(replayed.tables) /\ IsCursor(cursor) /\ IsCursor(replayed.cursor)
  BY DEF ReplayedInv, BaseInv, TableInv, TablesOK
<1>3. \A q \in ProjectorNames : cursor[q] = Len(log) /\ replayed.cursor[q] = Len(log)
  BY DEF ReplayedInv, CursorInv, UpToDate
<1> HIDE DEF ProjectorNames
<1>4. cursor = replayed.cursor
  BY <1>2, <1>3 DEF IsCursor
<1>5. ASSUME NEW q \in TableNames PROVE tables[q] = replayed.tables[q]
  <2>1. q \in ProjectorNames
    BY NamesFacts
  <2>2. cursor[q] = Len(log)
    BY <1>3, <2>1
  <2>3. tables[q] = f[cursor[q]][q]
    BY <1>1 DEF AreThoseOf
  <2> QED
    BY <1>1, <2>2, <2>3
<1> HIDE DEF TableNames
<1>6. tables = replayed.tables
  BY <1>2, <1>5 DEF IsTables
<1> QED
  BY <1>4, <1>6

\* The inductive invariant of the replay holds in every state of every execution.
THEOREM ReplayedInvariance ==
    ASSUME CatchesUp, ReadsAlike
    PROVE  Spec => []ReplayedInv
<1>1. Init => ReplayedInv
  BY InitBase, InitCursor, InitReplay DEF ReplayedInv
<1>2. ReplayedInv /\ [Next]_vars => ReplayedInv'
  BY BaseStep, CursorStep, KeepsStep, ReplayStep DEF ReplayedInv
<1> QED
  BY <1>1, <1>2, PTL DEF Spec

\* bootstrap, runProjectorForEvent: whenever the server runs, the tables are those of a replay of the
\* log from its beginning, wherever bootstraps crashed and whichever projectors the database came with.
\* It takes a read that reaches the end of the log, and that a projector which catches up late finds
\* the turns that its events left: both are hypotheses, because the code does without either.
THEOREM TablesAreReplayHolds ==
    ASSUME CatchesUp, ReadsAlike
    PROVE  Spec => []TablesAreReplay
<1>1. ReplayedInv => TablesAreReplay
  BY ReplayedMeansReplay
<1> QED
  BY <1>1, ReplayedInvariance, PTL

(***************************************************************************)
(* The messages that turns point to                                        *)
(***************************************************************************)

\* The messages that turns wait for are among ids.
PointsTo(turns, ids) ==
    \A turn \in turns : turn.pendingMessageId = Null \/ turn.pendingMessageId \in ids

\* What the table of the messages of a thread is after an event.
LEMMA UpsertByIdFacts ==
    ASSUME NEW rows, IsSeq(rows), NEW entry
    PROVE  /\ IsSeq(UpsertById(rows, entry))
           /\ Ids(rows) \subseteq Ids(UpsertById(rows, entry))
           /\ entry.id \in Ids(UpsertById(rows, entry))
<1> DEFINE new == UpsertById(rows, entry)
<1>1. DOMAIN rows = 1..Len(rows) /\ Len(rows) \in Nat
  BY SeqDomain
<1>2. CASE entry.id \in Ids(rows)
  <2>1. new = [i \in DOMAIN rows |-> IF rows[i].id = entry.id THEN entry ELSE rows[i]]
    BY <1>2 DEF UpsertById
  <2>2. DOMAIN new = DOMAIN rows /\ \A i \in DOMAIN rows : new[i].id = rows[i].id
    BY <2>1
  <2>3. IsSeq(new)
    <3>1. PICK S : rows \in Seq(S)
      BY DEF IsSeq
    <3>2. \A i \in 1..Len(rows) : rows[i] \in S
      BY <3>1
    <3>3. \A i \in 1..Len(rows) : (IF rows[i].id = entry.id THEN entry ELSE rows[i]) \in S \cup {entry}
      BY <3>2
    <3>4. new \in [1..Len(rows) -> S \cup {entry}]
      BY <1>1, <2>1, <3>3
    <3>5. new \in Seq(S \cup {entry})
      BY <1>1, <3>4
    <3> QED
      BY <3>5 DEF IsSeq
  <2> HIDE DEF new
  <2>4. Ids(new) = Ids(rows)
    BY <2>2 DEF Ids
  <2> QED
    BY <1>2, <2>3, <2>4 DEF new
<1>3. CASE entry.id \notin Ids(rows)
  <2>1. new = Append(rows, entry)
    BY <1>3 DEF UpsertById
  <2>2. /\ IsSeq(new) /\ Len(new) = Len(rows) + 1
        /\ \A i \in 1..Len(rows) : new[i] = rows[i]
        /\ new[Len(rows) + 1] = entry
    BY <2>1, AppendFacts
  <2> HIDE DEF new
  <2>3. DOMAIN new = 1..(Len(rows) + 1)
    BY <2>2, SeqDomain
  <2>4. \A i \in DOMAIN rows : i \in DOMAIN new /\ new[i].id = rows[i].id
    BY <1>1, <2>2, <2>3
  <2>5. Len(rows) + 1 \in DOMAIN new
    BY <1>1, <2>3
  <2>6. Ids(rows) \subseteq Ids(new) /\ entry.id \in Ids(new)
    BY <2>2, <2>4, <2>5 DEF Ids
  <2> QED
    BY <2>2, <2>6 DEF new
<1> QED
  BY <1>2, <1>3

\* A filter has the entries it selects.
LEMMA FilterFacts ==
    ASSUME NEW rows, IsSeq(rows), NEW K, K \subseteq DOMAIN rows
    PROVE  /\ IsSeq(Entries(rows, K))
           /\ \A i \in DOMAIN Entries(rows, K) : \E j \in K : Entries(rows, K)[i] = rows[j]
           /\ \A j \in K : \E i \in DOMAIN Entries(rows, K) : Entries(rows, K)[i] = rows[j]
<1>1. PICK S : rows \in Seq(S)
  BY DEF IsSeq
<1> QED
  BY <1>1, EntriesAreOld DEF IsSeq

\* A revert retains the messages that it starts from.
LEMMA RetainFacts ==
    ASSUME NEW rows, IsSeq(rows), NEW startIds, NEW turnIds, NEW count
    PROVE  /\ IsSeq(RetainMessages(rows, startIds, turnIds, count))
           /\ \A id \in startIds : id \in Ids(rows) => id \in Ids(RetainMessages(rows, startIds, turnIds, count))
<1> DEFINE byTurn == startIds \cup
                  {rows[i].id : i \in {j \in DOMAIN rows :
                      \/ rows[j].role = "system"
                      \/ rows[j].turnId # Null /\ rows[j].turnId \in turnIds}}
           retained == byTurn \cup FallbackIds(rows, "user", byTurn, turnIds, count)
                         \cup FallbackIds(rows, "assistant", byTurn, turnIds, count)
           K == {i \in DOMAIN rows : rows[i].id \in retained}
           new == RetainMessages(rows, startIds, turnIds, count)
<1>1. new = Entries(rows, K)
  BY DEF RetainMessages, Filter
<1>2. startIds \subseteq retained
  OBVIOUS
<1> HIDE DEF retained, new
<1>3. K \subseteq DOMAIN rows
  OBVIOUS
<1>4. \A i \in DOMAIN rows : rows[i].id \in startIds => i \in K
  BY <1>2
<1> HIDE DEF K
<1>5. IsSeq(new) /\ \A j \in K : \E i \in DOMAIN new : new[i] = rows[j]
  BY <1>1, <1>3, FilterFacts
<1>6. ASSUME NEW id \in startIds, id \in Ids(rows) PROVE id \in Ids(new)
  <2>1. PICK j \in DOMAIN rows : rows[j].id = id
    BY <1>6 DEF Ids
  <2>2. PICK i \in DOMAIN new : new[i] = rows[j]
    BY <1>4, <1>5, <1>6, <2>1
  <2> QED
    BY <2>1, <2>2 DEF Ids
<1> QED
  BY <1>5, <1>6 DEF new

\* An event adds messages; a revert keeps those that kept turns point to.
LEMMA MessagesAfterFacts ==
    ASSUME NEW rows, IsSeq(rows), NEW turns, NEW e
    PROVE  LET new == MessagesAfter(rows, turns, e)
           IN  /\ IsSeq(new)
               /\ e.type # "thread.reverted" => Ids(rows) \subseteq Ids(new)
               /\ e.type = "thread.message-sent" => e.messageId \in Ids(new)
               /\ e.type = "thread.reverted" =>
                     \A turn \in KeptTurns(turns, e.turnCount) :
                        turn.pendingMessageId \in Ids(rows) => turn.pendingMessageId \in Ids(new)
<1> DEFINE new == MessagesAfter(rows, turns, e)
<1>1. CASE e.type = "thread.message-sent"
  <2> DEFINE row == MessageRow(rows, e)
  <2>1. new = UpsertById(rows, row)
    BY <1>1 DEF MessagesAfter
  <2>2. row.id = e.messageId
    BY DEF MessageRow
  <2> HIDE DEF row, new
  <2>3. IsSeq(new) /\ Ids(rows) \subseteq Ids(new) /\ e.messageId \in Ids(new)
    BY <2>1, <2>2, UpsertByIdFacts
  <2> QED
    BY <1>1, <2>3 DEF new
<1>2. CASE e.type = "thread.reverted"
  <2> DEFINE kept == KeptTurns(turns, e.turnCount)
             pointedTo == {turn.pendingMessageId : turn \in kept}
                            \cup {turn.assistantMessageId : turn \in kept}
             turnIds == RetainedTurnIds(turns, e.turnCount)
  <2>1. new = RetainMessages(rows, pointedTo, turnIds, e.turnCount)
    BY <1>2 DEF MessagesAfter, retainProjectionMessagesAfterRevert
  <2>2. \A turn \in kept : turn.pendingMessageId \in pointedTo
    OBVIOUS
  <2> HIDE DEF new, pointedTo, kept, turnIds
  <2>3. IsSeq(new) /\ \A id \in pointedTo : id \in Ids(rows) => id \in Ids(new)
    BY <2>1, RetainFacts
  <2>4. \A turn \in kept : turn.pendingMessageId \in Ids(rows) => turn.pendingMessageId \in Ids(new)
    BY <2>2, <2>3
  <2> QED
    BY <1>2, <2>3, <2>4 DEF new, kept
<1>3. CASE e.type \notin {"thread.message-sent", "thread.reverted"}
  BY <1>3 DEF MessagesAfter
<1> QED
  BY <1>1, <1>2, <1>3

\* So does the row that a projector looks up.
LEMMA RowPoints ==
    ASSUME NEW turns, TurnsOK(turns), NEW ids, PointsTo(turns, ids), NEW id, id # Null
    PROVE  LET row == TurnRow(turns, id)
           IN  TurnOK(row) /\ (row.pendingMessageId = Null \/ row.pendingMessageId \in ids)
<1> DEFINE existing == {turn \in turns : turn.turnId = id}
           row == TurnRow(turns, id)
<1>1. TurnOK(row)
  BY TurnRowFacts
<1>2. CASE existing = {}
  BY <1>1, <1>2 DEF TurnRow, NewTurn
<1>3. CASE existing # {}
  <2>1. row = CHOOSE turn \in existing : TRUE
    BY <1>3 DEF TurnRow
  <2> HIDE DEF row
  <2>2. row \in turns
    BY <1>3, <2>1
  <2> QED
    BY <1>1, <2>2 DEF row, PointsTo
<1> QED
  BY <1>2, <1>3

\* A row among the others.
LEMMA PointsUpsert ==
    ASSUME NEW turns, NEW ids, PointsTo(turns, ids), NEW row,
           row.pendingMessageId = Null \/ row.pendingMessageId \in ids
    PROVE  PointsTo(upsertByTurnId(turns, row), ids)
BY DEF PointsTo, upsertByTurnId

\* No event makes a turn point to a message that is not there,
LEMMA PointsStep ==
    ASSUME NEW turns, TurnsOK(turns), NEW ids, PointsTo(turns, ids), NEW e, EventOK(e),
           e.type = "thread.turn-start-requested" => e.messageId \in ids,
           e.type # "thread.reverted"
    PROVE  PointsTo(TurnsAfter(turns, e), ids)
<1> DEFINE new == TurnsAfter(turns, e)
<1>1. \/ e.type = "thread.turn-start-requested" /\ new = replacePendingTurnStart(turns, e)
      \/ e.session.activeTurnId # Null /\ new = TurnRuns(turns, e.session.activeTurnId)
      \/ e.turnId # Null /\ new = AssistantMessageSent(turns, e)
      \/ e.turnId # Null /\ new = TurnInterrupted(turns, e)
      \/ e.turnId # Null /\ new = TurnDiffCompleted(turns, e)
      \/ new = turns
  BY DEF TurnsAfter, EventOK
<1> HIDE DEF new
<1>2. CASE e.type = "thread.turn-start-requested" /\ new = replacePendingTurnStart(turns, e)
  <2> DEFINE row == [NewTurn(Null) EXCEPT !.state = "pending", !.pendingMessageId = e.messageId]
  <2>1. row.pendingMessageId = e.messageId
    BY DEF NewTurn
  <2>2. new \subseteq turns \cup {row}
    BY <1>2 DEF replacePendingTurnStart
  <2> HIDE DEF row
  <2>3. PointsTo(new, ids)
    BY <1>2, <2>1, <2>2 DEF PointsTo
  <2> QED
    BY <2>3 DEF new
<1>3. CASE e.session.activeTurnId # Null /\ new = TurnRuns(turns, e.session.activeTurnId)
  <2> DEFINE id == e.session.activeTurnId
             pending == {turn \in turns : IsPendingTurnStart(turn)}
             messageId == IF pending = {} THEN Null ELSE (CHOOSE turn \in pending : TRUE).pendingMessageId
             row == TurnRow(turns, id)
             row2 == [row EXCEPT !.state = RunningState(@),
                                 !.pendingMessageId = IF @ # Null THEN @ ELSE messageId]
  <2>1. new = upsertByTurnId(turns \ pending, row2)
    BY <1>3 DEF TurnRuns
  <2>2. TurnOK(row) /\ (row.pendingMessageId = Null \/ row.pendingMessageId \in ids)
    BY <1>3, RowPoints
  <2>4. PointsTo(turns \ pending, ids)
    BY DEF PointsTo
  <2>3. messageId = Null \/ messageId \in ids
    <3>1. CASE pending = {}
      BY <3>1
    <3>2. CASE pending # {}
      <4> DEFINE some == CHOOSE turn \in pending : TRUE
      <4>1. some \in pending
        BY <3>2
      <4>2. some \in turns
        BY <4>1
      <4>3. messageId = some.pendingMessageId
        BY <3>2
      <4> HIDE DEF some, messageId
      <4> QED
        BY <4>2, <4>3 DEF PointsTo
    <3> QED
      BY <3>1, <3>2
  <2> HIDE DEF row, messageId, pending
  <2>5. row2.pendingMessageId = IF row.pendingMessageId # Null THEN row.pendingMessageId ELSE messageId
    BY <2>2 DEF TurnOK, TurnFields
  <2> HIDE DEF row2
  <2>6. PointsTo(new, ids)
    BY <2>1, <2>2, <2>3, <2>4, <2>5, PointsUpsert
  <2> QED
    BY <2>6 DEF new
<1>4. CASE e.turnId # Null /\ new = AssistantMessageSent(turns, e)
  <2> DEFINE row == TurnRow(turns, e.turnId)
             row2 == [row EXCEPT !.assistantMessageId = e.messageId,
                                 !.state = IF e.streaming \/ @ \in {"interrupted", "error"} THEN @
                                           ELSE "completed"]
  <2>1. new = upsertByTurnId(turns, row2)
    BY <1>4 DEF AssistantMessageSent
  <2>2. TurnOK(row) /\ (row.pendingMessageId = Null \/ row.pendingMessageId \in ids)
    BY <1>4, RowPoints
  <2> HIDE DEF row
  <2>3. row2.pendingMessageId = row.pendingMessageId
    BY <2>2 DEF TurnOK, TurnFields
  <2> HIDE DEF row2
  <2>5. PointsTo(new, ids)
    BY <2>1, <2>2, <2>3, PointsUpsert
  <2> QED
    BY <2>5 DEF new
<1>5. CASE e.turnId # Null /\ new = TurnInterrupted(turns, e)
  <2> DEFINE row == TurnRow(turns, e.turnId)
             row2 == [row EXCEPT !.state = "interrupted"]
  <2>1. new = upsertByTurnId(turns, row2)
    BY <1>5 DEF TurnInterrupted
  <2>2. TurnOK(row) /\ (row.pendingMessageId = Null \/ row.pendingMessageId \in ids)
    BY <1>5, RowPoints
  <2> HIDE DEF row
  <2>3. row2.pendingMessageId = row.pendingMessageId
    BY <2>2 DEF TurnOK, TurnFields
  <2> HIDE DEF row2
  <2>5. PointsTo(new, ids)
    BY <2>1, <2>2, <2>3, PointsUpsert
  <2> QED
    BY <2>5 DEF new
<1>6. CASE e.turnId # Null /\ new = TurnDiffCompleted(turns, e)
  <2> DEFINE row == TurnRow(turns, e.turnId)
             mid == clearCheckpointTurnConflict(turns, e)
             row2 == [row EXCEPT !.assistantMessageId  = e.assistantMessageId,
                          !.state               = IF e.status = "error" THEN "error"
                                                  ELSE "completed",
                          !.checkpointTurnCount = e.checkpointTurnCount,
                          !.checkpointStatus    = e.status,
                          !.checkpointRef       = e.checkpointRef]
  <2>1. new = upsertByTurnId(mid, row2)
    BY <1>6 DEF TurnDiffCompleted
  <2>2. TurnOK(row) /\ (row.pendingMessageId = Null \/ row.pendingMessageId \in ids)
    BY <1>6, RowPoints
  <2> HIDE DEF row
  <2>3. row2.pendingMessageId = row.pendingMessageId
    BY <2>2 DEF TurnOK, TurnFields
  <2>4. \A after \in mid : \E turn \in turns : after.pendingMessageId = turn.pendingMessageId
    BY ClearConflictOK
  <2> HIDE DEF row2, mid
  <2>5. PointsTo(mid, ids)
    BY <2>4 DEF PointsTo
  <2>6. PointsTo(new, ids)
    BY <2>1, <2>2, <2>3, <2>5, PointsUpsert
  <2> QED
    BY <2>6 DEF new
<1>7. CASE new = turns
  BY <1>7 DEF new
<1> QED
  BY <1>1, <1>2, <1>3, <1>4, <1>5, <1>6, <1>7

\* not even a revert, which removes messages.
LEMMA PointsReverted ==
    ASSUME NEW turns, NEW ids, NEW new, PointsTo(turns, ids), NEW e, e.type = "thread.reverted",
           \A turn \in KeptTurns(turns, e.turnCount) :
              turn.pendingMessageId \in ids => turn.pendingMessageId \in new
    PROVE  PointsTo(TurnsAfter(turns, e), new)
<1>1. TurnsAfter(turns, e) = KeptTurns(turns, e.turnCount)
  BY DEF TurnsAfter, TurnsReverted
<1>2. KeptTurns(turns, e.turnCount) \subseteq turns
  BY DEF KeptTurns
<1> QED
  BY <1>1, <1>2 DEF PointsTo

-----------------------------------------------------------------------------
\* The messages of a thread.
IdsOf(tabs, t) == Ids(RowsOf(tabs.threadMessages, t))

\* Every turn of every thread points to one of its messages.
PointsOK(tabs) ==
    /\ \A t \in DOMAIN tabs.threadMessages : IsSeq(tabs.threadMessages[t])
    /\ \A t : PointsTo(TurnsOf(tabs, t), IdsOf(tabs, t))

\* One event through all projectors.
LEMMA PointsAfter ==
    ASSUME NEW tabs, TablesOK(tabs), PointsOK(tabs), NEW e, EventOK(e),
           e.type = "thread.turn-start-requested" => e.messageId \in IdsOf(tabs, e.threadId)
    PROVE  LET new == After(tabs, ProjectorNames, e)
           IN  /\ PointsOK(new)
               /\ e.type = "thread.message-sent" => e.messageId \in IdsOf(new, e.threadId)
<1> DEFINE new == After(tabs, ProjectorNames, e)
           t == e.threadId
           rows == RowsOf(tabs.threadMessages, t)
           turns == TurnsOf(tabs, t)
           rows2 == MessagesAfter(rows, turns, e)
           turns2 == TurnsAfter(turns, e)
<1>0. IsTables(tabs)
  BY DEF TablesOK
<1>1. new.threadMessages = apply("threadMessages", tabs, e).threadMessages
      /\ new.threadTurns = apply("threadTurns", tabs, e).threadTurns
  BY NamesFacts DEF After
<1>2. CASE ~OfThread(e)
  <2>1. new.threadMessages = tabs.threadMessages /\ new.threadTurns = tabs.threadTurns
    BY <1>0, <1>1, <1>2, NamesFacts, ApplyTable
  <2>2. e.type # "thread.message-sent"
    BY <1>2 DEF EventOK, ProjectEventTypes
  <2> HIDE DEF new
  <2>3. PointsOK(new)
    BY <2>1 DEF PointsOK, IdsOf, TurnsOf
  <2> QED
    BY <2>2, <2>3 DEF new
<1>3. CASE OfThread(e)
  <2>1. new.threadMessages = Put(tabs.threadMessages, t, rows2)
        /\ new.threadTurns = Put(tabs.threadTurns, t, turns2)
    BY <1>0, <1>1, <1>3, ApplyTable
  <2> HIDE DEF new
  <2>2. IsSeq(rows)
    BY NilFacts DEF PointsOK, RowsOf
  <2>3. TurnsOK(turns)
    <3>1. TurnsOK({})
      BY DEF TurnsOK
    <3> QED
      BY <3>1 DEF TablesOK, TurnsOf
  <2>4. PointsTo(turns, Ids(rows))
    BY DEF PointsOK, IdsOf
  <2>5. e.type = "thread.turn-start-requested" => e.messageId \in Ids(rows)
    BY DEF IdsOf
  <2> HIDE DEF rows, turns
  <2>6. /\ IsSeq(rows2)
        /\ e.type # "thread.reverted" => Ids(rows) \subseteq Ids(rows2)
        /\ e.type = "thread.message-sent" => e.messageId \in Ids(rows2)
        /\ e.type = "thread.reverted" =>
              \A turn \in KeptTurns(turns, e.turnCount) :
                 turn.pendingMessageId \in Ids(rows) => turn.pendingMessageId \in Ids(rows2)
    BY <2>2, MessagesAfterFacts
  <2> HIDE DEF rows2
  <2>7. PointsTo(turns2, Ids(rows2))
    <3>1. CASE e.type = "thread.reverted"
      BY <2>4, <2>6, <3>1, PointsReverted
    <3>2. CASE e.type # "thread.reverted"
      <4>1. PointsTo(turns2, Ids(rows))
        BY <2>3, <2>4, <2>5, <3>2, PointsStep
      <4> HIDE DEF turns2
      <4> QED
        BY <2>6, <3>2, <4>1 DEF PointsTo
    <3> QED
      BY <3>1, <3>2
  <2> HIDE DEF turns2
  <2>8. \A x : IdsOf(new, x) = IF x = t THEN Ids(rows2) ELSE IdsOf(tabs, x)
    BY <2>1 DEF IdsOf, RowsOf, Put
  <2>9. \A x : TurnsOf(new, x) = IF x = t THEN turns2 ELSE TurnsOf(tabs, x)
    BY <2>1 DEF TurnsOf, Put
  <2>10. \A x \in DOMAIN new.threadMessages : IsSeq(new.threadMessages[x])
    BY <2>1, <2>6 DEF Put, PointsOK
  <2>11. ASSUME NEW x PROVE PointsTo(TurnsOf(new, x), IdsOf(new, x))
    <3>1. PointsTo(TurnsOf(tabs, x), IdsOf(tabs, x))
      BY DEF PointsOK
    <3> QED
      BY <2>7, <2>8, <2>9, <3>1
  <2>12. PointsOK(new)
    BY <2>10, <2>11 DEF PointsOK
  <2> QED
    BY <2>6, <2>8, <2>12 DEF new
<1> QED
  BY <1>2, <1>3

\* The events of a command: a turn start comes after its message.
LEMMA PointsTwice ==
    ASSUME NEW tabs, TablesOK(tabs), PointsOK(tabs), NEW n, NEW c, NEW ev, EventsOK(ev, c, n)
    PROVE  PointsOK(Twice(tabs, ProjectorNames, ev))
<1> DEFINE one == After(tabs, ProjectorNames, ev[1])
           two == After(one, ProjectorNames, ev[2])
<1>1. /\ Len(ev) = 1 \/ Len(ev) = 2
      /\ EventOK(ev[1]) /\ (Len(ev) = 2 => EventOK(ev[2]))
      /\ ev[1].type # "thread.turn-start-requested"
  BY DEF EventsOK
<1>2. TablesOK(one)
  BY <1>1, AfterSteps, SteppedOK
<1>3. PointsOK(one) /\ (ev[1].type = "thread.message-sent" => ev[1].messageId \in IdsOf(one, ev[1].threadId))
  BY <1>1, PointsAfter
<1>4. CASE Len(ev) = 1
  BY <1>3, <1>4 DEF Twice
<1>5. CASE Len(ev) = 2
  <2> HIDE DEF one
  <2>1. /\ ev[1].type = "thread.message-sent" /\ ev[2].type = "thread.turn-start-requested"
        /\ ev[1].messageId = c.messageId /\ ev[2].messageId = c.messageId
    BY <1>5 DEF EventsOK
  <2>2. ev[1].threadId = c.threadId /\ ev[2].threadId = c.threadId
    <3>1. OfThread(ev[1]) /\ OfThread(ev[2])
      BY <1>1, <1>5, <2>1 DEF EventOK, ProjectEventTypes
    <3> QED
      BY <1>5, <3>1 DEF EventsOK
  <2>3. PointsOK(two)
    BY <1>1, <1>2, <1>3, <1>5, <2>1, <2>2, PointsAfter
  <2> QED
    BY <1>5, <2>3 DEF Twice, one
<1> QED
  BY <1>1, <1>4, <1>5

\* The invariant, of the tables of a replay.
PointsInv == PointsOK(replayed.tables)

\* It holds in the beginning.
LEMMA InitPoints == Init => PointsInv
<1> SUFFICES ASSUME Init PROVE PointsOK(EmptyTables)
  BY DEF PointsInv, Init, NothingProjected
<1>1. DOMAIN EmptyTables.threadTurns = {} /\ DOMAIN EmptyTables.threadMessages = {}
  BY EmptyFacts
<1>2. \A t : TurnsOf(EmptyTables, t) = {}
  BY <1>1 DEF TurnsOf
<1> HIDE DEF EmptyTables
<1> QED
  BY <1>1, <1>2 DEF PointsOK, PointsTo

\* Every step keeps it.
LEMMA PointsInvStep == BaseInv /\ PointsInv /\ [Next]_vars => PointsInv'
<1> SUFFICES ASSUME BaseInv, PointsInv, [Next]_vars PROVE PointsInv'
  OBVIOUS
<1>1. TablesOK(replayed.tables)
  BY DEF BaseInv, TableInv
<1>2. CASE replayed' = replayed
  BY <1>2 DEF PointsInv, PointsOK, IdsOf, TurnsOf, PointsTo
<1>3. ASSUME NEW c \in Commands(Len(log)), dispatch(c) PROVE PointsInv'
  <2> DEFINE ev == EventsOf(c)
  <2>1. Dispatched(c, ev)
    BY <1>3, DispatchFacts
  <2> HIDE DEF ev
  <2>2. EventsOK(ev, c, Len(log)) /\ replayed'.tables = Twice(replayed.tables, ProjectorNames, ev)
    BY <2>1 DEF Dispatched
  <2>3. PointsOK(replayed'.tables)
    BY <1>1, <2>2, PointsTwice DEF PointsInv
  <2> QED
    BY <2>3 DEF PointsInv, PointsOK, IdsOf, TurnsOf, PointsTo
<1> QED
  BY <1>2, <1>3, DatabaseChanges

\* The tables of a server that runs are those of a replay.
LEMMA PointsMeanExist ==
    ASSUME PointsInv, TablesAreReplay PROVE PendingMessagesExist
<1> SUFFICES ASSUME UpToDate, NEW t \in DOMAIN tables.threadTurns, NEW turn \in tables.threadTurns[t],
                    turn.pendingMessageId # Null
             PROVE  turn.pendingMessageId \in Ids(RowsOf(tables.threadMessages, t))
  BY DEF PendingMessagesExist
<1>1. tables = replayed.tables
  BY DEF TablesAreReplay
<1>2. PointsTo(TurnsOf(tables, t), IdsOf(tables, t))
  BY <1>1 DEF PointsInv, PointsOK
<1> QED
  BY <1>2 DEF PointsTo, TurnsOf, IdsOf

\* retainProjectionMessagesAfterRevert, TurnsAfter: whenever the server runs, the message that started a
\* turn is in its thread, whatever was reverted, under the hypotheses of TablesAreReplayHolds.
THEOREM PendingMessagesExistHolds ==
    ASSUME CatchesUp, ReadsAlike
    PROVE  Spec => []PendingMessagesExist
<1>1. Init => BaseInv /\ PointsInv
  BY InitBase, InitPoints
<1>2. BaseInv /\ PointsInv /\ [Next]_vars => (BaseInv /\ PointsInv)'
  BY BaseStep, PointsInvStep
<1>3. PointsInv /\ TablesAreReplay => PendingMessagesExist
  BY PointsMeanExist
<1> QED
  BY <1>1, <1>2, <1>3, TablesAreReplayHolds, PTL DEF Spec

(***************************************************************************)
(* An event in the read model                                              *)
(***************************************************************************)

\* Read models are records of these fields.
IsModel(m) == m = [snapshotSequence |-> m.snapshotSequence, projects |-> m.projects, threads |-> m.threads]

\* The threads of a model after an event.
ThreadsOfModelAfter(threads, e) ==
    IF e.type = "thread.created" THEN Put(threads, e.threadId, NewThread(e))
    ELSE IF OfThread(e) /\ e.threadId \in DOMAIN threads
      THEN [threads EXCEPT ![e.threadId] = Patch(@, ThreadPatch(@, e))]
    ELSE threads

\* projectEvent changes the projects as the SQL projector does, and the threads like that.
LEMMA ProjectEventEffects ==
    ASSUME NEW m, IsModel(m), NEW e, EventOK(e)
    PROVE  LET new == projectEvent(m, e)
           IN  /\ IsModel(new)
               /\ new.projects = ProjectsAfter(m.projects, e)
               /\ new.threads = ThreadsOfModelAfter(m.threads, e)
<1> DEFINE base == [m EXCEPT !.snapshotSequence = e.sequence]
           new == projectEvent(m, e)
           M(p, t) == [snapshotSequence |-> e.sequence, projects |-> p, threads |-> t]
<1>1. base = M(m.projects, m.threads)
  BY DEF IsModel
<1>2. \A p, t : /\ IsModel(M(p, t)) /\ M(p, t).projects = p /\ M(p, t).threads = t
                /\ \A x : [M(p, t) EXCEPT !.projects = x] = M(x, t)
                /\ \A x : [M(p, t) EXCEPT !.threads = x] = M(p, x)
  BY DEF IsModel
<1>3. OfThread(e) <=> e.type \notin ProjectEventTypes
  BY DEF EventOK
<1> HIDE DEF M, base
<1>4. base.projects = m.projects /\ base.threads = m.threads
  BY <1>1, <1>2
<1>5. CASE e.type = "project.created"
  <2>1. new = [base EXCEPT !.projects = Put(base.projects, e.projectId, [meta |-> e.meta, deleted |-> FALSE])]
    BY <1>5 DEF projectEvent, base
  <2>2. new = M(ProjectsAfter(m.projects, e), m.threads)
    BY <1>1, <1>2, <1>4, <1>5, <2>1 DEF ProjectsAfter
  <2>3. ThreadsOfModelAfter(m.threads, e) = m.threads
    BY <1>3, <1>5 DEF ThreadsOfModelAfter, ProjectEventTypes
  <2> QED
    BY <1>2, <2>2, <2>3
<1>6. CASE e.type \in {"project.meta-updated", "project.deleted"}
  <2>1. CASE e.projectId \notin DOMAIN m.projects
    <3>1. new = base
      BY <1>6, <2>1 DEF projectEvent, base
    <3>2. ThreadsOfModelAfter(m.threads, e) = m.threads /\ ProjectsAfter(m.projects, e) = m.projects
      BY <1>3, <1>6, <2>1 DEF ThreadsOfModelAfter, ProjectEventTypes, ProjectsAfter
    <3> QED
      BY <1>1, <1>2, <3>1, <3>2
  <2>2. CASE e.projectId \in DOMAIN m.projects
    <3>1. new = [base EXCEPT !.projects = ProjectsAfter(base.projects, e)]
      BY <1>4, <1>6, <2>2 DEF projectEvent, base, ProjectsAfter
    <3>2. ThreadsOfModelAfter(m.threads, e) = m.threads
      BY <1>3, <1>6 DEF ThreadsOfModelAfter, ProjectEventTypes
    <3> HIDE DEF new
    <3>3. new = M(ProjectsAfter(m.projects, e), m.threads)
      BY <1>1, <1>2, <1>4, <3>1
    <3> QED
      BY <1>2, <3>2, <3>3 DEF new
  <2> QED
    BY <2>1, <2>2
<1>7. CASE e.type \notin ProjectEventTypes
  <2>1. ProjectsAfter(m.projects, e) = m.projects
    BY <1>7 DEF ProjectsAfter, ProjectEventTypes
  <2>2. new = [base EXCEPT !.threads = ThreadsOfModelAfter(base.threads, e)]
    <3>1. CASE e.type = "thread.created"
      BY <1>7, <3>1 DEF projectEvent, base, ThreadsOfModelAfter
    <3>2. CASE e.type # "thread.created"
      <4>1. new = updateThread(base, e)
        BY <1>7, <3>2 DEF projectEvent, base, ProjectEventTypes
      <4>2. CASE e.threadId \in DOMAIN base.threads
        <5> DEFINE x == Patch(base.threads[e.threadId], ThreadPatch(base.threads[e.threadId], e))
        <5>1. new = [base EXCEPT !.threads[e.threadId] = x]
          BY <4>1, <4>2 DEF updateThread
        <5>2. ThreadsOfModelAfter(base.threads, e) = [base.threads EXCEPT ![e.threadId] = x]
          BY <1>3, <1>7, <3>2, <4>2 DEF ThreadsOfModelAfter
        <5> HIDE DEF x, new
        <5> QED
          BY <1>1, <5>1, <5>2
      <4>3. CASE e.threadId \notin DOMAIN base.threads
        <5>1. new = base /\ ThreadsOfModelAfter(base.threads, e) = base.threads
          BY <3>2, <4>1, <4>3 DEF updateThread, ThreadsOfModelAfter
        <5> HIDE DEF new
        <5>2. base = [base EXCEPT !.threads = base.threads]
          BY <1>1, <1>2
        <5> QED
          BY <5>1, <5>2
      <4> QED
        BY <4>2, <4>3
    <3> QED
      BY <3>1, <3>2
  <2> HIDE DEF new
  <2>3. new = M(m.projects, ThreadsOfModelAfter(m.threads, e))
    BY <1>1, <1>2, <1>4, <2>2
  <2> QED
    BY <1>2, <2>1, <2>3 DEF new
<1> QED
  BY <1>5, <1>6, <1>7 DEF ProjectEventTypes

(***************************************************************************)
(* An event in the tables of a thread                                      *)
(***************************************************************************)

\* The event e is one of the thread t.
AtThread(e, t) == OfThread(e) /\ t = e.threadId

\* The session that a snapshot gives to a thread, and that after an event.
SessionOf(tabs, t) == IF t \in DOMAIN tabs.threadSessions THEN tabs.threadSessions[t] ELSE Null

\* An event of a session replaces it.
SessionAfter(session, e) == IF e.type = "thread.session-set" THEN e.session ELSE session

\* An event goes to the rows of its thread only.
LEMMA TableEffects ==
    ASSUME NEW tabs, IsTables(tabs), NEW e
    PROVE  LET new == After(tabs, ProjectorNames, e)
           IN  /\ new.projects = ProjectsAfter(tabs.projects, e)
               /\ new.threads = IF OfThread(e) THEN ThreadsAfter(tabs.threads, e) ELSE tabs.threads
               /\ \A t : RowsOf(new.threadMessages, t) =
                           IF AtThread(e, t)
                             THEN MessagesAfter(RowsOf(tabs.threadMessages, t), TurnsOf(tabs, t), e)
                           ELSE RowsOf(tabs.threadMessages, t)
               /\ \A t : RowsOf(new.threadProposedPlans, t) =
                           IF AtThread(e, t)
                             THEN PlansAfter(RowsOf(tabs.threadProposedPlans, t), TurnsOf(tabs, t), e)
                           ELSE RowsOf(tabs.threadProposedPlans, t)
               /\ \A t : RowsOf(new.threadActivities, t) =
                           IF AtThread(e, t)
                             THEN ActivitiesAfter(RowsOf(tabs.threadActivities, t), TurnsOf(tabs, t), e)
                           ELSE RowsOf(tabs.threadActivities, t)
               /\ \A t : SessionOf(new, t) = IF AtThread(e, t) THEN SessionAfter(SessionOf(tabs, t), e)
                                             ELSE SessionOf(tabs, t)
<1> DEFINE new == After(tabs, ProjectorNames, e)
           u == e.threadId
           turns == TurnsOf(tabs, u)
           Whole(p) == apply(p, tabs, e)[p]
<1>0. {"projects", "threads", "threadMessages", "threadProposedPlans", "threadActivities",
       "threadSessions"} \subseteq TableNames \cap ProjectorNames
  BY NamesFacts
<1>1. \A p \in TableNames \cap ProjectorNames : new[p] = apply(p, tabs, e)[p]
  BY DEF After
<1>2. tabs = [q \in TableNames |-> tabs[q]]
  BY DEF IsTables
<1>3. new.projects = ProjectsAfter(tabs.projects, e)
  BY <1>0, <1>1, ApplyTable
<1> HIDE DEF new
<1>4. CASE ~OfThread(e)
  <2>1. \A p \in TableNames \cap ProjectorNames : p # "projects" => new[p] = tabs[p]
    BY <1>1, <1>4, ApplyTable
  <2>2. /\ new.threads = tabs.threads /\ new.threadMessages = tabs.threadMessages
        /\ new.threadProposedPlans = tabs.threadProposedPlans
        /\ new.threadActivities = tabs.threadActivities
        /\ new.threadSessions = tabs.threadSessions
    BY <1>0, <2>1
  <2>3. \A t : SessionOf(new, t) = SessionOf(tabs, t)
    BY <2>2 DEF SessionOf
  <2> QED
    BY <1>3, <1>4, <2>2, <2>3 DEF AtThread, new
<1>5. CASE OfThread(e)
  <2>1. \A q \in TableNames : q # "projects" => apply(q, tabs, e) = ApplyToThread(q, tabs, e)
    BY <1>5 DEF apply
  <2>2. new.threads = ThreadsAfter(tabs.threads, e)
        /\ new.threadMessages = Put(tabs.threadMessages, u,
               MessagesAfter(RowsOf(tabs.threadMessages, u), turns, e))
    BY <1>0, <1>1, <1>5, ApplyTable
  <2>3. new.threadProposedPlans = Put(tabs.threadProposedPlans, u,
               PlansAfter(RowsOf(tabs.threadProposedPlans, u), turns, e))
    BY <1>0, <1>1, <1>2, <2>1 DEF ApplyToThread
  <2>4. new.threadActivities = Put(tabs.threadActivities, u,
               ActivitiesAfter(RowsOf(tabs.threadActivities, u), turns, e))
    BY <1>0, <1>1, <1>2, <2>1 DEF ApplyToThread
  <2>5. new.threadSessions = IF e.type = "thread.session-set"
                               THEN Put(tabs.threadSessions, u, e.session)
                             ELSE tabs.threadSessions
    <3>1. new.threadSessions = ApplyToThread("threadSessions", tabs, e).threadSessions
      BY <1>0, <1>1, <2>1
    <3>2. CASE e.type = "thread.session-set"
      <4>1. ApplyToThread("threadSessions", tabs, e)
              = [tabs EXCEPT !.threadSessions = Put(tabs.threadSessions, u, e.session)]
        BY <3>2 DEF ApplyToThread
      <4> QED
        BY <1>0, <1>2, <3>1, <3>2, <4>1
    <3>3. CASE e.type # "thread.session-set"
      <4>1. ApplyToThread("threadSessions", tabs, e) = tabs
        BY <3>3 DEF ApplyToThread
      <4> QED
        BY <3>1, <3>3, <4>1
    <3> QED
      BY <3>2, <3>3
  <2> HIDE DEF u
  <2>6. \A f, x, y : RowsOf(Put(f, u, x), y) = IF y = u THEN x ELSE RowsOf(f, y)
    BY DEF RowsOf, Put
  <2>7. \A t : SessionOf(new, t) = IF t = u THEN SessionAfter(SessionOf(tabs, t), e)
                                   ELSE SessionOf(tabs, t)
    BY <2>5 DEF SessionOf, SessionAfter, Put
  <2>8. \A t : AtThread(e, t) <=> t = u
    BY <1>5 DEF AtThread, u
  <2> QED
    BY <1>3, <1>5, <2>2, <2>3, <2>4, <2>6, <2>7, <2>8 DEF new
<1> QED
  BY <1>4, <1>5

(***************************************************************************)
(* Messages and their rows                                                 *)
(***************************************************************************)

\* Sequences with the same entries are the same.
LEMMA SameSeq ==
    ASSUME NEW s, NEW t, IsSeq(s), IsSeq(t), Len(s) = Len(t), \A i \in 1..Len(s) : s[i] = t[i]
    PROVE  s = t
<1>1. PICK S : s \in Seq(S)
  BY DEF IsSeq
<1>2. PICK T : t \in Seq(T)
  BY DEF IsSeq
<1>3. s = [i \in 1..Len(s) |-> s[i]] /\ t = [i \in 1..Len(t) |-> t[i]]
  BY <1>1, <1>2
<1> QED
  BY <1>3

\* A function from an interval is a sequence.
LEMMA MapFacts ==
    ASSUME NEW n \in Nat, NEW s, s = [i \in 1..n |-> s[i]]
    PROVE  IsSeq(s) /\ Len(s) = n /\ DOMAIN s = 1..n
<1>1. s \in [1..n -> {s[i] : i \in 1..n}]
  OBVIOUS
<1>2. s \in Seq({s[i] : i \in 1..n}) /\ Len(s) = n
  BY <1>1
<1> QED
  BY <1>2 DEF IsSeq

\* The ids of the messages of users.
UserMessages ==
    UNION {{c.messageId : c \in {d \in Commands(n) : d.type = "thread.turn.start"}} : n \in 0..MaxEvents}

\* The role that goes with an id.
RoleOf(id) == IF id \in UserMessages THEN "user" ELSE "assistant"

\* What a snapshot shows of a row.
MessageOf(row) == [id |-> row.id, role |-> row.role, text |-> row.text, turnId |-> row.turnId,
                   streaming |-> row.streaming]

\* The rows of a thread show its messages.
SameMessages(rows, messages) ==
    /\ IsSeq(rows)
    /\ \A i, j \in DOMAIN rows : rows[i].id = rows[j].id => i = j
    /\ \A i \in DOMAIN rows : rows[i].role = RoleOf(rows[i].id)
    /\ messages = [i \in DOMAIN rows |-> MessageOf(rows[i])]

\* A message is merged alike, and appended alike.
LEMMA SentAlike ==
    ASSUME NEW rows, NEW messages, SameMessages(rows, messages), Len(rows) < MAX_THREAD_MESSAGES,
           NEW e, e.role = RoleOf(e.messageId)
    PROVE  LET new == UpsertById(rows, MessageRow(rows, e))
           IN  /\ SameMessages(new, MessagesAfterSent(messages, e))
               /\ Len(new) \in {Len(rows), Len(rows) + 1}
<1> DEFINE row == MessageRow(rows, e)
           new == UpsertById(rows, row)
           id == e.messageId
           sent == [id |-> e.messageId, role |-> e.role, text |-> e.text,
                    turnId |-> e.turnId, streaming |-> e.streaming]
           merge(m) == [m EXCEPT !.text = MergedText(@, e), !.streaming = e.streaming,
                                 !.turnId = e.turnId]
<1>1. IsSeq(rows) /\ DOMAIN rows = 1..Len(rows) /\ Len(rows) \in Nat
  BY SeqDomain DEF SameMessages
<1>2. /\ \A i, j \in DOMAIN rows : rows[i].id = rows[j].id => i = j
      /\ \A i \in DOMAIN rows : rows[i].role = RoleOf(rows[i].id)
      /\ messages = [i \in DOMAIN rows |-> MessageOf(rows[i])]
  BY DEF SameMessages
<1>3. DOMAIN messages = DOMAIN rows /\ \A i \in DOMAIN rows : messages[i] = MessageOf(rows[i])
  BY <1>2
<1>4. \A i \in DOMAIN rows : messages[i].id = rows[i].id
  BY <1>3 DEF MessageOf
<1>5. Ids(messages) = Ids(rows)
  BY <1>3, <1>4 DEF Ids
<1>6. row.id = id /\ row.role = RoleOf(id)
  BY DEF MessageRow
<1>7. IsSeq(messages) /\ Len(messages) = Len(rows)
  <2>1. messages = [i \in 1..Len(rows) |-> messages[i]]
    BY <1>1, <1>2
  <2> QED
    BY <1>1, <2>1, MapFacts
<1>8. CASE id \in Ids(rows)
  <2> DEFINE old == CHOOSE i \in DOMAIN rows : rows[i].id = id
  <2>1. old \in DOMAIN rows /\ rows[old].id = id
    BY <1>8 DEF Ids
  <2>2. MessageOf(row) = merge(MessageOf(rows[old]))
    <3>1. rows[old].role = RoleOf(id)
      BY <1>2, <2>1
    <3>2. row.text = MergedText(rows[old].text, e) /\ row.turnId = e.turnId /\ row.streaming = e.streaming
      BY <1>8 DEF MessageRow, RowText
    <3> HIDE DEF row, old
    <3>3. merge(MessageOf(rows[old]))
            = [id |-> rows[old].id, role |-> rows[old].role, text |-> MergedText(rows[old].text, e),
               turnId |-> e.turnId, streaming |-> e.streaming]
      <4> DEFINE Fields == {"id", "role", "text", "turnId", "streaming"}
                 m == MessageOf(rows[old])
                 new2 == merge(m)
                 r == [id |-> rows[old].id, role |-> rows[old].role, text |-> MergedText(rows[old].text, e),
                       turnId |-> e.turnId, streaming |-> e.streaming]
      <4>1. /\ m = [f \in Fields |-> m[f]]
            /\ m.id = rows[old].id /\ m.role = rows[old].role /\ m.text = rows[old].text
        BY DEF MessageOf
      <4>2. /\ r = [f \in Fields |-> r[f]]
            /\ r.id = rows[old].id /\ r.role = rows[old].role /\ r.text = MergedText(rows[old].text, e)
            /\ r.turnId = e.turnId /\ r.streaming = e.streaming
        OBVIOUS
      <4> HIDE DEF m
      <4>3. /\ new2 = [f \in Fields |-> new2[f]]
            /\ new2.id = m.id /\ new2.role = m.role /\ new2.text = MergedText(m.text, e)
            /\ new2.turnId = e.turnId /\ new2.streaming = e.streaming
        BY <4>1
      <4> HIDE DEF new2, r
      <4>4. \A f \in Fields : new2[f] = r[f]
        BY <4>1, <4>2, <4>3
      <4> HIDE DEF Fields
      <4>5. new2 = r
        BY <4>2, <4>3, <4>4
      <4> QED
        BY <4>5 DEF new2, r, m
    <3> HIDE DEF merge
    <3> QED
      BY <1>6, <2>1, <3>1, <3>2, <3>3 DEF MessageOf
  <2> HIDE DEF old
  <2>3. new = [i \in DOMAIN rows |-> IF rows[i].id = id THEN row ELSE rows[i]]
    BY <1>6, <1>8 DEF UpsertById
  <2> DEFINE merged == [i \in DOMAIN messages |->
                           IF messages[i].id = id THEN merge(messages[i]) ELSE messages[i]]
  <2>4. MessagesAfterSent(messages, e) = KeepLast(merged, MAX_THREAD_MESSAGES)
    BY <1>5, <1>8 DEF MessagesAfterSent
  <2> HIDE DEF row, new
  <2>5. DOMAIN new = DOMAIN rows /\ \A i \in DOMAIN rows : new[i] = IF i = old THEN row ELSE rows[i]
    BY <1>2, <2>1, <2>3
  <2>6. merged = [i \in DOMAIN new |-> MessageOf(new[i])]
    <3>1. \A i \in DOMAIN rows : (messages[i].id = id <=> i = old)
      BY <1>2, <1>4, <2>1
    <3>2. \A i \in DOMAIN rows : (IF messages[i].id = id THEN merge(messages[i]) ELSE messages[i])
                                   = MessageOf(new[i])
      BY <1>3, <2>1, <2>2, <2>5, <3>1
    <3> QED
      BY <1>3, <2>5, <3>2
  <2> HIDE DEF merge, merged
  <2>7. IsSeq(new) /\ Len(new) = Len(rows) /\ IsSeq(merged) /\ Len(merged) = Len(rows)
    <3>1. new = [i \in 1..Len(rows) |-> new[i]] /\ merged = [i \in 1..Len(rows) |-> merged[i]]
      BY <1>1, <2>3, <2>5, <2>6
    <3> QED
      BY <1>1, <3>1, MapFacts
  <2>8. KeepLast(merged, MAX_THREAD_MESSAGES) = merged
    BY <1>1, <2>7, CapsAssumption DEF KeepLast
  <2>9. \A i \in DOMAIN new : new[i].id = rows[i].id /\ new[i].role = RoleOf(new[i].id)
    BY <1>2, <1>6, <2>1, <2>5
  <2>10. SameMessages(new, merged)
    BY <1>2, <2>5, <2>6, <2>7, <2>9 DEF SameMessages
  <2> QED
    BY <2>4, <2>7, <2>8, <2>10 DEF new, row
<1>9. CASE id \notin Ids(rows)
  <2> DEFINE longer == Append(messages, sent)
  <2>1. new = Append(rows, row)
    BY <1>6, <1>9 DEF UpsertById
  <2>2. MessagesAfterSent(messages, e) = KeepLast(longer, MAX_THREAD_MESSAGES)
    BY <1>5, <1>9 DEF MessagesAfterSent
  <2>3. MessageOf(row) = sent
    BY <1>9 DEF MessageOf, MessageRow
  <2>4. \A i \in DOMAIN rows : rows[i].id # id
    BY <1>9 DEF Ids
  <2> HIDE DEF row, new, sent
  <2>5. /\ IsSeq(new) /\ Len(new) = Len(rows) + 1 /\ new[Len(rows) + 1] = row
        /\ \A i \in 1..Len(rows) : new[i] = rows[i]
    BY <1>1, <2>1, AppendFacts
  <2>6. /\ IsSeq(longer) /\ Len(longer) = Len(rows) + 1 /\ longer[Len(rows) + 1] = sent
        /\ \A i \in 1..Len(rows) : longer[i] = messages[i]
    BY <1>7, AppendFacts
  <2> HIDE DEF longer
  <2>7. KeepLast(longer, MAX_THREAD_MESSAGES) = longer
    BY <1>1, <2>6, CapsAssumption DEF KeepLast
  <2>8. DOMAIN new = 1..(Len(rows) + 1)
    BY <2>5, SeqDomain
  <2>9. \A i \in 1..(Len(rows) + 1) : i \in 1..Len(rows) \/ i = Len(rows) + 1
    BY <1>1
  <2>10. longer = [i \in DOMAIN new |-> MessageOf(new[i])]
    <3> DEFINE s == [i \in 1..(Len(rows) + 1) |-> MessageOf(new[i])]
    <3>1. IsSeq(s) /\ Len(s) = Len(rows) + 1
      <4>1. s = [i \in 1..(Len(rows) + 1) |-> s[i]] /\ Len(rows) + 1 \in Nat
        BY <1>1
      <4> HIDE DEF s
      <4> QED
        BY <4>1, MapFacts
    <3>2. \A i \in 1..(Len(rows) + 1) : longer[i] = s[i]
      BY <1>1, <1>3, <2>3, <2>5, <2>6, <2>9
    <3>3. s = [i \in DOMAIN new |-> MessageOf(new[i])]
      BY <2>8
    <3> HIDE DEF s
    <3>4. longer = s
      BY <2>6, <3>1, <3>2, SameSeq
    <3> QED
      BY <3>3, <3>4
  <2>11. /\ \A i, j \in DOMAIN new : new[i].id = new[j].id => i = j
         /\ \A i \in DOMAIN new : new[i].role = RoleOf(new[i].id)
    BY <1>1, <1>2, <1>6, <2>4, <2>5, <2>8, <2>9, SMTT(30)
  <2>12. SameMessages(new, longer)
    BY <2>5, <2>10, <2>11 DEF SameMessages
  <2> QED
    BY <2>2, <2>5, <2>7, <2>12 DEF new, row
<1> QED
  BY <1>8, <1>9

(***************************************************************************)
(* What an event replaces of a thread                                      *)
(***************************************************************************)

\* The fields of a thread, and those that a row shares with it.
ThreadFields ==
    {"projectId", "meta", "runtimeMode", "interactionMode", "latestTurn", "archived", "deleted",
     "messages", "proposedPlans", "activities", "checkpoints", "session"}

\* These a row shares with the thread.
RowFields == {"projectId", "meta", "runtimeMode", "interactionMode", "archived", "deleted"}

\* The patch of an event that is none of the four below.
LEMMA SmallPatch ==
    ASSUME NEW thread, NEW e,
           e.type \notin {"thread.message-sent", "thread.session-set", "thread.proposed-plan-upserted",
                          "thread.turn-diff-completed", "thread.reverted", "thread.activity-appended"}
    PROVE  /\ DOMAIN ThreadPatch(thread, e) \subseteq RowFields
           /\ DOMAIN ThreadRowPatch(e) = DOMAIN ThreadPatch(thread, e)
           /\ \A f \in RowFields : f \in DOMAIN ThreadPatch(thread, e) =>
                 ThreadRowPatch(e)[f] = ThreadPatch(thread, e)[f]
<1> DEFINE p == ThreadPatch(thread, e)
           q == ThreadRowPatch(e)
<1>0. DOMAIN NoPatch = {}
  BY NilFacts DEF NoPatch
<1> HIDE DEF NoPatch
<1>1. p = q
  BY DEF ThreadPatch, ThreadRowPatch
<1>2. DOMAIN p \subseteq RowFields
  <2>1. \A f \in RowFields : \A v : DOMAIN [g \in {f} |-> v] \subseteq RowFields
    OBVIOUS
  <2> QED
    BY <1>0, SMTT(30) DEF ThreadPatch, RowFields
<1> QED
  BY <1>1, <1>2

\* The domain of the other patches.
LEMMA LargePatch ==
    ASSUME NEW thread, NEW e
    PROVE  /\ e.type = "thread.message-sent" =>
                /\ DOMAIN ThreadPatch(thread, e) = {"messages"}
                /\ ThreadPatch(thread, e).messages = MessagesAfterSent(thread.messages, e)
           /\ e.type = "thread.session-set" =>
                /\ DOMAIN ThreadPatch(thread, e) = {"session", "latestTurn"}
                /\ ThreadPatch(thread, e).session = e.session
           /\ e.type = "thread.proposed-plan-upserted" =>
                /\ DOMAIN ThreadPatch(thread, e) = {"proposedPlans"}
                /\ ThreadPatch(thread, e).proposedPlans
                     = KeepLast(UpsertById(thread.proposedPlans, e.proposedPlan), MAX_THREAD_PLANS)
           /\ e.type = "thread.activity-appended" =>
                /\ DOMAIN ThreadPatch(thread, e) = {"activities"}
                /\ ThreadPatch(thread, e).activities
                     = KeepLast(UpsertById(thread.activities, e.activity), MAX_THREAD_ACTIVITIES)
           /\ e.type = "thread.turn-diff-completed" =>
                \/ DOMAIN ThreadPatch(thread, e) = {}
                \/ /\ DOMAIN ThreadPatch(thread, e) = {"checkpoints", "latestTurn"}
                   /\ ThreadPatch(thread, e).checkpoints = DiffPatch(thread, e).checkpoints
           /\ e.type = "thread.reverted" =>
                /\ DOMAIN ThreadPatch(thread, e)
                     = {"checkpoints", "messages", "proposedPlans", "activities", "latestTurn"}
                /\ ThreadPatch(thread, e) = RevertPatch(thread, e.turnCount)
<1>1. DOMAIN NoPatch = {}
  BY NilFacts DEF NoPatch
<1> HIDE DEF NoPatch
<1>2. ASSUME e.type = "thread.message-sent"
      PROVE  /\ DOMAIN ThreadPatch(thread, e) = {"messages"}
             /\ ThreadPatch(thread, e).messages = MessagesAfterSent(thread.messages, e)
  <2>1. ThreadPatch(thread, e) = [messages |-> MessagesAfterSent(thread.messages, e)]
    BY <1>2 DEF ThreadPatch
  <2> QED
    BY <2>1
<1>3. ASSUME e.type = "thread.session-set"
      PROVE  /\ DOMAIN ThreadPatch(thread, e) = {"session", "latestTurn"}
             /\ ThreadPatch(thread, e).session = e.session
  <2>1. ThreadPatch(thread, e) = SessionPatch(thread, e.session)
    BY <1>3 DEF ThreadPatch
  <2>2. DOMAIN SessionPatch(thread, e.session) = {"session", "latestTurn"}
        /\ SessionPatch(thread, e.session).session = e.session
    BY DEF SessionPatch
  <2> QED
    BY <2>1, <2>2
<1>4. ASSUME e.type = "thread.proposed-plan-upserted"
      PROVE  /\ DOMAIN ThreadPatch(thread, e) = {"proposedPlans"}
             /\ ThreadPatch(thread, e).proposedPlans
                     = KeepLast(UpsertById(thread.proposedPlans, e.proposedPlan), MAX_THREAD_PLANS)
  <2>1. ThreadPatch(thread, e) =
           [proposedPlans |-> KeepLast(UpsertById(thread.proposedPlans, e.proposedPlan), MAX_THREAD_PLANS)]
    BY <1>4 DEF ThreadPatch
  <2> QED
    BY <2>1
<1>5. ASSUME e.type = "thread.activity-appended"
      PROVE  /\ DOMAIN ThreadPatch(thread, e) = {"activities"}
             /\ ThreadPatch(thread, e).activities
                     = KeepLast(UpsertById(thread.activities, e.activity), MAX_THREAD_ACTIVITIES)
  <2>1. ThreadPatch(thread, e) =
           [activities |-> KeepLast(UpsertById(thread.activities, e.activity), MAX_THREAD_ACTIVITIES)]
    BY <1>5 DEF ThreadPatch
  <2> QED
    BY <2>1
<1>6. ASSUME e.type = "thread.turn-diff-completed"
      PROVE  \/ DOMAIN ThreadPatch(thread, e) = {}
             \/ /\ DOMAIN ThreadPatch(thread, e) = {"checkpoints", "latestTurn"}
                /\ ThreadPatch(thread, e).checkpoints = DiffPatch(thread, e).checkpoints
  <2>1. ThreadPatch(thread, e) = IF IsStalePlaceholder(thread, e) THEN NoPatch ELSE DiffPatch(thread, e)
    BY <1>6 DEF ThreadPatch
  <2>2. DOMAIN DiffPatch(thread, e) = {"checkpoints", "latestTurn"}
    BY DEF DiffPatch
  <2> QED
    BY <1>1, <2>1, <2>2
<1>7. ASSUME e.type = "thread.reverted"
      PROVE  /\ DOMAIN ThreadPatch(thread, e)
                     = {"checkpoints", "messages", "proposedPlans", "activities", "latestTurn"}
             /\ ThreadPatch(thread, e) = RevertPatch(thread, e.turnCount)
  <2>1. ThreadPatch(thread, e) = RevertPatch(thread, e.turnCount)
    BY <1>7 DEF ThreadPatch
  <2>2. DOMAIN RevertPatch(thread, e.turnCount)
          = {"checkpoints", "messages", "proposedPlans", "activities", "latestTurn"}
    BY DEF RevertPatch
  <2> QED
    BY <2>1, <2>2
<1> QED
  BY <1>2, <1>3, <1>4, <1>5, <1>6, <1>7

\* The patch of a row touches no shared field otherwise.
LEMMA LargeRowPatch ==
    ASSUME NEW e,
           e.type \in {"thread.message-sent", "thread.session-set", "thread.proposed-plan-upserted",
                       "thread.turn-diff-completed", "thread.reverted", "thread.activity-appended"}
    PROVE  DOMAIN ThreadRowPatch(e) \cap RowFields = {}
<1>1. DOMAIN NoPatch = {}
  BY NilFacts DEF NoPatch
<1> HIDE DEF NoPatch
<1> QED
  BY <1>1, SMTT(30) DEF ThreadRowPatch, RowFields

(***************************************************************************)
(* Reverts to the beginning, and lists that are not cut                    *)
(***************************************************************************)

\* A filter that keeps nothing is empty.
LEMMA NothingKept ==
    ASSUME NEW s, IsSeq(s)
    PROVE  Entries(s, {}) = <<>>
<1>1. PICK S : s \in Seq(S)
  BY DEF IsSeq
<1>2. Entries(s, {}) \in Seq(S)
  BY <1>1, EntriesAreOld
<1>3. DOMAIN Entries(s, {}) = 1..0
  BY FS_EmptySet DEF Entries
<1>4. DOMAIN Entries(s, {}) = 1..Len(Entries(s, {})) /\ Len(Entries(s, {})) \in Nat
  BY <1>2
<1>5. Len(Entries(s, {})) = 0
  BY <1>3, <1>4
<1> QED
  BY <1>5, <1>2, NilFacts, SameSeq DEF IsSeq

\* A set of indexes is no larger than what it indexes.
LEMMA IndexesFacts ==
    ASSUME NEW n \in Nat, NEW K, K \subseteq 1..n
    PROVE  Cardinality(K) \in Nat /\ Cardinality(K) <= n
<1>1. IsFiniteSet(1..n) /\ Cardinality(1..n) = n
  BY FS_Interval
<1> QED
  BY <1>1, FS_Subset, FS_CardinalityType

\* A filter that keeps some entries is no longer.
LEMMA SomeKept ==
    ASSUME NEW s, IsSeq(s), NEW K, K \subseteq DOMAIN s
    PROVE  IsSeq(Entries(s, K)) /\ Len(Entries(s, K)) <= Len(s) /\ Len(Entries(s, K)) \in Nat
<1>1. IsSeq(Entries(s, K))
  BY FilterFacts
<1>2. DOMAIN s = 1..Len(s) /\ Len(s) \in Nat
  BY SeqDomain
<1>4. Cardinality(K) <= Len(s) /\ Cardinality(K) \in Nat
  BY <1>2, IndexesFacts
<1>5. DOMAIN Entries(s, K) = 1..Cardinality(K)
  BY DEF Entries
<1>6. DOMAIN Entries(s, K) = 1..Len(Entries(s, K)) /\ Len(Entries(s, K)) \in Nat
  BY <1>1, SeqDomain
<1>7. Len(Entries(s, K)) = Cardinality(K)
  BY <1>4, <1>5, <1>6
<1> QED
  BY <1>1, <1>4, <1>7

\* A revert to the beginning falls back on no message,
LEMMA NoFallback ==
    ASSUME NEW s, IsSeq(s), NEW role, NEW ids, NEW turnIds
    PROVE  FallbackIds(s, role, ids, turnIds, 0) = {}
<1> DEFINE R == {i \in DOMAIN s : s[i].role = role /\ s[i].id \in ids}
           K == {i \in DOMAIN s : /\ s[i].role = role
                                  /\ s[i].id \notin ids
                                  /\ s[i].turnId = Null \/ s[i].turnId \in turnIds}
           candidates == Entries(s, K)
           retainedCount == Cardinality(R)
           J == {j \in DOMAIN candidates : j <= 0 - retainedCount}
<1>1. FallbackIds(s, role, ids, turnIds, 0) = {candidates[i].id : i \in J}
  BY DEF FallbackIds, Filter
<1>2. DOMAIN s = 1..Len(s) /\ Len(s) \in Nat
  BY SeqDomain
<1>3. retainedCount \in Nat
  <2>1. R \subseteq 1..Len(s)
    BY <1>2
  <2> HIDE DEF R
  <2> QED
    BY <1>2, <2>1, IndexesFacts
<1> HIDE DEF R, retainedCount
<1>4. IsSeq(candidates)
  <2>1. K \subseteq DOMAIN s
    OBVIOUS
  <2> HIDE DEF K
  <2> QED
    BY <2>1, FilterFacts
<1> HIDE DEF candidates
<1>5. DOMAIN candidates = 1..Len(candidates) /\ Len(candidates) \in Nat
  BY <1>4, SeqDomain
<1>6. J = {}
  BY <1>3, <1>5
<1> HIDE DEF J
<1> QED
  BY <1>1, <1>6

\* and so retains none: no command sends a message of the system.
LEMMA NoneRetained ==
    ASSUME NEW s, IsSeq(s), \A i \in DOMAIN s : s[i].role # "system"
    PROVE  RetainMessages(s, {}, {}, 0) = <<>>
<1> DEFINE byTurn == {} \cup {s[i].id : i \in {j \in DOMAIN s :
                        \/ s[j].role = "system"
                        \/ s[j].turnId # Null /\ s[j].turnId \in {}}}
           retained == byTurn \cup FallbackIds(s, "user", byTurn, {}, 0)
                         \cup FallbackIds(s, "assistant", byTurn, {}, 0)
           K == {i \in DOMAIN s : s[i].id \in retained}
<1>1. RetainMessages(s, {}, {}, 0) = Entries(s, K)
  BY DEF RetainMessages, Filter
<1>2. byTurn = {}
  OBVIOUS
<1> HIDE DEF byTurn
<1>3. retained = {}
  BY <1>2, NoFallback
<1> HIDE DEF retained
<1>4. K = {}
  BY <1>3
<1> HIDE DEF K
<1> QED
  BY <1>1, <1>4, NothingKept

\* A cap that is not reached cuts nothing.
LEMMA Uncut ==
    ASSUME NEW s, NEW n \in Nat, Len(s) \in Nat, Len(s) <= n
    PROVE  KeepLast(s, n) = s
BY DEF KeepLast

\* An upsert adds at most one entry.
LEMMA OneMore ==
    ASSUME NEW s, IsSeq(s), NEW entry
    PROVE  LET new == UpsertById(s, entry)
           IN  IsSeq(new) /\ Len(new) \in Nat /\ Len(new) <= Len(s) + 1
<1> DEFINE new == UpsertById(s, entry)
<1>1. IsSeq(new)
  BY UpsertByIdFacts
<1>2. DOMAIN s = 1..Len(s) /\ Len(s) \in Nat
  BY SeqDomain
<1>3. CASE entry.id \in Ids(s)
  <2>1. new = [i \in 1..Len(s) |-> IF s[i].id = entry.id THEN entry ELSE s[i]]
    BY <1>2, <1>3 DEF UpsertById
  <2>2. new = [i \in 1..Len(s) |-> new[i]]
    BY <2>1
  <2> HIDE DEF new
  <2>3. Len(new) = Len(s)
    BY <1>2, <2>2, MapFacts
  <2> QED
    BY <1>1, <1>2, <2>3 DEF new
<1>4. CASE entry.id \notin Ids(s)
  <2>1. new = Append(s, entry)
    BY <1>4 DEF UpsertById
  <2>2. Len(new) = Len(s) + 1
    BY <2>1, AppendFacts
  <2> HIDE DEF new
  <2> QED
    BY <1>1, <1>2, <2>2 DEF new
<1> QED
  BY <1>3, <1>4

\* Turns whose checkpoints count from one are none of them kept.
LEMMA NoTurnKept ==
    ASSUME NEW turns, Positive(turns)
    PROVE  KeptTurns(turns, 0) = {} /\ RetainedTurnIds(turns, 0) = {}
<1>1. KeptTurns(turns, 0) = {}
  BY DEF Positive, KeptTurns
<1> QED
  BY <1>1 DEF RetainedTurnIds

\* The checkpoints of a thread of the model count from one,
CountFromOne(checkpoints) ==
    /\ IsSeq(checkpoints)
    /\ \A i \in DOMAIN checkpoints : checkpoints[i].checkpointTurnCount \in Nat \ {0}

\* and go on to.
LEMMA InsertCounts ==
    ASSUME NEW s, CountFromOne(s), NEW c, c.checkpointTurnCount \in Nat \ {0}, NEW n \in Nat \ {0}
    PROVE  CountFromOne(KeepLast(InsertByTurnCount(s, c), n))
<1> DEFINE K == {i \in DOMAIN s : s[i].checkpointTurnCount <= c.checkpointTurnCount}
           k == Cardinality(K)
           S == {s[i] : i \in DOMAIN s} \cup {c}
           a == SubSeq(s, 1, k)
           b == SubSeq(s, k + 1, Len(s))
<1>1. DOMAIN s = 1..Len(s) /\ Len(s) \in Nat
  BY SeqDomain DEF CountFromOne
<1>2. \A x \in S : x.checkpointTurnCount \in Nat \ {0}
  BY DEF CountFromOne
<1>3. s \in Seq(S) /\ c \in S
  <2>1. PICK T : s \in Seq(T)
    BY DEF CountFromOne, IsSeq
  <2>2. s = [i \in 1..Len(s) |-> s[i]]
    BY <2>1
  <2>3. \A i \in 1..Len(s) : s[i] \in S
    BY <1>1
  <2> HIDE DEF S
  <2>4. s \in [1..Len(s) -> S]
    BY <2>2, <2>3
  <2>5. c \in S
    BY DEF S
  <2> QED
    BY <1>1, <2>4, <2>5
<1>4. k \in Nat /\ k <= Len(s)
  <2>1. K \subseteq 1..Len(s)
    BY <1>1
  <2> HIDE DEF K
  <2> QED
    BY <1>1, <2>1, IndexesFacts
<1>5. InsertByTurnCount(s, c) = a \o <<c>> \o b
  BY DEF InsertByTurnCount
<1> HIDE DEF S, k
<1>6. a \in Seq(S)
  <2>1. \A i \in 1..k : s[i] \in S
    BY <1>1, <1>3, <1>4
  <2> QED
    BY <1>3, <1>4, <2>1
<1>7. b \in Seq(S)
  <2>1. \A i \in (k + 1)..Len(s) : s[i] \in S
    BY <1>1, <1>3, <1>4
  <2> QED
    BY <1>1, <1>3, <1>4, <2>1
<1> HIDE DEF a, b
<1> DEFINE all == a \o <<c>> \o b
<1>8. all \in Seq(S)
  BY <1>3, <1>6, <1>7
<1> HIDE DEF all
<1>9. KeepLast(all, n) \in Seq(S)
  BY <1>8 DEF KeepLast
<1>10. IsSeq(KeepLast(all, n)) /\ \A i \in DOMAIN KeepLast(all, n) : KeepLast(all, n)[i] \in S
  BY <1>9 DEF IsSeq
<1> QED
  BY <1>2, <1>5, <1>10 DEF CountFromOne, all

(***************************************************************************)
(* Rows and thread after an event                                          *)
(***************************************************************************)

\* The row of a thread and the thread of the model share these fields.
SameFields(row, thread) ==
    /\ DOMAIN thread = ThreadFields
    /\ RowFields \subseteq DOMAIN row
    /\ \A f \in RowFields : row[f] = thread[f]

\* The rows of a thread, no more than n of a kind, are what the model has.
SameParts(rows, plans, activities, session, thread, n) ==
    /\ SameMessages(rows, thread.messages)
    /\ plans = thread.proposedPlans /\ activities = thread.activities /\ session = thread.session
    /\ IsSeq(plans) /\ IsSeq(activities) /\ CountFromOne(thread.checkpoints)
    /\ Len(rows) <= n /\ Len(plans) <= n /\ Len(activities) <= n

\* The events that change more than those fields.
LargeTypes == {"thread.message-sent", "thread.session-set", "thread.proposed-plan-upserted",
               "thread.turn-diff-completed", "thread.reverted", "thread.activity-appended"}

\* An event patches row and thread alike.
LEMMA FieldsAlike ==
    ASSUME NEW row, NEW thread, SameFields(row, thread), NEW e
    PROVE  SameFields(Patch(row, ThreadRowPatch(e)), Patch(thread, ThreadPatch(thread, e)))
<1> DEFINE p == ThreadPatch(thread, e)
           q == ThreadRowPatch(e)
<1>1. DOMAIN thread = ThreadFields /\ RowFields \subseteq DOMAIN row
      /\ \A f \in RowFields : row[f] = thread[f]
  BY DEF SameFields
<1>2. RowFields \subseteq ThreadFields
  BY DEF RowFields, ThreadFields
<1>3. CASE e.type \notin LargeTypes
  <2>1. /\ DOMAIN p \subseteq RowFields /\ DOMAIN q = DOMAIN p
        /\ \A f \in RowFields : f \in DOMAIN p => q[f] = p[f]
    BY <1>3, SmallPatch DEF LargeTypes
  <2> HIDE DEF p, q, RowFields, ThreadFields
  <2>2. SameFields(Patch(row, q), Patch(thread, p))
    BY <1>1, <1>2, <2>1 DEF SameFields, Patch
  <2> QED
    BY <2>2 DEF p, q
<1>4. CASE e.type \in LargeTypes
  <2>1. DOMAIN q \cap RowFields = {}
    BY <1>4, LargeRowPatch DEF LargeTypes
  <2>2. DOMAIN p \subseteq {"messages", "session", "latestTurn", "proposedPlans", "activities", "checkpoints"}
    BY <1>4, LargePatch DEF LargeTypes
  <2>3. DOMAIN p \subseteq ThreadFields /\ DOMAIN p \cap RowFields = {}
    BY <2>2 DEF RowFields, ThreadFields
  <2> HIDE DEF p, q, RowFields, ThreadFields
  <2>4. SameFields(Patch(row, q), Patch(thread, p))
    BY <1>1, <1>2, <2>1, <2>3 DEF SameFields, Patch
  <2> QED
    BY <2>4 DEF p, q
<1> QED
  BY <1>3, <1>4

\* What the agreement takes of an event.
EventFits(e) == KeepsNothing(e) /\ (e.type = "thread.message-sent" => e.role = RoleOf(e.messageId))

\* No cap is reached by n entries and one more.
Room(n) ==
    n < MAX_THREAD_MESSAGES /\ n < MAX_THREAD_PLANS /\ n < MAX_THREAD_ACTIVITIES

\* What a patch leaves alone.
LEMMA PatchKeeps ==
    ASSUME NEW thread, NEW p, NEW f, f \in DOMAIN thread
    PROVE  Patch(thread, p)[f] = IF f \in DOMAIN p THEN p[f] ELSE thread[f]
BY DEF Patch

\* An event changes the rows of a thread and the thread alike.
LEMMA PartsAlike ==
    ASSUME NEW rows, NEW plans, NEW activities, NEW session, NEW thread, NEW n \in Nat,
           SameParts(rows, plans, activities, session, thread, n), DOMAIN thread = ThreadFields,
           NEW turns, Positive(turns), NEW e, EventFits(e), Room(n)
    PROVE  SameParts(MessagesAfter(rows, turns, e), PlansAfter(plans, turns, e),
                     ActivitiesAfter(activities, turns, e), SessionAfter(session, e),
                     Patch(thread, ThreadPatch(thread, e)), n + 1)
<1> DEFINE p == ThreadPatch(thread, e)
           new == Patch(thread, p)
           Goal(a, b, c, d) == SameParts(a, b, c, d, new, n + 1)
<1>0. /\ SameMessages(rows, thread.messages)
      /\ plans = thread.proposedPlans /\ activities = thread.activities /\ session = thread.session
      /\ IsSeq(plans) /\ IsSeq(activities) /\ CountFromOne(thread.checkpoints)
      /\ Len(rows) <= n /\ Len(plans) <= n /\ Len(activities) <= n
  BY DEF SameParts
<1>1. /\ {"messages", "proposedPlans", "activities", "session", "checkpoints"} \subseteq DOMAIN thread
  BY DEF ThreadFields
<1>2. /\ IsSeq(rows) /\ Len(rows) \in Nat /\ Len(plans) \in Nat /\ Len(activities) \in Nat
      /\ Len(rows) <= n + 1 /\ Len(plans) <= n + 1 /\ Len(activities) <= n + 1
  BY <1>0, SeqDomain DEF SameMessages
<1>3. \A f \in {"messages", "proposedPlans", "activities", "session", "checkpoints"} :
         new[f] = IF f \in DOMAIN p THEN p[f] ELSE thread[f]
  BY <1>1, PatchKeeps
<1>4. e.type # "thread.message-sent" /\ e.type # "thread.reverted" => MessagesAfter(rows, turns, e) = rows
  BY DEF MessagesAfter
<1>5. e.type # "thread.proposed-plan-upserted" /\ e.type # "thread.reverted" => PlansAfter(plans, turns, e) = plans
  BY DEF PlansAfter
<1>6. e.type # "thread.activity-appended" /\ e.type # "thread.reverted"
         => ActivitiesAfter(activities, turns, e) = activities
  BY DEF ActivitiesAfter
<1>7. e.type # "thread.session-set" => SessionAfter(session, e) = session
  BY DEF SessionAfter
<1>8. CASE e.type \notin LargeTypes
  <2>1. DOMAIN p \subseteq RowFields
    BY <1>8, SmallPatch DEF LargeTypes
  <2> HIDE DEF p, new
  <2>2. \A f \in {"messages", "proposedPlans", "activities", "session", "checkpoints"} : new[f] = thread[f]
    BY <1>3, <2>1 DEF RowFields
  <2>3. Goal(rows, plans, activities, session)
    BY <1>0, <1>2, <2>2 DEF SameParts
  <2> QED
    BY <1>4, <1>5, <1>6, <1>7, <1>8, <2>3 DEF LargeTypes, new, p
<1>9. CASE e.type = "thread.message-sent"
  <2>1. DOMAIN p = {"messages"} /\ p.messages = MessagesAfterSent(thread.messages, e)
    BY <1>9, LargePatch
  <2> HIDE DEF p, new
  <2>2. /\ new.messages = MessagesAfterSent(thread.messages, e)
        /\ \A f \in {"proposedPlans", "activities", "session", "checkpoints"} : new[f] = thread[f]
    BY <1>3, <2>1
  <2> DEFINE rows2 == UpsertById(rows, MessageRow(rows, e))
  <2>3. MessagesAfter(rows, turns, e) = rows2
    BY <1>9 DEF MessagesAfter
  <2>4. Len(rows) < MAX_THREAD_MESSAGES
    BY <1>0, <1>2, CapsAssumption DEF Room
  <2>5. SameMessages(rows2, MessagesAfterSent(thread.messages, e)) /\ Len(rows2) \in {Len(rows), Len(rows) + 1}
    BY <1>0, <1>9, <2>4, SentAlike DEF EventFits
  <2> HIDE DEF rows2
  <2>6. Len(rows2) <= n + 1
    BY <1>0, <1>2, <2>5
  <2>7. Goal(rows2, plans, activities, session)
    BY <1>0, <1>2, <2>2, <2>5, <2>6 DEF SameParts
  <2> QED
    BY <1>5, <1>6, <1>7, <1>9, <2>3, <2>7 DEF new, p
<1>10. CASE e.type = "thread.session-set"
  <2>1. DOMAIN p = {"session", "latestTurn"} /\ p.session = e.session
    BY <1>10, LargePatch
  <2> HIDE DEF p, new
  <2>2. /\ new.session = e.session
        /\ \A f \in {"messages", "proposedPlans", "activities", "checkpoints"} : new[f] = thread[f]
    BY <1>3, <2>1
  <2>3. Goal(rows, plans, activities, e.session)
    BY <1>0, <1>2, <2>2 DEF SameParts
  <2> QED
    BY <1>4, <1>5, <1>6, <1>10, <2>3 DEF new, p, SessionAfter
<1>11. CASE e.type = "thread.proposed-plan-upserted"
  <2> DEFINE plans2 == UpsertById(plans, e.proposedPlan)
  <2>1. DOMAIN p = {"proposedPlans"} /\ p.proposedPlans = KeepLast(plans2, MAX_THREAD_PLANS)
    BY <1>0, <1>11, LargePatch
  <2>2. PlansAfter(plans, turns, e) = plans2
    BY <1>11 DEF PlansAfter
  <2>3. IsSeq(plans2) /\ Len(plans2) \in Nat /\ Len(plans2) <= Len(plans) + 1
    BY <1>0, OneMore
  <2> HIDE DEF p, new, plans2
  <2>4. Len(plans2) <= n + 1 /\ Len(plans2) <= MAX_THREAD_PLANS
    BY <1>0, <1>2, <2>3, CapsAssumption DEF Room
  <2>5. KeepLast(plans2, MAX_THREAD_PLANS) = plans2
    BY <2>3, <2>4, Uncut, CapsAssumption
  <2>6. /\ new.proposedPlans = plans2
        /\ \A f \in {"messages", "session", "activities", "checkpoints"} : new[f] = thread[f]
    BY <1>3, <2>1, <2>5
  <2>7. Goal(rows, plans2, activities, session)
    BY <1>0, <1>2, <2>3, <2>4, <2>6 DEF SameParts
  <2> QED
    BY <1>4, <1>6, <1>7, <1>11, <2>2, <2>7 DEF new, p
<1>12. CASE e.type = "thread.activity-appended"
  <2> DEFINE activities2 == UpsertById(activities, e.activity)
  <2>1. DOMAIN p = {"activities"} /\ p.activities = KeepLast(activities2, MAX_THREAD_ACTIVITIES)
    BY <1>0, <1>12, LargePatch
  <2>2. ActivitiesAfter(activities, turns, e) = activities2
    BY <1>12 DEF ActivitiesAfter
  <2>3. IsSeq(activities2) /\ Len(activities2) \in Nat /\ Len(activities2) <= Len(activities) + 1
    BY <1>0, OneMore
  <2> HIDE DEF p, new, activities2
  <2>4. Len(activities2) <= n + 1 /\ Len(activities2) <= MAX_THREAD_ACTIVITIES
    BY <1>0, <1>2, <2>3, CapsAssumption DEF Room
  <2>5. KeepLast(activities2, MAX_THREAD_ACTIVITIES) = activities2
    BY <2>3, <2>4, Uncut, CapsAssumption
  <2>6. /\ new.activities = activities2
        /\ \A f \in {"messages", "session", "proposedPlans", "checkpoints"} : new[f] = thread[f]
    BY <1>3, <2>1, <2>5
  <2>7. Goal(rows, plans, activities2, session)
    BY <1>0, <1>2, <2>3, <2>4, <2>6 DEF SameParts
  <2> QED
    BY <1>4, <1>5, <1>7, <1>12, <2>2, <2>7 DEF new, p
<1>13. CASE e.type = "thread.turn-diff-completed"
  <2>1. \/ DOMAIN p = {}
        \/ DOMAIN p = {"checkpoints", "latestTurn"} /\ p.checkpoints = DiffPatch(thread, e).checkpoints
    BY <1>13, LargePatch
  <2> HIDE DEF p, new
  <2>2. /\ \A f \in {"messages", "session", "proposedPlans", "activities"} : new[f] = thread[f]
        /\ new.checkpoints = thread.checkpoints \/ new.checkpoints = DiffPatch(thread, e).checkpoints
    BY <1>3, <2>1
  <2>3. CountFromOne(DiffPatch(thread, e).checkpoints)
    <3> DEFINE K == {i \in DOMAIN thread.checkpoints : thread.checkpoints[i].turnId # e.turnId}
               others == Entries(thread.checkpoints, K)
               checkpoint == [turnId |-> e.turnId, status |-> e.status,
                              checkpointTurnCount |-> e.checkpointTurnCount,
                              checkpointRef |-> e.checkpointRef,
                              assistantMessageId |-> e.assistantMessageId]
    <3>1. DiffPatch(thread, e).checkpoints = KeepLast(InsertByTurnCount(others, checkpoint), MAX_THREAD_CHECKPOINTS)
      BY DEF DiffPatch, Filter
    <3>2. checkpoint.checkpointTurnCount \in Nat \ {0}
      BY <1>13 DEF EventFits, KeepsNothing
    <3>3. CountFromOne(others)
      <4>1. K \subseteq DOMAIN thread.checkpoints
        OBVIOUS
      <4> HIDE DEF K
      <4>2. IsSeq(others) /\ \A i \in DOMAIN others : \E j \in K : others[i] = thread.checkpoints[j]
        BY <1>0, <4>1, FilterFacts DEF CountFromOne
      <4> HIDE DEF others
      <4> QED
        BY <1>0, <4>1, <4>2 DEF CountFromOne
    <3> HIDE DEF others, checkpoint
    <3> QED
      BY <3>1, <3>2, <3>3, InsertCounts, CapsAssumption
  <2>4. Goal(rows, plans, activities, session)
    BY <1>0, <1>2, <2>2, <2>3 DEF SameParts
  <2> QED
    BY <1>4, <1>5, <1>6, <1>7, <1>13, <2>4 DEF new, p
<1>14. CASE e.type = "thread.reverted"
  <2> DEFINE K == {i \in DOMAIN thread.checkpoints : thread.checkpoints[i].checkpointTurnCount <= 0}
             kept == Entries(thread.checkpoints, K)
             turnIds == {kept[i].turnId : i \in DOMAIN kept}
  <2>0. e.turnCount = 0
    BY <1>14 DEF EventFits, KeepsNothing
  <2>1. /\ DOMAIN p = {"checkpoints", "messages", "proposedPlans", "activities", "latestTurn"}
        /\ p = RevertPatch(thread, 0)
    BY <1>14, <2>0, LargePatch
  <2>2. kept = <<>>
    <3>1. K = {}
      BY <1>0, SMTT(30) DEF CountFromOne
    <3> HIDE DEF K
    <3> QED
      BY <1>0, <3>1, NothingKept DEF CountFromOne
  <2>3. turnIds = {}
    <3> HIDE DEF kept
    <3> QED
      BY <2>2, NilFacts
  <2>4. /\ p.checkpoints = kept
        /\ p.messages = RetainMessages(thread.messages, {}, turnIds, 0)
        /\ p.proposedPlans = RetainByTurn(thread.proposedPlans, turnIds)
        /\ p.activities = RetainByTurn(thread.activities, turnIds)
    BY <2>1 DEF RevertPatch, Filter, retainThreadMessagesAfterRevert
  <2> HIDE DEF p, new, kept, turnIds
  <2>5. /\ new.checkpoints = <<>> /\ new.session = thread.session
        /\ new.messages = RetainMessages(thread.messages, {}, {}, 0)
        /\ new.proposedPlans = RetainByTurn(plans, {})
        /\ new.activities = RetainByTurn(activities, {})
    BY <1>0, <1>3, <2>1, <2>2, <2>3, <2>4
  <2>6. KeptTurns(turns, 0) = {} /\ RetainedTurnIds(turns, 0) = {}
    BY NoTurnKept
  <2>7. /\ MessagesAfter(rows, turns, e) = RetainMessages(rows, {}, {}, 0)
        /\ PlansAfter(plans, turns, e) = RetainByTurn(plans, {})
        /\ ActivitiesAfter(activities, turns, e) = RetainByTurn(activities, {})
    <3>1. MessagesAfter(rows, turns, e) = retainProjectionMessagesAfterRevert(rows, turns, 0)
      BY <1>14, <2>0 DEF MessagesAfter
    <3>2. {turn.pendingMessageId : turn \in KeptTurns(turns, 0)}
             \cup {turn.assistantMessageId : turn \in KeptTurns(turns, 0)} = {}
      BY <2>6
    <3>3. retainProjectionMessagesAfterRevert(rows, turns, 0) = RetainMessages(rows, {}, {}, 0)
      BY <2>6, <3>2 DEF retainProjectionMessagesAfterRevert
    <3> QED
      BY <1>14, <2>0, <2>6, <3>1, <3>3 DEF PlansAfter, ActivitiesAfter
  <2>8. RetainMessages(rows, {}, {}, 0) = <<>> /\ RetainMessages(thread.messages, {}, {}, 0) = <<>>
    <3>1. \A i \in DOMAIN rows : rows[i].role # "system"
      BY <1>0 DEF SameMessages, RoleOf
    <3>2. thread.messages = [i \in DOMAIN rows |-> MessageOf(rows[i])]
      BY <1>0 DEF SameMessages
    <3>3. \A i \in DOMAIN thread.messages : thread.messages[i].role # "system"
      BY <3>1, <3>2 DEF MessageOf
    <3>4. IsSeq(thread.messages)
      <4>1. thread.messages = [i \in 1..Len(rows) |-> thread.messages[i]]
        BY <1>2, <3>2, SeqDomain
      <4> QED
        BY <1>2, <4>1, MapFacts
    <3> QED
      BY <1>2, <3>1, <3>3, <3>4, NoneRetained
  <2>9. SameMessages(<<>>, <<>>) /\ CountFromOne(<<>>) /\ Len(<<>>) <= n + 1
    <3>1. \A i \in DOMAIN <<>> : FALSE
      BY NilFacts
    <3>2. <<>> = [i \in DOMAIN <<>> |-> MessageOf(<<>>[i])]
      <4> DEFINE s == [i \in 1..0 |-> MessageOf(<<>>[i])]
      <4>1. s = [i \in 1..0 |-> s[i]]
        OBVIOUS
      <4>2. s = [i \in DOMAIN <<>> |-> MessageOf(<<>>[i])]
        BY NilFacts
      <4> HIDE DEF s
      <4>3. IsSeq(s) /\ Len(s) = 0
        BY <4>1, MapFacts
      <4>4. s = <<>>
        BY <4>3, NilFacts, SameSeq
      <4> QED
        BY <4>2, <4>4
    <3> QED
      BY <3>1, <3>2, NilFacts DEF SameMessages, CountFromOne
  <2>10. \A s : IsSeq(s) /\ Len(s) <= n /\ Len(s) \in Nat
            => IsSeq(RetainByTurn(s, {})) /\ Len(RetainByTurn(s, {})) <= n + 1
    <3> SUFFICES ASSUME NEW s, IsSeq(s), Len(s) <= n, Len(s) \in Nat
                 PROVE  IsSeq(RetainByTurn(s, {})) /\ Len(RetainByTurn(s, {})) <= n + 1
      OBVIOUS
    <3> DEFINE J == {i \in DOMAIN s : s[i].turnId = Null \/ s[i].turnId \in {}}
    <3>1. RetainByTurn(s, {}) = Entries(s, J)
      BY DEF RetainByTurn, Filter
    <3>2. J \subseteq DOMAIN s
      OBVIOUS
    <3> HIDE DEF J
    <3>3. IsSeq(Entries(s, J)) /\ Len(Entries(s, J)) <= Len(s) /\ Len(Entries(s, J)) \in Nat
      BY <3>2, SomeKept
    <3> QED
      BY <3>1, <3>3
  <2>11. Goal(<<>>, RetainByTurn(plans, {}), RetainByTurn(activities, {}), session)
    BY <1>0, <1>2, <2>5, <2>8, <2>9, <2>10 DEF SameParts
  <2> QED
    BY <1>7, <1>14, <2>7, <2>8, <2>11 DEF new, p
<1> QED
  BY <1>8, <1>9, <1>10, <1>11, <1>12, <1>13, <1>14 DEF LargeTypes

(***************************************************************************)
(* Tables and read model after an event                                    *)
(***************************************************************************)

\* A thread's row and its other rows are what the model has of it.
ThreadAgrees(tabs, t, thread, n) ==
    /\ SameFields(tabs.threads[t], thread)
    /\ SameParts(RowsOf(tabs.threadMessages, t), RowsOf(tabs.threadProposedPlans, t),
                 RowsOf(tabs.threadActivities, t), SessionOf(tabs, t), thread, n)

\* No table has a row of the thread.
NoRows(tabs, t) ==
    /\ RowsOf(tabs.threadMessages, t) = <<>> /\ RowsOf(tabs.threadProposedPlans, t) = <<>>
    /\ RowsOf(tabs.threadActivities, t) = <<>> /\ SessionOf(tabs, t) = Null

\* The tables and the model after n events.
Agree(tabs, model, n) ==
    /\ IsModel(model)
    /\ tabs.projects = model.projects
    /\ DOMAIN tabs.threads = DOMAIN model.threads
    /\ \A t \in DOMAIN model.threads : ThreadAgrees(tabs, t, model.threads[t], n)
    /\ \A t : t \notin DOMAIN model.threads => NoRows(tabs, t)

\* A thread is created once, and other events are of one that there is.
InPlace(e, threads) ==
    OfThread(e) => (e.type = "thread.created" <=> e.threadId \notin threads)

\* There is room for one more.
LEMMA PartsLonger ==
    ASSUME NEW rows, NEW plans, NEW activities, NEW session, NEW thread, NEW n \in Nat,
           SameParts(rows, plans, activities, session, thread, n)
    PROVE  SameParts(rows, plans, activities, session, thread, n + 1)
<1>1. IsSeq(rows) /\ IsSeq(plans) /\ IsSeq(activities)
  BY DEF SameParts, SameMessages
<1>2. Len(rows) \in Nat /\ Len(plans) \in Nat /\ Len(activities) \in Nat
  BY <1>1, SeqDomain
<1> QED
  BY <1>2 DEF SameParts

\* There is nothing of a thread that is new.
LEMMA NewAlike ==
    ASSUME NEW e, NEW n \in Nat
    PROVE  /\ SameFields(NewThreadRow(e), NewThread(e))
           /\ SameParts(<<>>, <<>>, <<>>, Null, NewThread(e), n)
<1> DEFINE thread == NewThread(e)
           row == NewThreadRow(e)
<1>1. /\ DOMAIN thread = ThreadFields /\ RowFields \subseteq DOMAIN row
      /\ \A f \in RowFields : row[f] = thread[f]
  BY DEF NewThread, NewThreadRow, ThreadFields, RowFields
<1>2. /\ thread.messages = <<>> /\ thread.proposedPlans = <<>> /\ thread.activities = <<>>
      /\ thread.checkpoints = <<>> /\ thread.session = Null
  BY DEF NewThread
<1> HIDE DEF thread, row
<1>3. \A i \in DOMAIN <<>> : FALSE
  BY NilFacts
<1>4. <<>> = [i \in DOMAIN <<>> |-> MessageOf(<<>>[i])]
  <2> DEFINE s == [i \in 1..0 |-> MessageOf(<<>>[i])]
  <2>1. s = [i \in 1..0 |-> s[i]]
    OBVIOUS
  <2>2. s = [i \in DOMAIN <<>> |-> MessageOf(<<>>[i])]
    BY NilFacts
  <2> HIDE DEF s
  <2>3. IsSeq(s) /\ Len(s) = 0
    BY <2>1, MapFacts
  <2>4. s = <<>>
    BY <2>3, NilFacts, SameSeq
  <2> QED
    BY <2>2, <2>4
<1>5. SameMessages(<<>>, <<>>) /\ CountFromOne(<<>>) /\ IsSeq(<<>>) /\ Len(<<>>) <= n
  BY <1>3, <1>4, NilFacts DEF SameMessages, CountFromOne
<1>6. SameFields(row, thread)
  BY <1>1 DEF SameFields
<1>7. SameParts(<<>>, <<>>, <<>>, Null, thread, n)
  BY <1>2, <1>5 DEF SameParts
<1> QED
  BY <1>6, <1>7 DEF row, thread

\* Events without rows of their own leave the rows of a thread.
LEMMA CreatedKeeps ==
    ASSUME NEW e, e.type = "thread.created", NEW rows, NEW turns
    PROVE  /\ MessagesAfter(rows, turns, e) = rows /\ PlansAfter(rows, turns, e) = rows
           /\ ActivitiesAfter(rows, turns, e) = rows /\ SessionAfter(rows, e) = rows
BY DEF MessagesAfter, PlansAfter, ActivitiesAfter, SessionAfter

\* One event keeps the tables and the model in agreement.
LEMMA AgreeStep ==
    ASSUME NEW tabs, TablesOK(tabs), PositiveTable(tabs), NEW m, NEW n \in Nat, Agree(tabs, m, n),
           NEW e, EventOK(e), EventFits(e), Room(n), InPlace(e, DOMAIN m.threads)
    PROVE  Agree(After(tabs, ProjectorNames, e), projectEvent(m, e), n + 1)
<1> DEFINE new == After(tabs, ProjectorNames, e)
           model == projectEvent(m, e)
           u == e.threadId
<1>0. IsTables(tabs) /\ IsModel(m)
  BY DEF TablesOK, Agree
<1>1. /\ IsModel(model) /\ model.projects = ProjectsAfter(m.projects, e)
      /\ model.threads = ThreadsOfModelAfter(m.threads, e)
  BY <1>0, ProjectEventEffects
<1>2. /\ new.projects = ProjectsAfter(tabs.projects, e)
      /\ new.threads = IF OfThread(e) THEN ThreadsAfter(tabs.threads, e) ELSE tabs.threads
      /\ \A t : RowsOf(new.threadMessages, t) =
                  IF AtThread(e, t)
                    THEN MessagesAfter(RowsOf(tabs.threadMessages, t), TurnsOf(tabs, t), e)
                  ELSE RowsOf(tabs.threadMessages, t)
      /\ \A t : RowsOf(new.threadProposedPlans, t) =
                  IF AtThread(e, t)
                    THEN PlansAfter(RowsOf(tabs.threadProposedPlans, t), TurnsOf(tabs, t), e)
                  ELSE RowsOf(tabs.threadProposedPlans, t)
      /\ \A t : RowsOf(new.threadActivities, t) =
                  IF AtThread(e, t)
                    THEN ActivitiesAfter(RowsOf(tabs.threadActivities, t), TurnsOf(tabs, t), e)
                  ELSE RowsOf(tabs.threadActivities, t)
      /\ \A t : SessionOf(new, t) = IF AtThread(e, t) THEN SessionAfter(SessionOf(tabs, t), e)
                                    ELSE SessionOf(tabs, t)
  BY <1>0, TableEffects
<1> HIDE DEF new, model
<1>3. /\ tabs.projects = m.projects /\ DOMAIN tabs.threads = DOMAIN m.threads
      /\ \A t \in DOMAIN m.threads : ThreadAgrees(tabs, t, m.threads[t], n)
      /\ \A t : t \notin DOMAIN m.threads => NoRows(tabs, t)
  BY DEF Agree
<1>4. new.projects = model.projects
  BY <1>1, <1>2, <1>3
<1>5. ASSUME NEW t, ~AtThread(e, t)
      PROVE  /\ RowsOf(new.threadMessages, t) = RowsOf(tabs.threadMessages, t)
             /\ RowsOf(new.threadProposedPlans, t) = RowsOf(tabs.threadProposedPlans, t)
             /\ RowsOf(new.threadActivities, t) = RowsOf(tabs.threadActivities, t)
             /\ SessionOf(new, t) = SessionOf(tabs, t)
  BY <1>2, <1>5
<1>6. ASSUME NEW t, ~AtThread(e, t), t \notin DOMAIN m.threads PROVE NoRows(new, t)
  BY <1>3, <1>5, <1>6 DEF NoRows
<1>7. ASSUME NEW t \in DOMAIN m.threads, ~AtThread(e, t), new.threads[t] = tabs.threads[t]
      PROVE  ThreadAgrees(new, t, m.threads[t], n + 1)
  <2>1. ThreadAgrees(tabs, t, m.threads[t], n)
    BY <1>3
  <2>2. /\ SameFields(tabs.threads[t], m.threads[t])
        /\ SameParts(RowsOf(tabs.threadMessages, t), RowsOf(tabs.threadProposedPlans, t),
                     RowsOf(tabs.threadActivities, t), SessionOf(tabs, t), m.threads[t], n + 1)
    BY <2>1, PartsLonger DEF ThreadAgrees
  <2> QED
    BY <1>5, <1>7, <2>2 DEF ThreadAgrees
<1>8. CASE ~OfThread(e)
  <2>1. \A t : ~AtThread(e, t)
    BY <1>8 DEF AtThread
  <2>2. new.threads = tabs.threads
    BY <1>2, <1>8
  <2>3. model.threads = m.threads
    BY <1>1, <1>8 DEF ThreadsOfModelAfter, EventOK, ProjectEventTypes
  <2>4. \A t \in DOMAIN m.threads : ThreadAgrees(new, t, m.threads[t], n + 1)
    BY <1>7, <2>1, <2>2
  <2>5. \A t : t \notin DOMAIN m.threads => NoRows(new, t)
    BY <1>6, <2>1
  <2>6. Agree(new, model, n + 1)
    BY <1>1, <1>3, <1>4, <2>2, <2>3, <2>4, <2>5 DEF Agree
  <2> QED
    BY <2>6 DEF new, model
<1>9. CASE OfThread(e) /\ e.type = "thread.created"
  <2>1. u \notin DOMAIN m.threads
    BY <1>9 DEF InPlace
  <2>2. new.threads = Put(tabs.threads, u, NewThreadRow(e))
    BY <1>2, <1>9 DEF ThreadsAfter
  <2>3. model.threads = Put(m.threads, u, NewThread(e))
    BY <1>1, <1>9 DEF ThreadsOfModelAfter
  <2>4. NoRows(new, u)
    <3>1. NoRows(tabs, u)
      BY <1>3, <2>1
    <3>2. AtThread(e, u)
      BY <1>9 DEF AtThread
    <3> QED
      BY <1>2, <1>9, <3>1, <3>2, CreatedKeeps DEF NoRows
  <2> HIDE DEF u
  <2>5. \A t : AtThread(e, t) <=> t = u
    BY <1>9 DEF AtThread, u
  <2>6. DOMAIN new.threads = DOMAIN m.threads \cup {u} /\ DOMAIN model.threads = DOMAIN m.threads \cup {u}
        /\ new.threads[u] = NewThreadRow(e) /\ model.threads[u] = NewThread(e)
        /\ \A t \in DOMAIN m.threads : new.threads[t] = tabs.threads[t] /\ model.threads[t] = m.threads[t]
    BY <1>3, <2>1, <2>2, <2>3 DEF Put
  <2>7. ThreadAgrees(new, u, NewThread(e), n + 1)
    <3>1. /\ SameFields(NewThreadRow(e), NewThread(e))
          /\ SameParts(<<>>, <<>>, <<>>, Null, NewThread(e), n + 1)
      BY NewAlike
    <3> QED
      BY <2>4, <2>6, <3>1 DEF ThreadAgrees, NoRows
  <2>8. \A t \in DOMAIN m.threads : ThreadAgrees(new, t, m.threads[t], n + 1)
    BY <1>7, <2>1, <2>5, <2>6
  <2>9. \A t \in DOMAIN model.threads : ThreadAgrees(new, t, model.threads[t], n + 1)
    BY <2>6, <2>7, <2>8
  <2>10. \A t : t \notin DOMAIN model.threads => NoRows(new, t)
    BY <1>6, <2>5, <2>6
  <2>11. Agree(new, model, n + 1)
    BY <1>1, <1>4, <2>6, <2>9, <2>10 DEF Agree
  <2> QED
    BY <2>11 DEF new, model
<1>10. CASE OfThread(e) /\ e.type # "thread.created"
  <2>1. u \in DOMAIN m.threads
    BY <1>10 DEF InPlace
  <2> DEFINE row == Patch(tabs.threads[u], ThreadRowPatch(e))
             thread == Patch(m.threads[u], ThreadPatch(m.threads[u], e))
  <2>2. new.threads = [tabs.threads EXCEPT ![u] = row]
    BY <1>2, <1>3, <1>10, <2>1 DEF ThreadsAfter
  <2>3. model.threads = [m.threads EXCEPT ![u] = thread]
    BY <1>1, <1>10, <2>1 DEF ThreadsOfModelAfter
  <2>4. ThreadAgrees(tabs, u, m.threads[u], n)
    BY <1>3, <2>1
  <2>5. SameFields(row, thread)
    BY <2>4, FieldsAlike DEF ThreadAgrees
  <2>6. Positive(TurnsOf(tabs, u))
    BY DEF PositiveTable, Positive, TurnsOf
  <2>7. SameParts(MessagesAfter(RowsOf(tabs.threadMessages, u), TurnsOf(tabs, u), e),
                  PlansAfter(RowsOf(tabs.threadProposedPlans, u), TurnsOf(tabs, u), e),
                  ActivitiesAfter(RowsOf(tabs.threadActivities, u), TurnsOf(tabs, u), e),
                  SessionAfter(SessionOf(tabs, u), e), thread, n + 1)
    <3>1. DOMAIN m.threads[u] = ThreadFields
      BY <2>4 DEF ThreadAgrees, SameFields
    <3>2. SameParts(RowsOf(tabs.threadMessages, u), RowsOf(tabs.threadProposedPlans, u),
                    RowsOf(tabs.threadActivities, u), SessionOf(tabs, u), m.threads[u], n)
      BY <2>4 DEF ThreadAgrees
    <3> QED
      BY <2>6, <3>1, <3>2, PartsAlike
  <2> HIDE DEF u, row, thread
  <2>8. \A t : AtThread(e, t) <=> t = u
    BY <1>10 DEF AtThread, u
  <2>9. /\ DOMAIN new.threads = DOMAIN m.threads /\ DOMAIN model.threads = DOMAIN m.threads
        /\ new.threads[u] = row /\ model.threads[u] = thread
        /\ \A t \in DOMAIN m.threads : t # u => /\ new.threads[t] = tabs.threads[t]
                                                /\ model.threads[t] = m.threads[t]
    BY <1>3, <2>1, <2>2, <2>3
  <2>10. ThreadAgrees(new, u, thread, n + 1)
    <3>1. SameParts(RowsOf(new.threadMessages, u), RowsOf(new.threadProposedPlans, u),
                    RowsOf(new.threadActivities, u), SessionOf(new, u), thread, n + 1)
      BY <1>2, <2>7, <2>8
    <3> QED
      BY <2>5, <2>9, <3>1 DEF ThreadAgrees
  <2>11. \A t \in DOMAIN m.threads : t # u => ThreadAgrees(new, t, m.threads[t], n + 1)
    BY <1>7, <2>8, <2>9
  <2>12. \A t \in DOMAIN model.threads : ThreadAgrees(new, t, model.threads[t], n + 1)
    BY <2>9, <2>10, <2>11
  <2>13. \A t : t \notin DOMAIN model.threads => NoRows(new, t)
    BY <1>6, <2>1, <2>8, <2>9
  <2>14. Agree(new, model, n + 1)
    BY <1>1, <1>4, <2>9, <2>12, <2>13 DEF Agree
  <2> QED
    BY <2>14 DEF new, model
<1> QED
  BY <1>8, <1>9, <1>10

\* Before any event there is nothing.
LEMMA AgreeEmpty == Agree(EmptyTables, createEmptyReadModel, 0)
<1>1. \A x : x \notin DOMAIN <<>>
  BY NilFacts
<1>2. /\ EmptyTables.projects = <<>> /\ EmptyTables.threads = <<>> /\ EmptyTables.threadMessages = <<>>
      /\ EmptyTables.threadProposedPlans = <<>> /\ EmptyTables.threadActivities = <<>>
      /\ EmptyTables.threadSessions = <<>>
  BY DEF EmptyTables
<1>3. /\ IsModel(createEmptyReadModel) /\ createEmptyReadModel.projects = <<>>
      /\ createEmptyReadModel.threads = <<>>
  BY DEF createEmptyReadModel, IsModel
<1> HIDE DEF createEmptyReadModel, EmptyTables
<1>4. \A t : NoRows(EmptyTables, t)
  BY <1>1, <1>2 DEF NoRows, RowsOf, SessionOf
<1> QED
  BY <1>1, <1>2, <1>3, <1>4 DEF Agree

(***************************************************************************)
(* The events of a command, once more                                      *)
(***************************************************************************)

\* An id is that of messages of a user, or of messages of an assistant.
MessagesHaveOneRole ==
    \A n \in 0..MaxEvents : \A c \in Commands(n) :
        c.type \in {"thread.message.assistant.delta", "thread.message.assistant.complete"}
            => "messageId" \in DOMAIN c /\ c.messageId \notin UserMessages

\* No thread fills a list that the read model cuts.
RoomForAll ==
    /\ MaxEvents <= MAX_THREAD_MESSAGES /\ MaxEvents <= MAX_THREAD_PLANS
    /\ MaxEvents <= MAX_THREAD_ACTIVITIES

\* Folding a longer log is folding the rest into what the beginning gave.
LEMMA FoldLonger ==
    ASSUME NEW model, NEW d, NEW e, NEW ev, Len(d) \in Nat, Len(ev) \in Nat,
           Len(e) = Len(d) + Len(ev), \A i \in 1..Len(d) : e[i] = d[i],
           \A i \in 1..Len(ev) : e[Len(d) + i] = ev[i]
    PROVE  projectEvents(model, e) = projectEvents(projectEvents(model, d), ev)
<1> DEFINE m == projectEvents(model, d)
           n == Len(d)
<1>0. Len(e) \in Nat
  OBVIOUS
<1>1. PICK f : Models(f, model, e, Len(e)) /\ projectEvents(model, e) = f[Len(e)]
  BY <1>0, ProjectEventsModels
<1>2. PICK g : Models(g, model, d, n) /\ m = g[n]
  BY ProjectEventsModels
<1> HIDE DEF m
<1>3. PICK h : Models(h, m, ev, Len(ev)) /\ projectEvents(m, ev) = h[Len(ev)]
  BY ProjectEventsModels
<1>4. /\ f[0] = model /\ \A i \in 1..Len(e) : f[i] = projectEvent(f[i - 1], e[i])
      /\ g[0] = model /\ \A i \in 1..n : g[i] = projectEvent(g[i - 1], d[i])
      /\ h[0] = m /\ \A i \in 1..Len(ev) : h[i] = projectEvent(h[i - 1], ev[i])
  <2>1. f[0] = model /\ \A i \in 1..Len(e) : f[i] = projectEvent(f[i - 1], e[i])
    BY <1>0, <1>1, ModelsFacts
  <2>2. g[0] = model /\ \A i \in 1..n : g[i] = projectEvent(g[i - 1], d[i])
    BY <1>2, ModelsFacts
  <2>3. h[0] = m /\ \A i \in 1..Len(ev) : h[i] = projectEvent(h[i - 1], ev[i])
    BY <1>3, ModelsFacts
  <2> QED
    BY <2>1, <2>2, <2>3
<1> DEFINE T == {i \in Nat : i <= n => f[i] = g[i]}
           S == {i \in Nat : i <= Len(ev) => f[n + i] = h[i]}
<1>5. T = Nat
  <2>1. 0 \in T
    BY <1>4
  <2>2. ASSUME NEW i \in T PROVE i + 1 \in T
    <3> SUFFICES ASSUME i + 1 <= n PROVE f[i + 1] = g[i + 1]
      OBVIOUS
    <3>1. f[i] = g[i] /\ i + 1 \in 1..n /\ i + 1 \in 1..Len(e) /\ (i + 1) - 1 = i
      OBVIOUS
    <3> QED
      BY <1>4, <3>1
  <2>3. T \subseteq Nat
    OBVIOUS
  <2> HIDE DEF T
  <2> QED
    BY <2>1, <2>2, <2>3, SetInduction
<1>6. f[n] = m
  BY <1>2, <1>5
<1>7. S = Nat
  <2>1. 0 \in S
    BY <1>4, <1>6
  <2>2. ASSUME NEW i \in S PROVE i + 1 \in S
    <3> SUFFICES ASSUME i + 1 <= Len(ev) PROVE f[n + (i + 1)] = h[i + 1]
      OBVIOUS
    <3>1. f[n + i] = h[i] /\ i + 1 \in 1..Len(ev) /\ n + (i + 1) \in 1..Len(e) /\ (i + 1) - 1 = i
          /\ (n + (i + 1)) - 1 = n + i
      OBVIOUS
    <3>2. f[n + (i + 1)] = projectEvent(f[n + i], e[n + (i + 1)])
      BY <1>4, <3>1
    <3> QED
      BY <1>4, <3>1, <3>2
  <2>3. S \subseteq Nat
    OBVIOUS
  <2> HIDE DEF S
  <2> QED
    BY <2>1, <2>2, <2>3, SetInduction
<1>8. f[Len(e)] = h[Len(ev)]
  BY <1>7, SMTT(30)
<1> QED
  BY <1>1, <1>3, <1>8 DEF m

\* The events of a command are one or two.
LEMMA FoldTwo ==
    ASSUME NEW m, NEW ev, Len(ev) \in 1..2
    PROVE  projectEvents(m, ev) = IF Len(ev) = 1 THEN projectEvent(m, ev[1])
                                  ELSE projectEvent(projectEvent(m, ev[1]), ev[2])
<1>0. Len(ev) \in Nat
  OBVIOUS
<1>1. PICK h : Models(h, m, ev, Len(ev)) /\ projectEvents(m, ev) = h[Len(ev)]
  BY <1>0, ProjectEventsModels
<1>2. h[0] = m /\ \A i \in 1..Len(ev) : h[i] = projectEvent(h[i - 1], ev[i])
  BY <1>0, <1>1, ModelsFacts
<1>3. h[1] = projectEvent(m, ev[1])
  <2>1. 1 \in 1..Len(ev) /\ 1 - 1 = 0
    OBVIOUS
  <2> QED
    BY <1>2, <2>1
<1>4. CASE Len(ev) = 1
  BY <1>1, <1>3, <1>4
<1>5. CASE Len(ev) = 2
  <2>1. 2 \in 1..Len(ev) /\ 2 - 1 = 1
    BY <1>5
  <2>2. h[2] = projectEvent(h[1], ev[2])
    BY <1>2, <2>1
  <2> QED
    BY <1>1, <1>3, <1>5, <2>2
<1> QED
  BY <1>4, <1>5

\* Which commands send messages, and create threads.
LEMMA MoreEventTypes ==
    ASSUME NEW type \in DOMAIN EventTypeOf
    PROVE  /\ EventTypeOf[type] = "thread.message-sent"
                 => type \in {"thread.message.assistant.delta", "thread.message.assistant.complete"}
           /\ type = "thread.create" => EventTypeOf[type] = "thread.created"
<1>1. <<type, EventTypeOf[type]>> \in CommandEvents
  BY EventTypes
<1> QED
  BY <1>1 DEF CommandEvents

\* The role of the message that a command of the provider sends.
LEMMA ProviderRole ==
    ASSUME NEW model, NEW c,
           c.type \in {"thread.message.assistant.delta", "thread.message.assistant.complete"}
    PROVE  LET e == EventOf(model, c)
           IN  "role" \in DOMAIN e /\ e.role = "assistant"
<1> DEFINE p == PayloadPatch(model, c)
<1>1. "role" \in DOMAIN p /\ p.role = "assistant"
  BY DEF PayloadPatch
<1> HIDE DEF p
<1> QED
  BY <1>1 DEF EventOf, Patch, Put, p

\* The events of a command that the base invariant says nothing of.
LEMMA EventsMore ==
    ASSUME Len(log) \in 0..MaxEvents, NEW c \in Commands(Len(log)), NEW i \in 1..Len(EventsOf(c))
    PROVE  LET e == EventsOf(c)[i]
           IN  /\ MessagesHaveOneRole /\ e.type = "thread.message-sent" => e.role = RoleOf(e.messageId)
               /\ c.type = "thread.create" => e.type = "thread.created"
<1> DEFINE bases == decideOrchestrationCommand(readModel, c)
           main == EventOf(readModel, c)
           user == UserMessageEvent(c)
           e == EventsOf(c)[i]
           base == bases[i]
<1>1. c.type \in DOMAIN EventTypeOf /\ (c.type = "thread.turn.start" => "messageId" \in DOMAIN c)
  BY CommandsAssumption
<1>2. IF c.type = "thread.turn.start" THEN bases = <<user, main>> ELSE bases = <<main>>
  BY DEF decideOrchestrationCommand
<1>3. Len(EventsOf(c)) = Len(bases) /\ i \in 1..Len(bases) /\ e = Put(base, "sequence", Len(log) + i)
      /\ base \in {main, user} /\ (base = user => c.type = "thread.turn.start" \/ base = main)
  <2> HIDE DEF main, user
  <2>1. IsSeq(bases) /\ DOMAIN bases = 1..Len(bases) /\ Len(bases) \in Nat
    BY <1>2, PairFacts, SingletonFacts, SeqDomain
  <2> DEFINE events == [k \in 1..Len(bases) |-> Put(bases[k], "sequence", Len(log) + k)]
  <2>2. EventsOf(c) = events
    BY <2>1 DEF EventsOf
  <2>3. events = [k \in 1..Len(bases) |-> events[k]]
    OBVIOUS
  <2>4. Len(events) = Len(bases)
    <3> HIDE DEF events, bases
    <3> QED
      BY <2>1, <2>3, MapFacts
  <2>5. i \in 1..Len(bases)
    BY <2>2, <2>4
  <2>6. e = Put(base, "sequence", Len(log) + i)
    BY <2>2, <2>5
  <2>7. base \in {main, user} /\ (base = user => c.type = "thread.turn.start" \/ base = main)
    <3>1. CASE c.type = "thread.turn.start"
      <4>1. bases = <<user, main>>
        BY <1>2, <3>1
      <4> HIDE DEF bases
      <4>2. Len(bases) = 2 /\ bases[1] = user /\ bases[2] = main
        BY <4>1, PairFacts
      <4>3. i \in 1..2
        BY <2>5, <4>2
      <4> QED
        BY <3>1, <4>2, <4>3
    <3>2. CASE c.type # "thread.turn.start"
      <4>1. bases = <<main>>
        BY <1>2, <3>2
      <4> HIDE DEF bases
      <4>2. Len(bases) = 1 /\ bases[1] = main
        BY <4>1, SingletonFacts
      <4>3. i \in 1..1
        BY <2>5, <4>2
      <4> QED
        BY <4>2, <4>3
    <3> QED
      BY <3>1, <3>2
  <2> QED
    BY <2>2, <2>4, <2>5, <2>6, <2>7
<1>4. /\ \A x : x \notin PayloadFields => (x \in DOMAIN base <=> x \in DOMAIN c)
      /\ \A x \in DOMAIN c : x \notin PayloadFields => base[x] = c[x]
      /\ "type" \in DOMAIN base
      /\ base = main => base.type = EventTypeOf[c.type]
      /\ base = user => "role" \in DOMAIN base /\ base.type = "thread.message-sent" /\ base.role = "user"
  <2>1. KeepsPayload(main, c) /\ main.type = EventTypeOf[c.type]
    BY EventFields DEF KeepsPayload
  <2>2. /\ KeepsPayload(user, c)
        /\ "role" \in DOMAIN user /\ user.type = "thread.message-sent" /\ user.role = "user"
    BY EventFields DEF KeepsPayload
  <2> HIDE DEF main, user, base
  <2> QED
    BY <1>3, <2>1, <2>2 DEF KeepsPayload
<1>5. base = main /\ c.type \in {"thread.message.assistant.delta", "thread.message.assistant.complete"}
         => "role" \in DOMAIN base /\ base.role = "assistant"
  BY ProviderRole
<1> HIDE DEF bases, main, user, base, e
<1>6. /\ \A x \in DOMAIN base : x # "sequence" => e[x] = base[x]
  BY <1>3 DEF Put
<1>7. "messageId" \in DOMAIN c => e.messageId = c.messageId
  BY <1>4, <1>6 DEF PayloadFields
<1>8. e.type = base.type
  BY <1>4, <1>6
<1>9. CASE base = main
  <2>1. e.type = EventTypeOf[c.type]
    BY <1>4, <1>8, <1>9
  <2>2. ASSUME MessagesHaveOneRole, e.type = "thread.message-sent" PROVE e.role = RoleOf(e.messageId)
    <3>1. c.type \in {"thread.message.assistant.delta", "thread.message.assistant.complete"}
      BY <1>1, <2>1, <2>2, MoreEventTypes
    <3>2. "messageId" \in DOMAIN c /\ c.messageId \notin UserMessages
      BY <2>2, <3>1 DEF MessagesHaveOneRole
    <3>3. e.role = "assistant"
      BY <1>5, <1>6, <1>9, <3>1
    <3> QED
      BY <1>7, <3>2, <3>3 DEF RoleOf
  <2> QED
    BY <1>1, <2>1, <2>2, MoreEventTypes DEF e
<1>10. CASE base # main
  <2>1. base = user /\ c.type = "thread.turn.start"
    BY <1>3, <1>10
  <2>2. e.role = "user"
    BY <1>4, <1>6, <2>1
  <2>3. c.messageId \in UserMessages
    BY <2>1 DEF UserMessages
  <2> QED
    BY <1>1, <1>7, <2>1, <2>2, <2>3 DEF RoleOf, e
<1> QED
  BY <1>9, <1>10

(***************************************************************************)
(* The tables agree with the read model                                    *)
(***************************************************************************)

\* The read model that the log gives.
Folded == projectEvents(createEmptyReadModel, log)

\* Replaying the log into the tables and folding it into a read model tell the same, and
\* the engine has that read model.
AgreeInv ==
    /\ Agree(replayed.tables, Folded, Len(log))
    /\ PositiveTable(replayed.tables)
    /\ status = "running" => readModel = Folded

\* It holds in the beginning.
LEMMA InitAgree == Init => AgreeInv
<1> SUFFICES ASSUME Init PROVE AgreeInv
  OBVIOUS
<1>1. log = <<>> /\ replayed.tables = EmptyTables /\ status # "running"
  BY DEF Init, NothingProjected
<1>2. Len(log) = 0
  BY <1>1, NilFacts
<1>3. Folded = createEmptyReadModel
  <2>1. PICK f : Models(f, createEmptyReadModel, log, Len(log)) /\ Folded = f[Len(log)]
    BY <1>2, ProjectEventsModels DEF Folded
  <2>2. 0 \in Nat
    OBVIOUS
  <2>3. f[0] = createEmptyReadModel
    BY <1>2, <2>1, <2>2, ModelsFacts
  <2> QED
    BY <1>2, <2>1, <2>3
<1>4. Agree(EmptyTables, createEmptyReadModel, 0)
  BY AgreeEmpty
<1>5. PositiveTable(EmptyTables)
  <2>1. DOMAIN EmptyTables.threadTurns = {}
    BY EmptyFacts
  <2> HIDE DEF EmptyTables
  <2> QED
    BY <2>1 DEF PositiveTable
<1> QED
  BY <1>1, <1>2, <1>3, <1>4, <1>5 DEF AgreeInv

\* The threads that a command is of are there, and only a new one is created.
LEMMA CommandInPlace ==
    ASSUME NEW n \in 0..MaxEvents, NEW c \in Commands(n), NEW ev, EventsOK(ev, c, n), NEW m, Accepts(m, c),
           c.type = "thread.create" => ev[1].type = "thread.created"
    PROVE  InPlace(ev[1], DOMAIN m.threads)
<1> SUFFICES ASSUME OfThread(ev[1])
             PROVE  ev[1].type = "thread.created" <=> ev[1].threadId \notin DOMAIN m.threads
  BY DEF InPlace
<1>1. 1 \in 1..Len(ev)
  BY DEF EventsOK
<1>2. /\ OfThread(c) /\ ev[1].threadId = c.threadId
      /\ ev[1].type = "thread.created" <=> c.type = "thread.create"
  BY <1>1 DEF EventsOK
<1>3. c.type \notin {"project.create", "project.meta.update", "project.delete"}
  BY <1>2, CommandsAssumption
<1>4. c.type = "thread.create" <=> c.threadId \notin DOMAIN m.threads
  BY <1>3 DEF Accepts, requireThread, requireThreadAbsent, requireThreadArchived, requireThreadNotArchived
<1> QED
  BY <1>2, <1>4

\* The events of a command keep the tables and the model in agreement.
LEMMA AgreeTwice ==
    ASSUME NEW tabs, TablesOK(tabs), PositiveTable(tabs), NEW m, NEW n \in Nat, Agree(tabs, m, n),
           NEW c, NEW ev, EventsOK(ev, c, n),
           \A i \in 1..Len(ev) : EventFits(ev[i]),
           InPlace(ev[1], DOMAIN m.threads), RoomForAll, n + Len(ev) <= MaxEvents
    PROVE  /\ Agree(Twice(tabs, ProjectorNames, ev), projectEvents(m, ev), n + Len(ev))
           /\ PositiveTable(Twice(tabs, ProjectorNames, ev))
<1> DEFINE one == After(tabs, ProjectorNames, ev[1])
           two == After(one, ProjectorNames, ev[2])
           m1 == projectEvent(m, ev[1])
           m2 == projectEvent(m1, ev[2])
<1>1. /\ Len(ev) = 1 \/ Len(ev) = 2
      /\ EventOK(ev[1]) /\ (Len(ev) = 2 => EventOK(ev[2]))
      /\ EventFits(ev[1]) /\ (Len(ev) = 2 => EventFits(ev[2]))
  BY DEF EventsOK
<1>2. Room(n) /\ (Len(ev) = 2 => Room(n + 1))
  BY <1>1, CapsAssumption, ProjectionAssumption DEF RoomForAll, Room
<1>3. projectEvents(m, ev) = IF Len(ev) = 1 THEN m1 ELSE m2
  BY <1>1, FoldTwo
<1>4. Agree(one, m1, n + 1)
  BY <1>1, <1>2, AgreeStep
<1>5. TablesOK(one) /\ PositiveTable(one)
  BY <1>1, AfterSteps, SteppedOK, PositiveStepped DEF EventFits
<1>6. CASE Len(ev) = 1
  BY <1>3, <1>4, <1>5, <1>6 DEF Twice
<1>7. CASE Len(ev) = 2
  <2>1. /\ ev[1].type = "thread.message-sent" /\ ev[2].type = "thread.turn-start-requested"
        /\ 1 \in 1..Len(ev) /\ 2 \in 1..Len(ev)
    BY <1>7 DEF EventsOK
  <2>2. OfThread(ev[1]) /\ OfThread(ev[2])
    BY <1>1, <1>7, <2>1 DEF EventOK, ProjectEventTypes
  <2>3. ev[1].threadId = c.threadId /\ ev[2].threadId = c.threadId
    BY <2>1, <2>2 DEF EventsOK
  <2>4. c.threadId \in DOMAIN m.threads
    BY <2>1, <2>2, <2>3 DEF InPlace
  <2>5. DOMAIN m1.threads = DOMAIN m.threads
    <3>1. m1.threads = ThreadsOfModelAfter(m.threads, ev[1])
      BY <1>1, ProjectEventEffects DEF Agree
    <3> HIDE DEF m1
    <3> QED
      BY <2>1, <3>1 DEF ThreadsOfModelAfter
  <2> HIDE DEF one, m1
  <2>6. InPlace(ev[2], DOMAIN m1.threads)
    BY <2>1, <2>3, <2>4, <2>5 DEF InPlace
  <2>7. n + 1 \in Nat /\ (n + 1) + 1 = n + 2
    OBVIOUS
  <2>8. Agree(two, m2, n + 2)
    BY <1>1, <1>2, <1>4, <1>5, <1>7, <2>6, <2>7, AgreeStep
  <2>9. PositiveTable(two)
    BY <1>1, <1>5, <1>7, AfterSteps, PositiveStepped DEF EventFits, TablesOK
  <2> QED
    BY <1>3, <1>7, <2>8, <2>9 DEF Twice, one
<1> QED
  BY <1>1, <1>6, <1>7

\* Who changes the read model, or starts to serve.
LEMMA WhoServes ==
    ASSUME [Next]_vars
    PROVE  \/ \E c \in Commands(Len(log)) : dispatch(c)
           \/ Serve
           \/ status' # "running" /\ UNCHANGED <<log, replayed>>
           \/ UNCHANGED <<status, readModel, log, replayed>>
<1>1. CASE UNCHANGED vars
  BY <1>1 DEF vars, database
<1>2. ASSUME NEW c \in Commands(Len(log)), Upload(c) \/ DispatchRolledBack(c)
      PROVE  UNCHANGED <<status, readModel, log, replayed>>
  BY <1>2 DEF Upload, DispatchRolledBack, database
<1>3. CASE Crash
  BY <1>3 DEF Crash, database
<1>4. CASE Upgrade
  BY <1>4 DEF Upgrade, database
<1>5. CASE Start
  BY <1>5 DEF Start, database
<1>6. CASE BootstrapEvent
  BY <1>6 DEF BootstrapEvent
<1>7. CASE RunAttachmentSideEffects \/ NextProjector
  BY <1>7 DEF RunAttachmentSideEffects, NextProjector, database
<1> QED
  BY <1>1, <1>2, <1>3, <1>4, <1>5, <1>6, <1>7 DEF Next, BootstrapStep

\* Every step keeps it.
LEMMA AgreeInvStep ==
    ASSUME BaseInv, AgreeInv, RevertsKeepNothing, MessagesHaveOneRole, RoomForAll, [Next]_vars
    PROVE  AgreeInv'
<1>1. /\ Agree(replayed.tables, Folded, Len(log)) /\ PositiveTable(replayed.tables)
      /\ status = "running" => readModel = Folded
  BY DEF AgreeInv
<1>2. Len(log) \in Nat /\ Len(log) \in 0..MaxEvents /\ TablesOK(replayed.tables)
  BY SeqDomain, ProjectionAssumption DEF BaseInv, LogInv, TableInv
<1>3. ASSUME NEW c \in Commands(Len(log)), dispatch(c) PROVE AgreeInv'
  <2> DEFINE ev == EventsOf(c)
  <2>1. Dispatched(c, ev)
    BY <1>3, DispatchFacts
  <2>2. \A i \in 1..Len(ev) : /\ ev[i].type = "thread.message-sent" => ev[i].role = RoleOf(ev[i].messageId)
                              /\ c.type = "thread.create" => ev[i].type = "thread.created"
    BY <1>2, EventsMore
  <2> HIDE DEF ev
  <2>3. /\ EventsOK(ev, c, Len(log)) /\ Len(log') = Len(log) + Len(ev) /\ Len(log') <= MaxEvents
        /\ \A i \in 1..Len(log) : log'[i] = log[i]
        /\ \A i \in 1..Len(ev) : log'[Len(log) + i] = ev[i]
        /\ replayed'.tables = Twice(replayed.tables, ProjectorNames, ev)
        /\ readModel' = projectEvents(readModel, ev)
        /\ status = "running" /\ Accepts(readModel, c)
    BY <2>1 DEF Dispatched
  <2>4. Len(ev) \in Nat /\ 1 \in 1..Len(ev)
    BY <2>3 DEF EventsOK
  <2>5. readModel = Folded
    BY <1>1, <2>3
  <2>6. \A i \in 1..Len(ev) : EventFits(ev[i])
    BY <1>2, <2>2, <2>3, EventKeepsNothing DEF EventFits
  <2>7. InPlace(ev[1], DOMAIN readModel.threads)
    BY <1>2, <2>2, <2>3, <2>4, CommandInPlace
  <2>8. projectEvents(createEmptyReadModel, log') = projectEvents(Folded, ev)
    BY <1>2, <2>3, <2>4, FoldLonger DEF Folded
  <2>9. Folded' = projectEvents(Folded, ev) /\ readModel' = Folded'
    BY <2>3, <2>5, <2>8 DEF Folded
  <2>10. /\ Agree(replayed'.tables, Folded', Len(log')) /\ PositiveTable(replayed'.tables)
    BY <1>1, <1>2, <2>3, <2>5, <2>6, <2>7, <2>9, AgreeTwice
  <2> QED
    BY <2>9, <2>10 DEF AgreeInv, PositiveTable
<1>4. ASSUME UNCHANGED <<log, replayed>>, status' = "running" => readModel' = Folded
      PROVE  AgreeInv'
  <2>1. Folded' = Folded
    BY <1>4 DEF Folded
  <2> QED
    BY <1>1, <1>4, <2>1 DEF AgreeInv, PositiveTable
<1>5. CASE Serve
  BY <1>4, <1>5 DEF Serve, database, Folded
<1> QED
  BY <1>1, <1>3, <1>4, <1>5, WhoServes

\* The tables of a server that runs are those of a replay.
LEMMA AgreementMeansAgree ==
    ASSUME AgreeInv, TablesAreReplay PROVE SqlAgreesWithReadModel
<1> SUFFICES ASSUME UpToDate
             PROVE  /\ tables.projects = readModel.projects
                    /\ DOMAIN tables.threads = DOMAIN readModel.threads
                    /\ \A t \in DOMAIN readModel.threads :
                          LET row == tables.threads[t]
                              thread == readModel.threads[t]
                          IN  /\ \A field \in {"projectId", "meta", "runtimeMode", "interactionMode",
                                               "archived", "deleted"} : row[field] = thread[field]
                              /\ SnapshotMessages(t) = thread.messages
                              /\ RowsOf(tables.threadProposedPlans, t) = thread.proposedPlans
                              /\ RowsOf(tables.threadActivities, t) = thread.activities
                              /\ SnapshotSession(t) = thread.session
  BY DEF SqlAgreesWithReadModel
<1>1. tables = replayed.tables /\ readModel = Folded
  BY DEF TablesAreReplay, UpToDate, AgreeInv
<1>2. Agree(tables, readModel, Len(log))
  BY <1>1 DEF AgreeInv
<1>3. tables.projects = readModel.projects /\ DOMAIN tables.threads = DOMAIN readModel.threads
  BY <1>2 DEF Agree
<1>4. ASSUME NEW t \in DOMAIN readModel.threads
      PROVE  LET row == tables.threads[t]
                 thread == readModel.threads[t]
             IN  /\ \A field \in {"projectId", "meta", "runtimeMode", "interactionMode",
                                  "archived", "deleted"} : row[field] = thread[field]
                 /\ SnapshotMessages(t) = thread.messages
                 /\ RowsOf(tables.threadProposedPlans, t) = thread.proposedPlans
                 /\ RowsOf(tables.threadActivities, t) = thread.activities
                 /\ SnapshotSession(t) = thread.session
  <2> DEFINE thread == readModel.threads[t]
             rows == RowsOf(tables.threadMessages, t)
  <2>1. ThreadAgrees(tables, t, thread, Len(log))
    BY <1>2 DEF Agree
  <2>2. \A field \in RowFields : tables.threads[t][field] = thread[field]
    BY <2>1 DEF ThreadAgrees, SameFields
  <2>3. SameParts(rows, RowsOf(tables.threadProposedPlans, t),
                  RowsOf(tables.threadActivities, t), SessionOf(tables, t), thread, Len(log))
    BY <2>1 DEF ThreadAgrees
  <2>4. /\ thread.messages = [i \in DOMAIN rows |-> MessageOf(rows[i])]
        /\ RowsOf(tables.threadProposedPlans, t) = thread.proposedPlans
        /\ RowsOf(tables.threadActivities, t) = thread.activities
        /\ SessionOf(tables, t) = thread.session
    BY <2>3 DEF SameParts, SameMessages
  <2>5. SnapshotMessages(t) = [i \in DOMAIN rows |-> MessageOf(rows[i])]
    BY Zenon DEF SnapshotMessages, MessageOf
  <2>6. SnapshotSession(t) = SessionOf(tables, t)
    BY DEF SnapshotSession, SessionOf
  <2> QED
    BY <2>2, <2>4, <2>5, <2>6 DEF RowFields
<1> QED
  BY <1>3, <1>4

\* ProjectionPipeline, projector: what getSnapshot tells of projects, threads, messages, plans, activities
\* and sessions is what the server decides against, after every command and every start, for every log.
\* The hypotheses are where the code lets the two differ: a projector that does not catch up, a revert
\* that keeps some turns, a message id that users and assistants share, a list that the model cuts.
THEOREM SqlAgreesWithReadModelHolds ==
    ASSUME CatchesUp, RevertsKeepNothing, MessagesHaveOneRole, RoomForAll
    PROVE  Spec => []SqlAgreesWithReadModel
<1>1. Init => BaseInv /\ AgreeInv
  BY InitBase, InitAgree
<1>2. BaseInv /\ AgreeInv /\ [Next]_vars => (BaseInv /\ AgreeInv)'
  BY BaseStep, AgreeInvStep
<1>3. AgreeInv /\ TablesAreReplay => SqlAgreesWithReadModel
  BY AgreementMeansAgree
<1>4. ReadsAlike
  BY DEF ReadsAlike
<1> QED
  BY <1>1, <1>2, <1>3, <1>4, TablesAreReplayHolds, PTL DEF Spec

(***************************************************************************)
(* The attachment files after an event                                     *)
(***************************************************************************)

\* The projectors that remove files were there from the beginning.
FilesWereThere == {"threadMessages", "threads"} \subseteq InitiallyInstalled

\* The row of a thread tells that it is deleted.
IsDeleted(tabs, t) ==
    t \in DOMAIN tabs.threads /\ "deleted" \in DOMAIN tabs.threads[t] /\ tabs.threads[t].deleted

\* The attachments of the rows of a thread are on disk, unless the thread is deleted.
FilesFit(tabs, disk) ==
    \A t : ~IsDeleted(tabs, t) => AttachmentsOf(RowsOf(tabs.threadMessages, t), t) \subseteq disk

\* What the two projectors with side effects remove.
Removed(tabs, e, disk) ==
    AttachmentSideEffects("threadMessages", tabs, e, disk) \cup AttachmentSideEffects("threads", tabs, e, disk)

\* No other projector removes files.
LEMMA NoSideEffects ==
    ASSUME NEW p, p \notin {"threadMessages", "threads"}, NEW tabs, NEW e, NEW disk
    PROVE  AttachmentSideEffects(p, tabs, e, disk) = {}
BY DEF AttachmentSideEffects

\* An event removes what these two remove, whoever else takes it.
LEMMA FilesThrough ==
    ASSUME NEW store, NEW names, NEW e, IsTables(store.tables), IsCursor(store.cursor),
           {"threadMessages", "threads"} \subseteq names
    PROVE  projectThrough(store, names, e, Len(projectors)).files
              = store.files \ Removed(store.tables, e, store.files)
<1> DEFINE Effects(p, tabs, disk) == AttachmentSideEffects(p, tabs, e, disk)
           disk == store.files
<1>1. PICK f : Stores(f, store, names, e, 9) /\ projectThrough(store, names, e, 9) = f[9]
  BY ThroughStores
<1>2. /\ f[0] = store
      /\ \A i \in 1..9 : f[i] = IF projectors[i] \in names
                                  THEN runProjectorForEvent(f[i - 1], projectors[i], e) ELSE f[i - 1]
  BY <1>1, StoresFacts
<1>3. Len(projectors) = 9 /\ projectors[2] = "threadMessages" /\ projectors[9] = "threads"
      /\ projectors[6] = "threadTurns"
      /\ \A i, j \in 1..9 : projectors[i] = projectors[j] => i = j
  BY NamesFacts DEF projectors
<1> HIDE DEF projectors
<1>4. \A i \in 1..9 : projectors[i] \in names
         => f[i].files = f[i - 1].files \ Effects(projectors[i], f[i - 1].tables, f[i - 1].files)
  BY <1>2, SMTT(30) DEF runProjectorForEvent
<1>5. ASSUME NEW i \in 1..9, i # 2, i # 9 PROVE f[i].files = f[i - 1].files
  <2>1. projectors[i] \notin {"threadMessages", "threads"}
    BY <1>3, <1>5
  <2>2. CASE projectors[i] \in names
    BY <1>4, <2>1, <2>2, NoSideEffects
  <2>3. CASE projectors[i] \notin names
    BY <1>2, <2>3
  <2> QED
    BY <2>2, <2>3
<1>6. f[1].files = disk /\ f[8].files = f[2].files
  <2>1. 1 - 1 = 0 /\ 3 - 1 = 2 /\ 4 - 1 = 3 /\ 5 - 1 = 4 /\ 6 - 1 = 5 /\ 7 - 1 = 6 /\ 8 - 1 = 7
    OBVIOUS
  <2>2. f[1].files = f[0].files
    BY <1>5, <2>1
  <2>3. f[3].files = f[2].files /\ f[4].files = f[3].files /\ f[5].files = f[4].files
        /\ f[6].files = f[5].files /\ f[7].files = f[6].files /\ f[8].files = f[7].files
    BY <1>5, <2>1
  <2> QED
    BY <1>2, <2>2, <2>3
<1>7. f[2].files = disk \ Effects("threadMessages", store.tables, disk)
  <2>1. f[2].files = f[1].files \ Effects("threadMessages", f[1].tables, f[1].files)
    <3>1. 2 - 1 = 1 /\ 2 \in 1..9
      OBVIOUS
    <3> QED
      BY <1>3, <1>4, <3>1
  <2>2. f[1].tables.threadMessages = store.tables.threadMessages
        /\ f[1].tables.threadTurns = store.tables.threadTurns
    <3>1. f[1] = IF projectors[1] \in names THEN runProjectorForEvent(store, projectors[1], e) ELSE store
      <4>1. 1 - 1 = 0 /\ 1 \in 1..9
        OBVIOUS
      <4> QED
        BY <1>2, <4>1
    <3>2. projectors[1] \in ProjectorNames /\ projectors[1] # "threadMessages" /\ projectors[1] # "threadTurns"
      BY <1>3, NamesFacts
    <3>3. CASE projectors[1] \in names
      <4>1. f[1].tables = apply(projectors[1], store.tables, e)
        BY <3>1, <3>3 DEF runProjectorForEvent
      <4>2. \A q \in TableNames : q # projectors[1] => f[1].tables[q] = store.tables[q]
        BY <3>2, <4>1, ApplyWrites
      <4> QED
        BY <3>2, <4>2, NamesFacts
    <3> QED
      BY <3>1, <3>3
  <2>3. Effects("threadMessages", f[1].tables, disk) = Effects("threadMessages", store.tables, disk)
    BY <2>2 DEF AttachmentSideEffects, TurnsOf
  <2> QED
    BY <1>6, <2>1, <2>3
<1>8. f[9].files = f[2].files \ Effects("threads", f[8].tables, f[2].files)
  <2>1. 9 - 1 = 8 /\ 9 \in 1..9
    OBVIOUS
  <2> QED
    BY <1>3, <1>4, <1>6, <2>1
<1>9. f[2].files \ Effects("threads", f[8].tables, f[2].files)
        = f[2].files \ Effects("threads", store.tables, disk)
  <2>1. f[2].files \subseteq disk
    BY <1>7
  <2> QED
    BY <2>1 DEF AttachmentSideEffects
<1> QED
  BY <1>1, <1>3, <1>7, <1>8, <1>9 DEF Removed

\* A message that is sent has the attachments of the event, or those it had.
LEMMA SentAttachments ==
    ASSUME NEW rows, IsSeq(rows), NEW e, NEW t
    PROVE  AttachmentsOf(UpsertById(rows, MessageRow(rows, e)), t)
              \subseteq AttachmentsOf(rows, t)
                          \cup (IF "attachments" \in DOMAIN e THEN e.attachments ELSE {})
<1> DEFINE row == MessageRow(rows, e)
           new == UpsertById(rows, row)
           sent == IF "attachments" \in DOMAIN e THEN e.attachments ELSE {}
           All == UNION {rows[i].attachments : i \in DOMAIN rows}
<1>1. row.id = e.messageId
  BY DEF MessageRow
<1>2. row.attachments \subseteq sent \cup All
  <2>1. CASE "attachments" \in DOMAIN e
    BY <2>1 DEF MessageRow
  <2>2. CASE "attachments" \notin DOMAIN e /\ e.messageId \in Ids(rows)
    <3> DEFINE old == CHOOSE i \in DOMAIN rows : rows[i].id = e.messageId
    <3>1. old \in DOMAIN rows
      BY <2>2 DEF Ids
    <3>2. row.attachments = rows[old].attachments
      BY <2>2 DEF MessageRow
    <3> HIDE DEF old, row
    <3> QED
      BY <3>1, <3>2
  <2>3. CASE "attachments" \notin DOMAIN e /\ e.messageId \notin Ids(rows)
    BY <2>3 DEF MessageRow
  <2> QED
    BY <2>1, <2>2, <2>3
<1> HIDE DEF row
<1>3. \A i \in DOMAIN new : new[i] = row \/ \E j \in DOMAIN rows : new[i] = rows[j]
  <2>1. CASE row.id \in Ids(rows)
    <3>1. new = [i \in DOMAIN rows |-> IF rows[i].id = row.id THEN row ELSE rows[i]]
      BY <2>1 DEF UpsertById
    <3> HIDE DEF new
    <3> QED
      BY <3>1
  <2>2. CASE row.id \notin Ids(rows)
    <3>1. new = Append(rows, row)
      BY <2>2 DEF UpsertById
    <3>2. DOMAIN rows = 1..Len(rows) /\ Len(rows) \in Nat
      BY SeqDomain
    <3>3. /\ IsSeq(new) /\ Len(new) = Len(rows) + 1
          /\ \A i \in 1..Len(rows) : new[i] = rows[i]
          /\ new[Len(rows) + 1] = row
      BY <3>1, AppendFacts
    <3> HIDE DEF new
    <3>4. DOMAIN new = 1..(Len(rows) + 1)
      BY <3>3, SeqDomain
    <3>5. ASSUME NEW i \in DOMAIN new PROVE new[i] = row \/ \E j \in DOMAIN rows : new[i] = rows[j]
      <4>1. i \in 1..Len(rows) \/ i = Len(rows) + 1
        BY <3>2, <3>4
      <4> QED
        BY <3>2, <3>3, <4>1
    <3> QED
      BY <3>5
  <2> QED
    BY <2>1, <2>2
<1> HIDE DEF new, sent
<1>4. ASSUME NEW file \in AttachmentsOf(new, t) PROVE file \in AttachmentsOf(rows, t) \cup sent
  <2>1. PICK i \in DOMAIN new : file \in new[i].attachments
    BY DEF AttachmentsOf
  <2>2. file.threadId = t
    BY DEF AttachmentsOf
  <2>3. file \in sent \cup All
    BY <1>2, <1>3, <2>1
  <2> QED
    BY <2>2, <2>3 DEF AttachmentsOf
<1> QED
  BY <1>4 DEF new, row, sent

\* What is kept of messages has attachments of theirs.
LEMMA KeptAttachments ==
    ASSUME NEW rows, IsSeq(rows), NEW turns, NEW count, NEW t
    PROVE  AttachmentsOf(retainProjectionMessagesAfterRevert(rows, turns, count), t)
              \subseteq AttachmentsOf(rows, t)
<1> DEFINE new == retainProjectionMessagesAfterRevert(rows, turns, count)
<1>1. PICK K : K \subseteq DOMAIN rows /\ new = Entries(rows, K)
  BY DEF retainProjectionMessagesAfterRevert, RetainMessages, Filter
<1> HIDE DEF new
<1>2. \A i \in DOMAIN new : \E j \in K : new[i] = rows[j]
  BY <1>1, FilterFacts
<1>3. AttachmentsOf(new, t) \subseteq AttachmentsOf(rows, t)
  BY <1>1, <1>2 DEF AttachmentsOf
<1> QED
  BY <1>3 DEF new

\* No event restores a thread that was deleted.
LEMMA DeletingPatch ==
    ASSUME NEW e
    PROVE  "deleted" \in DOMAIN ThreadRowPatch(e) => ThreadRowPatch(e).deleted = TRUE
<1> DEFINE q == ThreadRowPatch(e)
<1>0. DOMAIN NoPatch = {}
  BY NilFacts DEF NoPatch
<1> HIDE DEF NoPatch
<1>1. CASE e.type = "thread.deleted"
  BY <1>1 DEF ThreadRowPatch
<1>2. CASE e.type # "thread.deleted"
  <2>1. "deleted" \notin DOMAIN q
    BY <1>0, <1>2, SMTT(30) DEF ThreadRowPatch
  <2> QED
    BY <2>1
<1> QED
  BY <1>1, <1>2

\* One event keeps the files of rows, if those that it brings are there.
LEMMA FilesStep ==
    ASSUME NEW tabs, TablesOK(tabs), \A t : IsSeq(RowsOf(tabs.threadMessages, t)),
           NEW disk, FilesFit(tabs, disk), NEW names,
           {"threadMessages", "threads"} \subseteq names, NEW e, EventOK(e),
           InPlace(e, DOMAIN tabs.threads),
           e.type = "thread.message-sent" /\ "attachments" \in DOMAIN e => e.attachments \subseteq disk
    PROVE  LET new == After(tabs, names, e)
           IN  /\ FilesFit(new, disk \ Removed(tabs, e, disk))
               /\ e.type # "thread.deleted" /\ e.type # "thread.reverted" => Removed(tabs, e, disk) = {}
               /\ \A t : IsSeq(RowsOf(new.threadMessages, t))
               /\ DOMAIN new.threads = DOMAIN tabs.threads
                                         \cup (IF e.type = "thread.created" THEN {e.threadId} ELSE {})
<1> DEFINE new == After(tabs, names, e)
           u == e.threadId
           rows == RowsOf(tabs.threadMessages, u)
           turns == TurnsOf(tabs, u)
           rows2 == MessagesAfter(rows, turns, e)
           left == disk \ Removed(tabs, e, disk)
<1>0. IsTables(tabs)
  BY DEF TablesOK
<1>1. new.threads = apply("threads", tabs, e).threads
      /\ new.threadMessages = apply("threadMessages", tabs, e).threadMessages
  BY NamesFacts DEF After
<1>2. e.type # "thread.deleted" /\ e.type # "thread.reverted" => Removed(tabs, e, disk) = {}
  BY DEF Removed, AttachmentSideEffects
<1>3. CASE ~OfThread(e)
  <2>1. new.threads = tabs.threads /\ new.threadMessages = tabs.threadMessages
    BY <1>0, <1>1, <1>3, NamesFacts, ApplyTable
  <2>2. e.type # "thread.deleted" /\ e.type # "thread.reverted" /\ e.type # "thread.created"
    BY <1>3 DEF EventOK, ProjectEventTypes
  <2> HIDE DEF new
  <2>3. FilesFit(new, left)
    BY <1>2, <2>1, <2>2 DEF FilesFit, IsDeleted
  <2> QED
    BY <1>2, <2>1, <2>2, <2>3 DEF new
<1>4. CASE OfThread(e)
  <2>1. new.threads = ThreadsAfter(tabs.threads, e)
        /\ new.threadMessages = Put(tabs.threadMessages, u, rows2)
    BY <1>0, <1>1, <1>4, ApplyTable
  <2> HIDE DEF new
  <2>2. \A t : RowsOf(new.threadMessages, t) = IF t = u THEN rows2 ELSE RowsOf(tabs.threadMessages, t)
    BY <2>1 DEF RowsOf, Put
  <2>3. IsSeq(rows)
    OBVIOUS
  <2> HIDE DEF rows, turns
  <2>4. IsSeq(rows2)
    BY <2>3, MessagesAfterFacts
  <2>5. e.type = "thread.created" <=> u \notin DOMAIN tabs.threads
    BY <1>4 DEF InPlace
  <2>6. /\ DOMAIN new.threads = DOMAIN tabs.threads \cup (IF e.type = "thread.created" THEN {u} ELSE {})
        /\ \A t \in DOMAIN tabs.threads : t # u => new.threads[t] = tabs.threads[t]
        /\ u \in DOMAIN tabs.threads => new.threads[u] = Patch(tabs.threads[u], ThreadRowPatch(e))
    BY <2>1, <2>5 DEF ThreadsAfter, Put
  <2>7. \A t : t # u => (IsDeleted(new, t) <=> IsDeleted(tabs, t))
    BY <2>6 DEF IsDeleted
  <2>8. IsDeleted(tabs, u) \/ e.type = "thread.deleted" => IsDeleted(new, u)
    <3> SUFFICES ASSUME IsDeleted(tabs, u) \/ e.type = "thread.deleted" PROVE IsDeleted(new, u)
      OBVIOUS
    <3>1. u \in DOMAIN tabs.threads
      BY <2>5 DEF IsDeleted
    <3> DEFINE patch == ThreadRowPatch(e)
    <3>2. "deleted" \in DOMAIN patch => patch.deleted = TRUE
      BY DeletingPatch
    <3>3. e.type = "thread.deleted" => "deleted" \in DOMAIN patch
      BY DEF ThreadRowPatch
    <3> HIDE DEF patch
    <3>4. new.threads[u] = Patch(tabs.threads[u], patch) /\ u \in DOMAIN new.threads
      BY <2>6, <3>1 DEF patch
    <3>5. CASE "deleted" \in DOMAIN patch
      BY <3>2, <3>4, <3>5 DEF IsDeleted, Patch
    <3>6. CASE "deleted" \notin DOMAIN patch
      <4>1. "deleted" \in DOMAIN tabs.threads[u] /\ tabs.threads[u].deleted
        BY <3>3, <3>6 DEF IsDeleted
      <4> QED
        BY <3>4, <3>6, <4>1 DEF IsDeleted, Patch
    <3> QED
      BY <3>5, <3>6
  <2>9. \A t : \A file \in AttachmentsOf(RowsOf(tabs.threadMessages, t), t) : file.threadId = t
    BY DEF AttachmentsOf
  <2>10. \A file \in Removed(tabs, e, disk) : file.threadId = u
    BY DEF Removed, AttachmentSideEffects, Unreferenced
  <2>11. ASSUME NEW t, t # u, ~IsDeleted(new, t)
         PROVE  AttachmentsOf(RowsOf(new.threadMessages, t), t) \subseteq left
    <3>1. AttachmentsOf(RowsOf(tabs.threadMessages, t), t) \subseteq disk
      BY <2>7, <2>11 DEF FilesFit
    <3> QED
      BY <2>2, <2>9, <2>10, <2>11, <3>1
  <2>12. ASSUME ~IsDeleted(new, u) PROVE AttachmentsOf(rows2, u) \subseteq left
    <3>1. AttachmentsOf(rows, u) \subseteq disk /\ e.type # "thread.deleted"
      BY <2>8, <2>12 DEF FilesFit, rows
    <3>2. CASE e.type = "thread.message-sent"
      <4>1. left = disk
        BY <1>2, <3>2
      <4>2. rows2 = UpsertById(rows, MessageRow(rows, e))
        BY <3>2 DEF MessagesAfter
      <4>3. (IF "attachments" \in DOMAIN e THEN e.attachments ELSE {}) \subseteq disk
        BY <3>2
      <4> HIDE DEF left, rows2
      <4> QED
        BY <2>3, <3>1, <4>1, <4>2, <4>3, SentAttachments
    <3>3. CASE e.type = "thread.reverted"
      <4> DEFINE kept == retainProjectionMessagesAfterRevert(rows, turns, e.turnCount)
      <4>1. rows2 = kept
        BY <3>3 DEF MessagesAfter
      <4>2. AttachmentsOf(kept, u) \subseteq AttachmentsOf(rows, u)
        BY <2>3, KeptAttachments
      <4>3. Removed(tabs, e, disk) = IF Len(kept) = Len(rows) THEN {} ELSE Unreferenced(disk, kept, u)
        BY <3>3 DEF Removed, AttachmentSideEffects, rows, turns
      <4> HIDE DEF kept, rows2
      <4> QED
        BY <3>1, <4>1, <4>2, <4>3 DEF Unreferenced
    <3>4. CASE e.type # "thread.message-sent" /\ e.type # "thread.reverted"
      <4>1. rows2 = rows
        BY <3>4 DEF MessagesAfter
      <4> QED
        BY <1>2, <3>1, <3>4, <4>1
    <3> QED
      BY <3>2, <3>3, <3>4
  <2> HIDE DEF left, rows2
  <2>13. FilesFit(new, left)
    BY <2>2, <2>11, <2>12 DEF FilesFit
  <2>14. \A t : IsSeq(RowsOf(new.threadMessages, t))
    BY <2>2, <2>4
  <2> QED
    BY <1>2, <2>6, <2>13, <2>14 DEF new, left
<1> QED
  BY <1>3, <1>4

(***************************************************************************)
(* The files outlive the rows                                              *)
(***************************************************************************)

\* The files that the rows of the tables need are on disk.
FileOK(tabs, disk) == FilesFit(tabs, disk) /\ \A t : IsSeq(RowsOf(tabs.threadMessages, t))

\* The events of a command keep the files of rows, once its attachments are written.
LEMMA FilesTwice ==
    ASSUME NEW store, TablesOK(store.tables), IsCursor(store.cursor), FileOK(store.tables, store.files),
           NEW names, {"threadMessages", "threads"} \subseteq names,
           NEW c, NEW n, NEW ev, EventsOK(ev, c, n), InPlace(ev[1], DOMAIN store.tables.threads),
           Attachments(c) \subseteq store.files
    PROVE  LET new == ProjectAll(store, names, ev, Len(ev))
           IN  /\ FileOK(new.tables, new.files)
               /\ DOMAIN new.tables.threads
                     = DOMAIN store.tables.threads
                         \cup (IF ev[1].type = "thread.created" THEN {ev[1].threadId} ELSE {})
<1> DEFINE one == projectThrough(store, names, ev[1], Len(projectors))
           two == projectThrough(one, names, ev[2], Len(projectors))
           Created == IF ev[1].type = "thread.created" THEN {ev[1].threadId} ELSE {}
<1>1. /\ Len(ev) \in 1..2 /\ (Len(ev) = 1 \/ Len(ev) = 2)
      /\ 1 \in 1..Len(ev) /\ EventOK(ev[1])
      /\ Len(ev) = 2 => 2 \in 1..Len(ev) /\ EventOK(ev[2])
  BY DEF EventsOK
<1>2. ProjectAll(store, names, ev, Len(ev)) = IF Len(ev) = 1 THEN one ELSE two
  <2>1. Len(ev) \in 1..2
    BY <1>1
  <2> QED
    BY <2>1, ProjectAllFacts
<1>3. IsTables(store.tables) /\ FilesFit(store.tables, store.files)
      /\ \A t : IsSeq(RowsOf(store.tables.threadMessages, t))
  BY DEF TablesOK, FileOK
<1>4. /\ one.tables = After(store.tables, names, ev[1]) /\ one.cursor = CursorAfter(store.cursor, names, ev[1])
      /\ one.files = store.files \ Removed(store.tables, ev[1], store.files)
  BY <1>3, ThroughAll, FilesThrough
<1> HIDE DEF one
<1>5. "attachments" \in DOMAIN ev[1] => ev[1].attachments \subseteq store.files
  BY <1>1 DEF EventsOK
<1>6. /\ FilesFit(one.tables, one.files)
      /\ ev[1].type # "thread.deleted" /\ ev[1].type # "thread.reverted" => one.files = store.files
      /\ \A t : IsSeq(RowsOf(one.tables.threadMessages, t))
      /\ DOMAIN one.tables.threads = DOMAIN store.tables.threads \cup Created
  <2> DEFINE new == After(store.tables, names, ev[1])
             gone == Removed(store.tables, ev[1], store.files)
  <2>1. /\ FilesFit(new, store.files \ gone)
        /\ ev[1].type # "thread.deleted" /\ ev[1].type # "thread.reverted" => gone = {}
        /\ \A t : IsSeq(RowsOf(new.threadMessages, t))
        /\ DOMAIN new.threads = DOMAIN store.tables.threads \cup Created
    <3> DEFINE tabs == store.tables
               disk == store.files
               e == ev[1]
    <3>1. /\ TablesOK(tabs) /\ FilesFit(tabs, disk) /\ EventOK(e) /\ InPlace(e, DOMAIN tabs.threads)
          /\ \A t : IsSeq(RowsOf(tabs.threadMessages, t))
          /\ e.type = "thread.message-sent" /\ "attachments" \in DOMAIN e => e.attachments \subseteq disk
      BY <1>1, <1>3, <1>5
    <3> HIDE DEF tabs, disk, e, two
    <3>2. LET after == After(tabs, names, e)
          IN  /\ FilesFit(after, disk \ Removed(tabs, e, disk))
              /\ e.type # "thread.deleted" /\ e.type # "thread.reverted" => Removed(tabs, e, disk) = {}
              /\ \A t : IsSeq(RowsOf(after.threadMessages, t))
              /\ DOMAIN after.threads = DOMAIN tabs.threads
                                          \cup (IF e.type = "thread.created" THEN {e.threadId} ELSE {})
      BY <3>1, FilesStep, ZenonT(90)
    <3> QED
      BY <3>2 DEF tabs, disk, e
  <2> HIDE DEF new, gone
  <2>2. one.tables = new /\ one.files = store.files \ gone
    BY <1>4 DEF new, gone
  <2> QED
    BY <2>1, <2>2
<1>7. FileOK(one.tables, one.files)
  BY <1>6 DEF FileOK
<1>8. CASE Len(ev) = 1
  BY <1>2, <1>6, <1>7, <1>8
<1>9. CASE Len(ev) = 2
  <2>1. ev[1].type = "thread.message-sent" /\ ev[2].type = "thread.turn-start-requested"
    BY <1>9 DEF EventsOK
  <2>2. OfThread(ev[1]) /\ OfThread(ev[2])
    BY <1>1, <1>9, <2>1 DEF EventOK, ProjectEventTypes
  <2>3. ev[1].threadId = c.threadId /\ ev[2].threadId = c.threadId
    BY <1>1, <1>9, <2>2 DEF EventsOK
  <2>4. c.threadId \in DOMAIN store.tables.threads
    BY <2>1, <2>2, <2>3 DEF InPlace
  <2>5. DOMAIN one.tables.threads = DOMAIN store.tables.threads
    BY <1>6, <2>1
  <2>6. InPlace(ev[2], DOMAIN one.tables.threads)
    BY <2>1, <2>3, <2>4, <2>5 DEF InPlace
  <2>7. TablesOK(one.tables) /\ IsCursor(one.cursor)
    BY <1>1, <1>4, AfterSteps, SteppedOK, AfterIsTables
  <2>8. /\ two.tables = After(one.tables, names, ev[2])
        /\ two.files = one.files \ Removed(one.tables, ev[2], one.files)
    BY <2>7, ThroughAll, FilesThrough DEF TablesOK
  <2> HIDE DEF two
  <2>9. /\ FilesFit(two.tables, two.files)
        /\ \A t : IsSeq(RowsOf(two.tables.threadMessages, t))
        /\ DOMAIN two.tables.threads = DOMAIN one.tables.threads
    <3> DEFINE new == After(one.tables, names, ev[2])
               gone == Removed(one.tables, ev[2], one.files)
    <3>1. /\ FilesFit(new, one.files \ gone)
          /\ \A t : IsSeq(RowsOf(new.threadMessages, t))
          /\ DOMAIN new.threads = DOMAIN one.tables.threads
                                   \cup (IF ev[2].type = "thread.created" THEN {ev[2].threadId} ELSE {})
      <4>1. EventOK(ev[2]) /\ ev[2].type # "thread.message-sent"
        BY <1>1, <1>9, <2>1
      <4> QED
        BY <1>6, <2>6, <2>7, <4>1, FilesStep
    <3> HIDE DEF new, gone
    <3>2. two.tables = new /\ two.files = one.files \ gone
      BY <2>8 DEF new, gone
    <3> QED
      BY <2>1, <3>1, <3>2
  <2> QED
    BY <1>2, <1>9, <2>1, <2>5, <2>9 DEF FileOK
<1> QED
  BY <1>1, <1>8, <1>9

\* The projectors that were there from the beginning are never behind.
SeenInv ==
    /\ InitiallyInstalled \subseteq installed
    /\ \A q \in InitiallyInstalled : cursor[q] = Len(log)

\* The files of rows are on disk, and no start removes any.
FileInv ==
    /\ FileOK(tables, files)
    /\ DOMAIN tables.threads = CreatedThreads(log, Len(log))
    /\ sideEffects = {}

\* They hold in the beginning.
LEMMA InitFiles == Init => SeenInv /\ FileInv
<1> SUFFICES ASSUME Init PROVE SeenInv /\ FileInv
  OBVIOUS
<1>1. /\ log = <<>> /\ Len(log) = 0 /\ tables = EmptyTables /\ installed = InitiallyInstalled
      /\ files = {} /\ sideEffects = {} /\ cursor = [p \in ProjectorNames |-> 0]
  BY NilFacts DEF Init
<1>2. DOMAIN EmptyTables.threadMessages = {} /\ DOMAIN EmptyTables.threads = {}
  BY EmptyFacts
<1>3. SeenInv
  <2>1. InitiallyInstalled \subseteq ProjectorNames
    BY ProjectionAssumption
  <2> HIDE DEF ProjectorNames
  <2> QED
    BY <1>1, <2>1 DEF SeenInv
<1> HIDE DEF EmptyTables
<1>4. \A t : RowsOf(tables.threadMessages, t) = <<>>
  BY <1>1, <1>2 DEF RowsOf
<1>5. DOMAIN <<>> = {} /\ IsSeq(<<>>)
  BY NilFacts
<1>6. FileOK(tables, files)
  BY <1>4, <1>5 DEF FileOK, FilesFit, AttachmentsOf
<1>7. CreatedThreads(log, Len(log)) = {}
  BY <1>1 DEF CreatedThreads
<1> QED
  BY <1>1, <1>2, <1>3, <1>6, <1>7 DEF FileInv

\* Every step keeps the cursors of these projectors at the end of the log.
LEMMA SeenStep ==
    ASSUME BaseInv, SeenInv, [Next]_vars PROVE SeenInv'
<1>1. /\ Len(log) \in Nat /\ InitiallyInstalled \subseteq ProjectorNames
      /\ InitiallyInstalled \subseteq installed /\ \A q \in InitiallyInstalled : cursor[q] = Len(log)
  BY SeqDomain, ProjectionAssumption DEF BaseInv, LogInv, SeenInv
<1> HIDE DEF ProjectorNames
<1>2. InitiallyInstalled \subseteq installed'
  <2>1. installed' = installed \/ installed' = ProjectorNames
    <3>1. ASSUME NEW c, Upload(c) \/ dispatch(c) \/ DispatchRolledBack(c) PROVE installed' = installed
      BY <3>1 DEF Upload, dispatch, DispatchRolledBack
    <3>2. CASE Crash \/ Start \/ Serve
      BY <3>2, SMTT(30) DEF Crash, Start, Serve
    <3>3. CASE BootstrapEvent \/ RunAttachmentSideEffects \/ NextProjector
      BY <3>3 DEF BootstrapEvent, RunAttachmentSideEffects, NextProjector
    <3>4. CASE Upgrade
      BY <3>4 DEF Upgrade
    <3>5. CASE UNCHANGED vars
      BY <3>5 DEF vars
    <3> QED
      BY <3>1, <3>2, <3>3, <3>4, <3>5 DEF Next, BootstrapStep
  <2> QED
    BY <1>1, <2>1
<1>3. ASSUME NEW c \in Commands(Len(log)), dispatch(c) PROVE SeenInv'
  <2> DEFINE ev == EventsOf(c)
  <2>1. Dispatched(c, ev)
    BY <1>3, DispatchFacts
  <2> HIDE DEF ev
  <2>2. /\ EventsOK(ev, c, Len(log)) /\ Len(log') = Len(log) + Len(ev)
        /\ cursor' = CursorTwice(cursor, installed, ev)
    BY <2>1 DEF Dispatched
  <2>3. \A q \in ProjectorNames : q \in installed => cursor'[q] = Len(log')
    BY <1>1, <2>2, CursorTwiceFacts
  <2> QED
    BY <1>1, <1>2, <2>3 DEF SeenInv
<1>4. CASE BootstrapEvent /\ UNCHANGED <<log, replayed>>
  <2> DEFINE p == projectors[bootstrap.projector]
  <2>1. /\ p \in ProjectorNames /\ cursor[p] < Len(log) /\ cursor' = [cursor EXCEPT ![p] = cursor[p] + 1]
    BY <1>4, BootstrapFacts
  <2> HIDE DEF p
  <2>2. cursor = [q \in ProjectorNames |-> cursor[q]]
    BY DEF BaseInv, TableInv, IsCursor
  <2>3. p \notin InitiallyInstalled
    BY <1>1, <2>1
  <2>4. \A q \in InitiallyInstalled : cursor'[q] = cursor[q]
    BY <1>1, <2>1, <2>2, <2>3
  <2> QED
    BY <1>1, <1>2, <1>4, <2>4 DEF SeenInv
<1>5. CASE UNCHANGED <<log, tables, cursor, replayed>>
  BY <1>1, <1>2, <1>5 DEF SeenInv
<1> QED
  BY <1>3, <1>4, <1>5, DatabaseChanges

\* Every step keeps the files: a command writes its own first, and a start only runs others.
LEMMA FileStep ==
    ASSUME BaseInv, SeenInv, FileInv, FilesWereThere, ~RollbackMayHappen, ~UploadsInterleave, [Next]_vars
    PROVE  FileInv'
<1>1. /\ FileOK(tables, files) /\ DOMAIN tables.threads = CreatedThreads(log, Len(log))
      /\ sideEffects = {} /\ uploaded = {} /\ Len(log) \in 0..MaxEvents
      /\ TablesOK(tables) /\ IsTables(tables) /\ IsCursor(cursor)
  BY SeqDomain, ProjectionAssumption DEF FileInv, BaseInv, ControlInv, LogInv, TableInv, TablesOK
<1>2. CASE UNCHANGED <<log, tables, files, sideEffects>>
  BY <1>1, <1>2 DEF FileInv, FileOK, FilesFit, IsDeleted, CreatedThreads
<1>3. ASSUME NEW c \in Commands(Len(log)), dispatch(c) PROVE FileInv'
  <2> DEFINE ev == EventsOf(c)
             store == Before(c)
             after == ProjectAll(store, installed, ev, Len(ev))
  <2>1. Dispatched(c, ev)
    BY <1>3, DispatchFacts
  <2>2. /\ tables' = after.tables /\ files' = after.files /\ sideEffects' = sideEffects
        /\ status = "running" /\ status' = status
    BY <1>3 DEF dispatch, CanDispatch
  <2>3. store.tables = tables /\ store.cursor = cursor /\ store.files = files \cup Attachments(c)
    BY <1>1 DEF Before
  <2>4. \A i \in 1..Len(ev) : c.type = "thread.create" => ev[i].type = "thread.created"
    BY <1>1, EventsMore
  <2> HIDE DEF ev, store
  <2>5. /\ EventsOK(ev, c, Len(log)) /\ Accepts(readModel, c)
        /\ readModel' = projectEvents(readModel, ev)
    BY <2>1 DEF Dispatched
  <2>6. 1 \in 1..Len(ev) /\ (Len(ev) = 1 \/ Len(ev) = 2)
    BY <2>5 DEF EventsOK
  <2>7. /\ "snapshotSequence" \in DOMAIN readModel /\ "threads" \in DOMAIN readModel
        /\ DOMAIN readModel.threads = DOMAIN tables.threads
    BY <1>1, <2>2 DEF BaseInv, ModelInv, Tracks
  <2>8. InPlace(ev[1], DOMAIN store.tables.threads)
    BY <1>1, <2>3, <2>4, <2>5, <2>6, <2>7, CommandInPlace
  <2>9. FileOK(store.tables, store.files)
    BY <1>1, <2>3 DEF FileOK, FilesFit
  <2>10. {"threadMessages", "threads"} \subseteq installed
    BY DEF FilesWereThere, SeenInv
  <2>11. /\ FileOK(after.tables, after.files)
         /\ DOMAIN after.tables.threads
               = DOMAIN tables.threads \cup (IF ev[1].type = "thread.created" THEN {ev[1].threadId} ELSE {})
    <3>1. TablesOK(store.tables) /\ IsCursor(store.cursor) /\ Attachments(c) \subseteq store.files
      BY <1>1, <2>3
    <3>2. /\ FileOK(after.tables, after.files)
          /\ DOMAIN after.tables.threads
               = DOMAIN store.tables.threads
                   \cup (IF ev[1].type = "thread.created" THEN {ev[1].threadId} ELSE {})
      BY <2>5, <2>8, <2>9, <2>10, <3>1, FilesTwice
    <3> HIDE DEF after
    <3> QED
      BY <2>3, <3>2
  <2> HIDE DEF after
  <2>12. DOMAIN readModel'.threads
            = DOMAIN readModel.threads \cup (IF ev[1].type = "thread.created" THEN {ev[1].threadId} ELSE {})
    <3> DEFINE m1 == projectEvent(readModel, ev[1])
    <3>1. readModel' = IF Len(ev) = 1 THEN m1 ELSE projectEvent(m1, ev[2])
      BY <2>5, <2>6, FoldTwo
    <3>2. /\ "snapshotSequence" \in DOMAIN m1 /\ "threads" \in DOMAIN m1
          /\ DOMAIN m1.threads
               = DOMAIN readModel.threads \cup (IF ev[1].type = "thread.created" THEN {ev[1].threadId} ELSE {})
      BY <2>7, ProjectEventFacts
    <3> HIDE DEF m1
    <3>3. CASE Len(ev) = 1
      BY <3>1, <3>2, <3>3
    <3>4. CASE Len(ev) = 2
      <4>1. ev[2].type # "thread.created"
        BY <2>5, <3>4 DEF EventsOK
      <4>2. DOMAIN projectEvent(m1, ev[2]).threads = DOMAIN m1.threads
        BY <3>2, <4>1, ProjectEventFacts
      <4> QED
        BY <3>1, <3>2, <3>4, <4>2
    <3> QED
      BY <2>6, <3>3, <3>4
  <2>13. DOMAIN readModel'.threads = CreatedThreads(log', Len(log'))
    <3>1. ModelInv'
      BY ModelStep
    <3>2. Tracks(readModel', log', Len(log'))
      BY <2>2, <3>1 DEF ModelInv, Tracks, CreatedThreads
    <3> QED
      BY <3>2 DEF Tracks
  <2>14. DOMAIN tables'.threads = CreatedThreads(log', Len(log'))
    BY <2>2, <2>7, <2>11, <2>12, <2>13
  <2>15. FileOK(tables', files')
    BY <2>2, <2>11
  <2> QED
    BY <1>1, <2>2, <2>14, <2>15 DEF FileInv, FileOK, FilesFit, IsDeleted, CreatedThreads
<1>4. CASE BootstrapEvent
  <2> DEFINE p == projectors[bootstrap.projector]
             e == log[cursor[p] + 1]
  <2>1. /\ p \in ProjectorNames /\ cursor[p] < Len(log) /\ tables' = apply(p, tables, e)
    BY <1>4, BootstrapFacts
  <2>2. /\ sideEffects' = files \ (files \ AttachmentSideEffects(p, tables, e, files))
        /\ UNCHANGED <<log, files>>
    BY <1>4 DEF BootstrapEvent, runProjectorForEvent
  <2> HIDE DEF p, e
  <2>3. p \notin {"threadMessages", "threads"}
    <3>1. p \notin InitiallyInstalled
      BY <1>1, <2>1 DEF SeenInv
    <3> QED
      BY <3>1 DEF FilesWereThere
  <2>4. sideEffects' = {}
    BY <2>2, <2>3, NoSideEffects
  <2>5. tables'.threads = tables.threads /\ tables'.threadMessages = tables.threadMessages
    BY <1>1, <2>1, <2>3, ApplyWrites, NamesFacts
  <2> QED
    BY <1>1, <2>2, <2>4, <2>5 DEF FileInv, FileOK, FilesFit, IsDeleted, CreatedThreads
<1>5. CASE Crash
  BY <1>1, <1>2, <1>5 DEF Crash, database
<1>6. CASE Upgrade \/ Start \/ NextProjector \/ Serve
  BY <1>2, <1>6 DEF Upgrade, Start, NextProjector, Serve, database
<1>7. ~RunAttachmentSideEffects /\ \A c : ~Upload(c) /\ ~DispatchRolledBack(c)
  BY <1>1 DEF RunAttachmentSideEffects, Upload, DispatchRolledBack
<1>8. CASE UNCHANGED vars
  BY <1>2, <1>8 DEF vars, database
<1> QED
  BY <1>3, <1>4, <1>5, <1>6, <1>7, <1>8 DEF Next, BootstrapStep

\* That is the property.
LEMMA FilesThere == FileInv => FilesOutliveRows
BY DEF FileInv, FileOK, FilesFit, IsDeleted, FilesOutliveRows

\* normalizeDispatchCommand, runAttachmentSideEffects: the attachments of the messages that a thread
\* shows are on disk, after every command, revert, crash and start, for every log.  The hypotheses are
\* where the code loses files: a transaction that rolls back after its files are gone, a command between
\* an upload and its turn start, a projector of messages or threads that is new and replays old reverts.
THEOREM FilesOutliveRowsHolds ==
    ASSUME FilesWereThere, ~RollbackMayHappen, ~UploadsInterleave
    PROVE  Spec => []FilesOutliveRows
<1>1. Init => BaseInv /\ SeenInv /\ FileInv
  BY InitBase, InitFiles
<1>2. BaseInv /\ SeenInv /\ FileInv /\ [Next]_vars => (BaseInv /\ SeenInv /\ FileInv)'
  BY BaseStep, SeenStep, FileStep
<1> QED
  BY <1>1, <1>2, FilesThere, PTL DEF Spec

(***************************************************************************)
(* Checkpoints: the turns of the tables and the model's list               *)
(***************************************************************************)

\* What getSnapshot tells of a turn with a checkpoint.
CheckpointOf(turn) ==
    [turnId |-> turn.turnId, status |-> turn.checkpointStatus,
     checkpointTurnCount |-> turn.checkpointTurnCount,
     checkpointRef |-> turn.checkpointRef,
     assistantMessageId |-> turn.assistantMessageId]

\* The checkpoints of the rows of a thread.
Marks(turns) == {CheckpointOf(turn) : turn \in {u \in turns : u.checkpointTurnCount # Null}}

\* The entries of a list.
SetOf(s) == {s[i] : i \in DOMAIN s}

\* An event with which rows and list change alike.
FitsThread(e, thread) ==
    /\ e.type = "thread.turn-diff-completed" =>
          /\ e.checkpointTurnCount # Null
          /\ Len(thread.checkpoints) < MAX_THREAD_CHECKPOINTS
          /\ ~IsStalePlaceholder(thread, e)
          /\ \A c \in SetOf(thread.checkpoints) :
                c.checkpointTurnCount = e.checkpointTurnCount => c.turnId = e.turnId
    /\ e.type = "thread.message-sent" /\ e.role = "assistant" =>
          \A c \in SetOf(thread.checkpoints) : c.turnId = e.turnId => c.assistantMessageId = e.messageId

\* An event fits the thread that it is of.
FitsModel(e, model) ==
    OfThread(e) /\ e.threadId \in DOMAIN model.threads => FitsThread(e, model.threads[e.threadId])

\* The events that a step appends fit the threads that the server has.
FitsStep == \A i \in (Len(log) + 1)..Len(log') : FitsModel(log'[i], readModel)

\* Those of every step do.
ConversationFits == [][FitsStep]_vars

\* The row that a projector looks up is there, or new and without a checkpoint.
LEMMA RowIsThere ==
    ASSUME NEW turns, TurnsOK(turns), NEW id, id # Null
    PROVE  LET row == TurnRow(turns, id)
           IN  /\ TurnOK(row) /\ row.turnId = id
               /\ \A turn \in turns : turn.turnId = id => turn = row
               /\ row \in turns \/ row.checkpointTurnCount = Null
<1> DEFINE existing == {turn \in turns : turn.turnId = id}
           row == TurnRow(turns, id)
<1>1. /\ TurnOK(row) /\ row.turnId = id
      /\ \A turn \in turns : turn.turnId = id => turn = row
  BY TurnRowFacts
<1>2. CASE existing = {}
  <2>1. row = NewTurn(id)
    BY <1>2 DEF TurnRow
  <2>2. NewTurn(id).checkpointTurnCount = Null
    BY DEF NewTurn
  <2> QED
    BY <1>1, <2>1, <2>2
<1>3. CASE existing # {}
  <2>1. row = CHOOSE turn \in existing : TRUE
    BY <1>3 DEF TurnRow
  <2> HIDE DEF row
  <2>2. row \in existing
    BY <1>3, <2>1
  <2> QED
    BY <1>1, <2>2 DEF row
<1> QED
  BY <1>2, <1>3

\* Another row of a turn with the same checkpoint leaves the checkpoints.
LEMMA MarksUpsert ==
    ASSUME NEW turns, TurnsOK(turns), NEW id, id # Null, NEW mid, mid \subseteq turns,
           \A turn \in turns : turn \in mid \/ turn.checkpointTurnCount = Null,
           NEW new, new.turnId = id,
           new.checkpointTurnCount = TurnRow(turns, id).checkpointTurnCount,
           TurnRow(turns, id) \in turns /\ new.checkpointTurnCount # Null
              => CheckpointOf(new) = CheckpointOf(TurnRow(turns, id))
    PROVE  Marks(upsertByTurnId(mid, new)) = Marks(turns)
<1> DEFINE row == TurnRow(turns, id)
           after == upsertByTurnId(mid, new)
<1>1. /\ row.turnId = id
      /\ \A turn \in turns : turn.turnId = id => turn = row
      /\ row \in turns \/ row.checkpointTurnCount = Null
  BY RowIsThere
<1>2. after = {turn \in mid : turn.turnId # id} \cup {new}
  BY DEF upsertByTurnId
<1>3. new.checkpointTurnCount = row.checkpointTurnCount
      /\ (row \in turns /\ new.checkpointTurnCount # Null => CheckpointOf(new) = CheckpointOf(row))
  OBVIOUS
<1> HIDE DEF row, after
<1>4. ASSUME NEW turn \in after, turn.checkpointTurnCount # Null
      PROVE  \E other \in turns : /\ other.checkpointTurnCount # Null
                                  /\ CheckpointOf(other) = CheckpointOf(turn)
  BY <1>1, <1>2, <1>3, <1>4
<1>5. ASSUME NEW turn \in turns, turn.checkpointTurnCount # Null
      PROVE  \E other \in after : /\ other.checkpointTurnCount # Null
                                  /\ CheckpointOf(other) = CheckpointOf(turn)
  <2>1. CASE turn.turnId = id
    <3>1. turn = row
      BY <1>1, <2>1
    <3>2. CheckpointOf(new) = CheckpointOf(turn) /\ new.checkpointTurnCount # Null
      BY <1>3, <1>5, <3>1
    <3> QED
      BY <1>2, <3>2
  <2>2. CASE turn.turnId # id
    BY <1>2, <1>5, <2>2
  <2> QED
    BY <2>1, <2>2
<1> HIDE DEF CheckpointOf
<1>6. Marks(after) = Marks(turns)
  BY <1>4, <1>5 DEF Marks
<1> QED
  BY <1>6 DEF after

\* A turn start has no checkpoint.
LEMMA MarksPending ==
    ASSUME NEW turns, NEW e
    PROVE  Marks(replacePendingTurnStart(turns, e)) = Marks(turns)
<1> DEFINE new == [NewTurn(Null) EXCEPT !.state = "pending", !.pendingMessageId = e.messageId]
<1>1. new.checkpointTurnCount = Null
  BY DEF NewTurn
<1>2. replacePendingTurnStart(turns, e) = {turn \in turns : ~IsPendingTurnStart(turn)} \cup {new}
  BY DEF replacePendingTurnStart
<1>3. \A turn \in turns : IsPendingTurnStart(turn) => turn.checkpointTurnCount = Null
  BY DEF IsPendingTurnStart
<1> HIDE DEF new
<1>4. {u \in replacePendingTurnStart(turns, e) : u.checkpointTurnCount # Null}
        = {u \in turns : u.checkpointTurnCount # Null}
  BY <1>1, <1>2, <1>3
<1> QED
  BY <1>4 DEF Marks

\* A session that runs a turn leaves its checkpoint,
LEMMA MarksRuns ==
    ASSUME NEW turns, TurnsOK(turns), NEW id, id # Null
    PROVE  Marks(TurnRuns(turns, id)) = Marks(turns)
<1> DEFINE pending == {turn \in turns : IsPendingTurnStart(turn)}
           messageId == IF pending = {} THEN Null ELSE (CHOOSE turn \in pending : TRUE).pendingMessageId
           row == TurnRow(turns, id)
           new == [row EXCEPT !.state = RunningState(@),
                              !.pendingMessageId = IF @ # Null THEN @ ELSE messageId]
<1>1. TurnRuns(turns, id) = upsertByTurnId(turns \ pending, new)
  BY DEF TurnRuns
<1>2. TurnOK(row) /\ row.turnId = id
  BY RowIsThere
<1>3. turns \ pending \subseteq turns
      /\ \A turn \in turns : turn \in turns \ pending \/ turn.checkpointTurnCount = Null
  BY DEF IsPendingTurnStart
<1> HIDE DEF messageId, row, pending
<1>4. /\ new.turnId = row.turnId /\ new.checkpointTurnCount = row.checkpointTurnCount
      /\ new.checkpointStatus = row.checkpointStatus /\ new.checkpointRef = row.checkpointRef
      /\ new.assistantMessageId = row.assistantMessageId
  BY <1>2 DEF TurnOK, TurnFields
<1> HIDE DEF new
<1>5. CheckpointOf(new) = CheckpointOf(row)
  BY <1>4 DEF CheckpointOf
<1> QED
  BY <1>1, <1>2, <1>3, <1>4, <1>5, MarksUpsert DEF row

\* so does an interrupt,
LEMMA MarksInterrupted ==
    ASSUME NEW turns, TurnsOK(turns), NEW e, e.turnId # Null
    PROVE  Marks(TurnInterrupted(turns, e)) = Marks(turns)
<1> DEFINE row == TurnRow(turns, e.turnId)
           new == [row EXCEPT !.state = "interrupted"]
<1>1. TurnInterrupted(turns, e) = upsertByTurnId(turns, new)
  BY DEF TurnInterrupted
<1>2. TurnOK(row) /\ row.turnId = e.turnId
  BY RowIsThere
<1> HIDE DEF row
<1>4. /\ new.turnId = row.turnId /\ new.checkpointTurnCount = row.checkpointTurnCount
      /\ new.checkpointStatus = row.checkpointStatus /\ new.checkpointRef = row.checkpointRef
      /\ new.assistantMessageId = row.assistantMessageId
  BY <1>2 DEF TurnOK, TurnFields
<1> HIDE DEF new
<1>5. CheckpointOf(new) = CheckpointOf(row)
  BY <1>4 DEF CheckpointOf
<1> QED
  BY <1>1, <1>2, <1>4, <1>5, MarksUpsert DEF row

\* and a message of the assistant, if it is the one of the checkpoint.
LEMMA MarksMessage ==
    ASSUME NEW turns, TurnsOK(turns), NEW e, e.turnId # Null,
           \A c \in Marks(turns) : c.turnId = e.turnId => c.assistantMessageId = e.messageId
    PROVE  Marks(AssistantMessageSent(turns, e)) = Marks(turns)
<1> DEFINE row == TurnRow(turns, e.turnId)
           new == [row EXCEPT !.assistantMessageId = e.messageId,
                              !.state = IF e.streaming \/ @ \in {"interrupted", "error"} THEN @
                                        ELSE "completed"]
<1>1. AssistantMessageSent(turns, e) = upsertByTurnId(turns, new)
  BY DEF AssistantMessageSent
<1>2. TurnOK(row) /\ row.turnId = e.turnId
  BY RowIsThere
<1> HIDE DEF row
<1>4. /\ new.turnId = row.turnId /\ new.checkpointTurnCount = row.checkpointTurnCount
      /\ new.checkpointStatus = row.checkpointStatus /\ new.checkpointRef = row.checkpointRef
      /\ new.assistantMessageId = e.messageId
  BY <1>2 DEF TurnOK, TurnFields
<1> HIDE DEF new
<1>5. ASSUME row \in turns, row.checkpointTurnCount # Null PROVE CheckpointOf(new) = CheckpointOf(row)
  <2>1. CheckpointOf(row) \in Marks(turns)
    BY <1>5 DEF Marks
  <2>2. CheckpointOf(row).turnId = row.turnId
        /\ CheckpointOf(row).assistantMessageId = row.assistantMessageId
    BY DEF CheckpointOf
  <2>3. row.assistantMessageId = e.messageId
    BY <1>2, <2>1, <2>2
  <2> QED
    BY <1>4, <2>3 DEF CheckpointOf
<1> QED
  BY <1>1, <1>2, <1>4, <1>5, MarksUpsert DEF row

\* A checkpoint that takes its count from no other turn replaces that of its turn.
LEMMA MarksDiff ==
    ASSUME NEW turns, TurnsOK(turns), NEW e, e.turnId # Null, e.checkpointTurnCount # Null,
           \A c \in Marks(turns) : c.checkpointTurnCount = e.checkpointTurnCount => c.turnId = e.turnId
    PROVE  Marks(TurnDiffCompleted(turns, e))
             = {c \in Marks(turns) : c.turnId # e.turnId}
                  \cup {[turnId |-> e.turnId, status |-> e.status,
                         checkpointTurnCount |-> e.checkpointTurnCount,
                         checkpointRef |-> e.checkpointRef,
                         assistantMessageId |-> e.assistantMessageId]}
<1> DEFINE row == TurnRow(turns, e.turnId)
           new == [row EXCEPT !.assistantMessageId  = e.assistantMessageId,
                        !.state               = IF e.status = "error" THEN "error"
                                                ELSE "completed",
                        !.checkpointTurnCount = e.checkpointTurnCount,
                        !.checkpointStatus    = e.status,
                        !.checkpointRef       = e.checkpointRef]
           mid == clearCheckpointTurnConflict(turns, e)
           checkpoint == [turnId |-> e.turnId, status |-> e.status,
                         checkpointTurnCount |-> e.checkpointTurnCount,
                         checkpointRef |-> e.checkpointRef,
                         assistantMessageId |-> e.assistantMessageId]
           after == TurnDiffCompleted(turns, e)
<1>1. after = upsertByTurnId(mid, new)
  BY DEF TurnDiffCompleted
<1>2. TurnOK(row) /\ row.turnId = e.turnId
  BY RowIsThere
<1>3. \A turn \in turns : CheckpointOf(turn).turnId = turn.turnId
          /\ CheckpointOf(turn).checkpointTurnCount = turn.checkpointTurnCount
  BY DEF CheckpointOf
<1>4. \A turn \in turns : turn.checkpointTurnCount # Null => CheckpointOf(turn) \in Marks(turns)
  BY DEF Marks
<1>5. \A turn \in turns : ~(turn.turnId # e.turnId /\ turn.checkpointTurnCount = e.checkpointTurnCount)
  BY <1>3, <1>4
<1>6. mid = turns
  BY <1>5 DEF clearCheckpointTurnConflict
<1> HIDE DEF row, mid, after
<1>7. /\ new.turnId = e.turnId /\ new.checkpointTurnCount = e.checkpointTurnCount
      /\ new.checkpointStatus = e.status /\ new.checkpointRef = e.checkpointRef
      /\ new.assistantMessageId = e.assistantMessageId
  BY <1>2 DEF TurnOK, TurnFields
<1> HIDE DEF new
<1>8. CheckpointOf(new) = checkpoint
  BY <1>7 DEF CheckpointOf
<1>9. after = {turn \in turns : turn.turnId # e.turnId} \cup {new}
  BY <1>1, <1>6, <1>7 DEF upsertByTurnId
<1> HIDE DEF CheckpointOf, checkpoint
<1>10. Marks(after) = {c \in Marks(turns) : c.turnId # e.turnId} \cup {checkpoint}
  <2>1. ASSUME NEW c \in Marks(after) PROVE c \in {d \in Marks(turns) : d.turnId # e.turnId} \cup {checkpoint}
    <3>1. PICK turn \in after : turn.checkpointTurnCount # Null /\ c = CheckpointOf(turn)
      BY DEF Marks
    <3> QED
      BY <1>3, <1>4, <1>8, <1>9, <3>1
  <2>2. ASSUME NEW c \in Marks(turns), c.turnId # e.turnId PROVE c \in Marks(after)
    <3>1. PICK turn \in turns : turn.checkpointTurnCount # Null /\ c = CheckpointOf(turn)
      BY DEF Marks
    <3>2. turn \in after
      BY <1>3, <1>9, <2>2, <3>1
    <3> QED
      BY <3>1, <3>2 DEF Marks
  <2>3. checkpoint \in Marks(after)
    BY <1>7, <1>8, <1>9 DEF Marks
  <2> QED
    BY <2>1, <2>2, <2>3
<1> QED
  BY <1>10 DEF after, checkpoint

\* A revert keeps those up to its count.
LEMMA MarksReverted ==
    ASSUME NEW turns, TurnsOK(turns), NEW n
    PROVE  Marks(KeptTurns(turns, n)) = {c \in Marks(turns) : c.checkpointTurnCount <= n}
<1>1. \A turn \in turns : turn.checkpointTurnCount # Null => turn.turnId # Null
  BY DEF TurnsOK, TurnOK
<1>2. \A turn \in turns : CheckpointOf(turn).checkpointTurnCount = turn.checkpointTurnCount
  BY DEF CheckpointOf
<1> HIDE DEF CheckpointOf
<1>3. {u \in KeptTurns(turns, n) : u.checkpointTurnCount # Null}
        = {u \in {v \in turns : v.checkpointTurnCount # Null} : u.checkpointTurnCount <= n}
  BY <1>1 DEF KeptTurns
<1> QED
  BY <1>2, <1>3 DEF Marks

\* The entries of two lists in a row.
LEMMA SetOfConcat ==
    ASSUME NEW s, NEW t, IsSeq(s), IsSeq(t)
    PROVE  IsSeq(s \o t) /\ Len(s \o t) = Len(s) + Len(t) /\ SetOf(s \o t) = SetOf(s) \cup SetOf(t)
<1> DEFINE u == s \o t
<1>1. /\ IsSeq(u) /\ Len(u) = Len(s) + Len(t)
      /\ \A i \in 1..Len(s) : u[i] = s[i]
      /\ \A i \in 1..Len(t) : u[Len(s) + i] = t[i]
  BY ConcatFacts
<1>2. /\ DOMAIN s = 1..Len(s) /\ Len(s) \in Nat /\ DOMAIN t = 1..Len(t) /\ Len(t) \in Nat
      /\ DOMAIN u = 1..Len(u)
  BY <1>1, SeqDomain
<1> HIDE DEF u
<1>3. ASSUME NEW i \in DOMAIN u PROVE u[i] \in SetOf(s) \cup SetOf(t)
  <2>1. CASE i <= Len(s)
    <3>1. i \in DOMAIN s /\ u[i] = s[i]
      BY <1>1, <1>2, <2>1
    <3> QED
      BY <3>1 DEF SetOf
  <2>2. CASE i > Len(s)
    <3>1. i - Len(s) \in 1..Len(t) /\ Len(s) + (i - Len(s)) = i
      BY <1>1, <1>2, <2>2
    <3>2. i - Len(s) \in DOMAIN t /\ u[i] = t[i - Len(s)]
      BY <1>1, <1>2, <3>1
    <3> QED
      BY <3>2 DEF SetOf
  <2> QED
    BY <1>1, <1>2, <2>1, <2>2
<1>4. ASSUME NEW i \in DOMAIN s PROVE s[i] \in SetOf(u)
  <2>1. i \in DOMAIN u /\ u[i] = s[i]
    BY <1>1, <1>2
  <2> QED
    BY <2>1 DEF SetOf
<1>5. ASSUME NEW i \in DOMAIN t PROVE t[i] \in SetOf(u)
  <2>1. Len(s) + i \in DOMAIN u /\ u[Len(s) + i] = t[i]
    BY <1>1, <1>2
  <2> QED
    BY <2>1 DEF SetOf
<1>6. SetOf(u) = SetOf(s) \cup SetOf(t)
  BY <1>3, <1>4, <1>5 DEF SetOf
<1> QED
  BY <1>1, <1>6 DEF u

\* A list is its first entries and the others.
LEMMA SetOfCut ==
    ASSUME NEW s, IsSeq(s), NEW k \in Nat, k <= Len(s)
    PROVE  /\ IsSeq(SubSeq(s, 1, k)) /\ IsSeq(SubSeq(s, k + 1, Len(s)))
           /\ Len(SubSeq(s, 1, k)) = k /\ Len(SubSeq(s, k + 1, Len(s))) = Len(s) - k
           /\ SetOf(SubSeq(s, 1, k)) \cup SetOf(SubSeq(s, k + 1, Len(s))) = SetOf(s)
<1> DEFINE a == SubSeq(s, 1, k)
           b == SubSeq(s, k + 1, Len(s))
<1>1. PICK S : s \in Seq(S)
  BY DEF IsSeq
<1>2. DOMAIN s = 1..Len(s) /\ Len(s) \in Nat
  BY SeqDomain
<1>3. \A i \in 1..k : s[i] \in S
  BY <1>1, <1>2
<1>4. a \in Seq(S) /\ Len(a) = k /\ \A i \in 1..k : a[i] = s[i]
  BY <1>1, <1>2, <1>3
<1>5. /\ IsSeq(b) /\ Len(b) = Len(s) - k
      /\ \A i \in 1..(Len(s) - k) : b[i] = s[k + i]
  BY SubSeqFacts
<1>6. IsSeq(a)
  BY <1>4 DEF IsSeq
<1>7. DOMAIN a = 1..k /\ DOMAIN b = 1..(Len(s) - k)
  BY <1>4, <1>5, <1>6, SeqDomain
<1> HIDE DEF a, b
<1>8. ASSUME NEW i \in DOMAIN s PROVE s[i] \in SetOf(a) \cup SetOf(b)
  <2>1. CASE i <= k
    <3>1. i \in DOMAIN a /\ a[i] = s[i]
      BY <1>2, <1>4, <1>7, <2>1
    <3> QED
      BY <3>1 DEF SetOf
  <2>2. CASE i > k
    <3>1. i - k \in 1..(Len(s) - k) /\ k + (i - k) = i
      BY <1>2, <2>2
    <3>2. i - k \in DOMAIN b /\ b[i - k] = s[i]
      BY <1>5, <1>7, <3>1
    <3> QED
      BY <3>2 DEF SetOf
  <2> QED
    BY <1>2, <2>1, <2>2
<1>9. ASSUME NEW i \in DOMAIN a PROVE a[i] \in SetOf(s)
  <2>1. i \in DOMAIN s /\ a[i] = s[i]
    BY <1>2, <1>4, <1>7
  <2> QED
    BY <2>1 DEF SetOf
<1>10. ASSUME NEW i \in DOMAIN b PROVE b[i] \in SetOf(s)
  <2>1. k + i \in DOMAIN s /\ b[i] = s[k + i]
    BY <1>2, <1>5, <1>7
  <2> QED
    BY <2>1 DEF SetOf
<1>11. SetOf(a) \cup SetOf(b) = SetOf(s)
  BY <1>8, <1>9, <1>10 DEF SetOf
<1> QED
  BY <1>4, <1>5, <1>6, <1>11 DEF a, b

\* A checkpoint that the list has room for is one more.
LEMMA InsertSet ==
    ASSUME NEW s, IsSeq(s), NEW c, NEW n \in Nat, Len(s) < n
    PROVE  LET new == KeepLast(InsertByTurnCount(s, c), n)
           IN  IsSeq(new) /\ SetOf(new) = SetOf(s) \cup {c}
<1> DEFINE K == {i \in DOMAIN s : s[i].checkpointTurnCount <= c.checkpointTurnCount}
           k == Cardinality(K)
           a == SubSeq(s, 1, k)
           b == SubSeq(s, k + 1, Len(s))
           all == a \o <<c>> \o b
<1>1. DOMAIN s = 1..Len(s) /\ Len(s) \in Nat
  BY SeqDomain
<1>2. k \in Nat /\ k <= Len(s)
  <2>1. K \subseteq 1..Len(s)
    BY <1>1
  <2> HIDE DEF K
  <2> QED
    BY <1>1, <2>1, IndexesFacts
<1>3. InsertByTurnCount(s, c) = all
  BY DEF InsertByTurnCount
<1> HIDE DEF k
<1>4. /\ IsSeq(a) /\ IsSeq(b) /\ Len(a) = k /\ Len(b) = Len(s) - k
      /\ SetOf(a) \cup SetOf(b) = SetOf(s)
  BY <1>2, SetOfCut
<1> HIDE DEF a, b
<1>5. IsSeq(<<c>>) /\ Len(<<c>>) = 1 /\ SetOf(<<c>>) = {c}
  <2>1. IsSeq(<<c>>) /\ Len(<<c>>) = 1 /\ <<c>>[1] = c
    BY SingletonFacts
  <2>2. DOMAIN <<c>> = {1}
    BY <2>1, SeqDomain
  <2> QED
    BY <2>1, <2>2 DEF SetOf
<1> DEFINE one == <<c>>
           left == a \o one
<1> HIDE DEF one
<1>6. IsSeq(left) /\ Len(left) = k + 1 /\ SetOf(left) = SetOf(a) \cup {c}
  BY <1>4, <1>5, SetOfConcat DEF one
<1> HIDE DEF left
<1>7. IsSeq(left \o b) /\ Len(left \o b) = Len(s) + 1 /\ SetOf(left \o b) = SetOf(s) \cup {c}
  BY <1>1, <1>2, <1>4, <1>6, SetOfConcat
<1>8. all = left \o b
  BY DEF left, one
<1> HIDE DEF all
<1>9. KeepLast(all, n) = all
  <2>1. Len(all) \in Nat /\ Len(all) <= n
    BY <1>1, <1>7, <1>8
  <2> QED
    BY <2>1, Uncut
<1> QED
  BY <1>3, <1>7, <1>8, <1>9

\* What a filter keeps of a list.
LEMMA SetOfKept ==
    ASSUME NEW s, IsSeq(s), NEW K, K \subseteq DOMAIN s
    PROVE  /\ IsSeq(Entries(s, K)) /\ Len(Entries(s, K)) \in Nat /\ Len(Entries(s, K)) <= Len(s)
           /\ SetOf(Entries(s, K)) = {s[i] : i \in K}
<1> DEFINE E == Entries(s, K)
<1>1. /\ \A i \in DOMAIN E : \E j \in K : E[i] = s[j]
      /\ \A j \in K : \E i \in DOMAIN E : E[i] = s[j]
  BY FilterFacts
<1>2. IsSeq(E) /\ Len(E) \in Nat /\ Len(E) <= Len(s)
  BY SomeKept
<1> HIDE DEF E
<1>3. SetOf(E) = {s[i] : i \in K}
  BY <1>1 DEF SetOf
<1> QED
  BY <1>2, <1>3 DEF E

\* Rows and thread have the same checkpoints.
SameCheckpoints(turns, thread) ==
    /\ "checkpoints" \in DOMAIN thread /\ IsSeq(thread.checkpoints)
    /\ Marks(turns) = SetOf(thread.checkpoints)

\* An event of the thread leaves them the same.
LEMMA CheckpointsAlike ==
    ASSUME NEW turns, TurnsOK(turns), NEW thread, SameCheckpoints(turns, thread),
           NEW e, EventOK(e), FitsThread(e, thread)
    PROVE  SameCheckpoints(TurnsAfter(turns, e), Patch(thread, ThreadPatch(thread, e)))
<1> DEFINE p == ThreadPatch(thread, e)
           new == Patch(thread, p)
           old == thread.checkpoints
           after == TurnsAfter(turns, e)
<1>1. "checkpoints" \in DOMAIN thread /\ IsSeq(old) /\ Marks(turns) = SetOf(old)
  BY DEF SameCheckpoints
<1>2. /\ "checkpoints" \in DOMAIN new
      /\ new.checkpoints = IF "checkpoints" \in DOMAIN p THEN p.checkpoints ELSE old
  BY <1>1, PatchKeeps DEF Patch
<1>3. ASSUME "checkpoints" \notin DOMAIN p, Marks(after) = Marks(turns)
      PROVE  SameCheckpoints(after, new)
  BY <1>1, <1>2, <1>3 DEF SameCheckpoints
<1>4. CASE e.type = "thread.turn-diff-completed"
  <2> DEFINE K == {i \in DOMAIN old : old[i].turnId # e.turnId}
             others == Entries(old, K)
             checkpoint == [turnId |-> e.turnId, status |-> e.status,
                            checkpointTurnCount |-> e.checkpointTurnCount,
                            checkpointRef |-> e.checkpointRef,
                            assistantMessageId |-> e.assistantMessageId]
             list == KeepLast(InsertByTurnCount(others, checkpoint), MAX_THREAD_CHECKPOINTS)
  <2>1. /\ e.turnId # Null /\ e.checkpointTurnCount # Null
        /\ Len(old) < MAX_THREAD_CHECKPOINTS /\ ~IsStalePlaceholder(thread, e)
        /\ \A c \in Marks(turns) : c.checkpointTurnCount = e.checkpointTurnCount => c.turnId = e.turnId
    BY <1>1, <1>4 DEF FitsThread, EventOK
  <2>2. after = TurnDiffCompleted(turns, e)
    BY <1>4 DEF TurnsAfter
  <2>3. Marks(after) = {c \in Marks(turns) : c.turnId # e.turnId} \cup {checkpoint}
    BY <2>1, <2>2, MarksDiff
  <2>4. p = DiffPatch(thread, e)
    BY <1>4, <2>1 DEF ThreadPatch
  <2>5. "checkpoints" \in DOMAIN p /\ p.checkpoints = list
    BY <2>4 DEF DiffPatch, Filter
  <2> HIDE DEF checkpoint
  <2>6. K \subseteq DOMAIN old
    OBVIOUS
  <2>7. IsSeq(others) /\ Len(others) < MAX_THREAD_CHECKPOINTS /\ SetOf(others) = {old[i] : i \in K}
    <3> HIDE DEF K
    <3>1. Len(old) \in Nat
      BY <1>1, SeqDomain
    <3> QED
      BY <1>1, <2>1, <2>6, <3>1, SetOfKept, CapsAssumption
  <2>8. {old[i] : i \in K} = {c \in SetOf(old) : c.turnId # e.turnId}
    BY DEF SetOf
  <2> HIDE DEF others, K
  <2>9. IsSeq(list) /\ SetOf(list) = SetOf(others) \cup {checkpoint}
    BY <2>7, InsertSet, CapsAssumption
  <2> HIDE DEF list, p, new, after
  <2>10. new.checkpoints = list
    BY <1>2, <2>5
  <2>11. SameCheckpoints(after, new)
    BY <1>1, <1>2, <2>3, <2>7, <2>8, <2>9, <2>10 DEF SameCheckpoints
  <2> QED
    BY <2>11 DEF p, new, after
<1>5. CASE e.type = "thread.reverted"
  <2> DEFINE K == {i \in DOMAIN old : old[i].checkpointTurnCount <= e.turnCount}
             list == Entries(old, K)
  <2>1. after = KeptTurns(turns, e.turnCount)
    BY <1>5 DEF TurnsAfter, TurnsReverted
  <2>2. Marks(after) = {c \in Marks(turns) : c.checkpointTurnCount <= e.turnCount}
    BY <2>1, MarksReverted
  <2>3. p = RevertPatch(thread, e.turnCount) /\ "checkpoints" \in DOMAIN p
    BY <1>5, LargePatch, SMTT(30)
  <2>4. p.checkpoints = list
    BY <2>3 DEF RevertPatch, Filter
  <2>5. K \subseteq DOMAIN old
    OBVIOUS
  <2>6. IsSeq(list) /\ SetOf(list) = {old[i] : i \in K}
    <3> HIDE DEF K
    <3> QED
      BY <1>1, <2>5, SetOfKept
  <2>7. {old[i] : i \in K} = {c \in SetOf(old) : c.checkpointTurnCount <= e.turnCount}
    BY DEF SetOf
  <2> HIDE DEF K, list, p, new, after
  <2>8. SameCheckpoints(after, new)
    BY <1>1, <1>2, <2>2, <2>3, <2>4, <2>6, <2>7 DEF SameCheckpoints
  <2> QED
    BY <2>8 DEF p, new, after
<1>6. CASE e.type \notin {"thread.turn-diff-completed", "thread.reverted"}
  <2>1. "checkpoints" \notin DOMAIN p
    <3>1. CASE e.type \in LargeTypes
      <4>1. DOMAIN p \in {{"messages"}, {"session", "latestTurn"}, {"proposedPlans"}, {"activities"}}
        BY <1>6, <3>1, LargePatch DEF LargeTypes
      <4> QED
        BY <4>1
    <3>2. CASE e.type \notin LargeTypes
      <4>1. DOMAIN p \subseteq RowFields
        BY <3>2, SmallPatch DEF LargeTypes
      <4> QED
        BY <4>1 DEF RowFields
    <3> QED
      BY <3>1, <3>2
  <2>2. \/ after = replacePendingTurnStart(turns, e)
        \/ e.session.activeTurnId # Null /\ after = TurnRuns(turns, e.session.activeTurnId)
        \/ /\ e.type = "thread.message-sent" /\ e.role = "assistant" /\ e.turnId # Null
           /\ after = AssistantMessageSent(turns, e)
        \/ e.turnId # Null /\ after = TurnInterrupted(turns, e)
        \/ after = turns
    BY <1>6 DEF TurnsAfter
  <2> HIDE DEF after
  <2>3. ASSUME e.type = "thread.message-sent", e.role = "assistant"
        PROVE  \A c \in Marks(turns) : c.turnId = e.turnId => c.assistantMessageId = e.messageId
    BY <1>1, <2>3 DEF FitsThread
  <2>4. Marks(after) = Marks(turns)
    BY <2>2, <2>3, MarksPending, MarksRuns, MarksMessage, MarksInterrupted
  <2> QED
    BY <1>3, <2>1, <2>4 DEF after
<1> QED
  BY <1>4, <1>5, <1>6

(***************************************************************************)
(* Checkpoints of all threads                                              *)
(***************************************************************************)

\* Tables and model have the same checkpoints, and no turn is of a thread that there is not.
SameMarks(tabs, model) ==
    /\ IsModel(model)
    /\ \A t \in DOMAIN model.threads : SameCheckpoints(TurnsOf(tabs, t), model.threads[t])
    /\ \A t : t \notin DOMAIN model.threads => TurnsOf(tabs, t) = {}

\* The turns of a thread after an event.
LEMMA TurnsEffect ==
    ASSUME NEW tabs, IsTables(tabs), NEW e, NEW t
    PROVE  TurnsOf(After(tabs, ProjectorNames, e), t)
             = IF AtThread(e, t) THEN TurnsAfter(TurnsOf(tabs, t), e) ELSE TurnsOf(tabs, t)
<1> DEFINE new == After(tabs, ProjectorNames, e)
           u == e.threadId
           turns == TurnsOf(tabs, u)
<1>1. "threadTurns" \in TableNames /\ "threadTurns" \in ProjectorNames /\ "threadTurns" # "projects"
  BY NamesFacts
<1>2. new.threadTurns = apply("threadTurns", tabs, e).threadTurns
  BY <1>1 DEF After
<1> HIDE DEF new
<1>3. CASE ~OfThread(e)
  <2>1. new.threadTurns = tabs.threadTurns
    BY <1>1, <1>2, <1>3, ApplyTable
  <2> QED
    BY <1>3, <2>1 DEF AtThread, TurnsOf, new
<1>4. CASE OfThread(e)
  <2>1. new.threadTurns = Put(tabs.threadTurns, u, TurnsAfter(turns, e))
    BY <1>2, <1>4, ApplyTable
  <2>2. TurnsOf(new, t) = IF t = u THEN TurnsAfter(turns, e) ELSE TurnsOf(tabs, t)
    BY <2>1 DEF TurnsOf, Put
  <2> QED
    BY <1>4, <2>2 DEF AtThread, new
<1> QED
  BY <1>3, <1>4

\* One event keeps them the same.
LEMMA MarksStep ==
    ASSUME NEW tabs, TablesOK(tabs), NEW m, SameMarks(tabs, m), NEW e, EventOK(e),
           InPlace(e, DOMAIN m.threads), FitsModel(e, m)
    PROVE  SameMarks(After(tabs, ProjectorNames, e), projectEvent(m, e))
<1> DEFINE new == After(tabs, ProjectorNames, e)
           model == projectEvent(m, e)
           u == e.threadId
<1>1. /\ IsModel(model) /\ model.threads = ThreadsOfModelAfter(m.threads, e)
  BY ProjectEventEffects DEF SameMarks
<1>2. \A t : TurnsOf(new, t) = IF AtThread(e, t) THEN TurnsAfter(TurnsOf(tabs, t), e) ELSE TurnsOf(tabs, t)
  BY TurnsEffect DEF TablesOK
<1> HIDE DEF new, model
<1>3. /\ \A t \in DOMAIN m.threads : SameCheckpoints(TurnsOf(tabs, t), m.threads[t])
      /\ \A t : t \notin DOMAIN m.threads => TurnsOf(tabs, t) = {}
  BY DEF SameMarks
<1>4. CASE ~OfThread(e)
  <2>1. \A t : ~AtThread(e, t)
    BY <1>4 DEF AtThread
  <2>2. model.threads = m.threads
    BY <1>1, <1>4 DEF ThreadsOfModelAfter, EventOK, ProjectEventTypes
  <2>3. SameMarks(new, model)
    BY <1>1, <1>2, <1>3, <2>1, <2>2 DEF SameMarks
  <2> QED
    BY <2>3 DEF new, model
<1>5. CASE OfThread(e) /\ e.type = "thread.created"
  <2>1. u \notin DOMAIN m.threads
    BY <1>5 DEF InPlace
  <2>2. model.threads = Put(m.threads, u, NewThread(e))
    BY <1>1, <1>5 DEF ThreadsOfModelAfter
  <2>3. \A turns : TurnsAfter(turns, e) = turns
    BY <1>5 DEF TurnsAfter
  <2>4. \A t : TurnsOf(new, t) = TurnsOf(tabs, t)
    BY <1>2, <2>3
  <2>5. DOMAIN model.threads = DOMAIN m.threads \cup {u} /\ model.threads[u] = NewThread(e)
        /\ \A t \in DOMAIN m.threads : model.threads[t] = m.threads[t]
    BY <2>1, <2>2 DEF Put
  <2>6. SameCheckpoints({}, NewThread(e))
    <3>1. "checkpoints" \in DOMAIN NewThread(e) /\ NewThread(e).checkpoints = <<>>
      BY DEF NewThread
    <3>2. SetOf(<<>>) = {}
      BY NilFacts DEF SetOf
    <3>3. Marks({}) = {}
      BY DEF Marks
    <3> QED
      BY <3>1, <3>2, <3>3, NilFacts DEF SameCheckpoints
  <2> HIDE DEF u
  <2>7. SameMarks(new, model)
    BY <1>1, <1>3, <2>1, <2>4, <2>5, <2>6 DEF SameMarks
  <2> QED
    BY <2>7 DEF new, model
<1>6. CASE OfThread(e) /\ e.type # "thread.created"
  <2>1. u \in DOMAIN m.threads
    BY <1>6 DEF InPlace
  <2> DEFINE thread == Patch(m.threads[u], ThreadPatch(m.threads[u], e))
  <2>2. model.threads = [m.threads EXCEPT ![u] = thread]
    BY <1>1, <1>6, <2>1 DEF ThreadsOfModelAfter
  <2>3. TurnsOK(TurnsOf(tabs, u))
    <3>1. TurnsOK({})
      BY DEF TurnsOK
    <3> QED
      BY <3>1 DEF TurnsOf, TablesOK
  <2>4. FitsThread(e, m.threads[u])
    BY <1>6, <2>1 DEF FitsModel
  <2>5. SameCheckpoints(TurnsAfter(TurnsOf(tabs, u), e), thread)
    BY <1>3, <2>1, <2>3, <2>4, CheckpointsAlike
  <2> HIDE DEF u, thread
  <2>6. \A t : AtThread(e, t) <=> t = u
    BY <1>6 DEF AtThread, u
  <2>7. DOMAIN model.threads = DOMAIN m.threads /\ model.threads[u] = thread
        /\ \A t \in DOMAIN m.threads : t # u => model.threads[t] = m.threads[t]
    BY <2>1, <2>2
  <2>8. SameMarks(new, model)
    BY <1>1, <1>2, <1>3, <2>1, <2>5, <2>6, <2>7 DEF SameMarks
  <2> QED
    BY <2>8 DEF new, model
<1> QED
  BY <1>4, <1>5, <1>6

\* So do the events of a command.
LEMMA MarksTwice ==
    ASSUME NEW tabs, TablesOK(tabs), NEW m, NEW n \in Nat, SameMarks(tabs, m),
           NEW c, NEW ev, EventsOK(ev, c, n), InPlace(ev[1], DOMAIN m.threads),
           FitsModel(ev[1], m)
    PROVE  SameMarks(Twice(tabs, ProjectorNames, ev), projectEvents(m, ev))
<1> DEFINE one == After(tabs, ProjectorNames, ev[1])
           two == After(one, ProjectorNames, ev[2])
           m1 == projectEvent(m, ev[1])
           m2 == projectEvent(m1, ev[2])
<1>1. /\ Len(ev) = 1 \/ Len(ev) = 2
      /\ EventOK(ev[1]) /\ (Len(ev) = 2 => EventOK(ev[2]))
  BY DEF EventsOK
<1>2. projectEvents(m, ev) = IF Len(ev) = 1 THEN m1 ELSE m2
  BY <1>1, FoldTwo
<1>3. SameMarks(one, m1)
  BY <1>1, MarksStep
<1>4. TablesOK(one)
  BY <1>1, AfterSteps, SteppedOK
<1>5. CASE Len(ev) = 1
  BY <1>2, <1>3, <1>5 DEF Twice
<1>6. CASE Len(ev) = 2
  <2>1. /\ ev[1].type = "thread.message-sent" /\ ev[2].type = "thread.turn-start-requested"
        /\ 1 \in 1..Len(ev) /\ 2 \in 1..Len(ev)
    BY <1>6 DEF EventsOK
  <2>2. OfThread(ev[1]) /\ OfThread(ev[2])
    BY <1>1, <1>6, <2>1 DEF EventOK, ProjectEventTypes
  <2>3. ev[1].threadId = c.threadId /\ ev[2].threadId = c.threadId
    BY <2>1, <2>2 DEF EventsOK
  <2>4. c.threadId \in DOMAIN m.threads
    BY <2>1, <2>2, <2>3 DEF InPlace
  <2>5. DOMAIN m1.threads = DOMAIN m.threads
    <3>1. m1.threads = ThreadsOfModelAfter(m.threads, ev[1])
      BY <1>1, ProjectEventEffects DEF SameMarks
    <3> HIDE DEF m1
    <3> QED
      BY <2>1, <3>1 DEF ThreadsOfModelAfter
  <2> HIDE DEF one, m1
  <2>6. InPlace(ev[2], DOMAIN m1.threads)
    BY <2>1, <2>3, <2>4, <2>5 DEF InPlace
  <2>7. FitsModel(ev[2], m1)
    BY <2>1 DEF FitsModel, FitsThread
  <2>8. SameMarks(two, m2)
    BY <1>1, <1>3, <1>4, <1>6, <2>6, <2>7, MarksStep
  <2> QED
    BY <1>2, <1>6, <2>8 DEF Twice, one
<1> QED
  BY <1>1, <1>5, <1>6

\* Replaying the log into the tables and folding it into a read model give the same checkpoints,
\* and the engine has that read model.
MarksInv ==
    /\ SameMarks(replayed.tables, Folded)
    /\ status = "running" => readModel = Folded

\* It holds in the beginning.
LEMMA InitMarks == Init => MarksInv
<1> SUFFICES ASSUME Init PROVE MarksInv
  OBVIOUS
<1>1. log = <<>> /\ replayed.tables = EmptyTables /\ status # "running"
  BY DEF Init, NothingProjected
<1>2. Len(log) = 0
  BY <1>1, NilFacts
<1>3. Folded = createEmptyReadModel
  <2>1. PICK f : Models(f, createEmptyReadModel, log, Len(log)) /\ Folded = f[Len(log)]
    BY <1>2, ProjectEventsModels DEF Folded
  <2>2. 0 \in Nat
    OBVIOUS
  <2>3. f[0] = createEmptyReadModel
    BY <1>2, <2>1, <2>2, ModelsFacts
  <2> QED
    BY <1>2, <2>1, <2>3
<1>4. DOMAIN EmptyTables.threadTurns = {}
  BY EmptyFacts
<1>5. DOMAIN createEmptyReadModel.threads = {} /\ IsModel(createEmptyReadModel)
  BY NilFacts DEF createEmptyReadModel, IsModel
<1> HIDE DEF EmptyTables, createEmptyReadModel
<1>6. SameMarks(EmptyTables, createEmptyReadModel)
  BY <1>4, <1>5 DEF SameMarks, TurnsOf
<1> QED
  BY <1>1, <1>3, <1>6 DEF MarksInv

\* Every step that appends events that fit keeps it.
LEMMA MarksInvStep ==
    ASSUME BaseInv, MarksInv, [Next]_vars, [FitsStep]_vars
    PROVE  MarksInv'
<1>1. /\ SameMarks(replayed.tables, Folded)
      /\ status = "running" => readModel = Folded
  BY DEF MarksInv
<1>2. Len(log) \in Nat /\ Len(log) \in 0..MaxEvents /\ TablesOK(replayed.tables)
  BY SeqDomain, ProjectionAssumption DEF BaseInv, LogInv, TableInv
<1>3. ASSUME NEW c \in Commands(Len(log)), dispatch(c) PROVE MarksInv'
  <2> DEFINE ev == EventsOf(c)
  <2>1. Dispatched(c, ev)
    BY <1>3, DispatchFacts
  <2>2. \A i \in 1..Len(ev) : c.type = "thread.create" => ev[i].type = "thread.created"
    BY <1>2, EventsMore
  <2> HIDE DEF ev
  <2>3. /\ EventsOK(ev, c, Len(log)) /\ Len(log') = Len(log) + Len(ev) /\ Len(log') <= MaxEvents
        /\ \A i \in 1..Len(log) : log'[i] = log[i]
        /\ \A i \in 1..Len(ev) : log'[Len(log) + i] = ev[i]
        /\ replayed'.tables = Twice(replayed.tables, ProjectorNames, ev)
        /\ readModel' = projectEvents(readModel, ev)
        /\ status = "running" /\ Accepts(readModel, c)
    BY <2>1 DEF Dispatched
  <2>4. Len(ev) \in Nat /\ 1 \in 1..Len(ev)
    BY <2>3 DEF EventsOK
  <2>5. readModel = Folded
    BY <1>1, <2>3
  <2>6. InPlace(ev[1], DOMAIN readModel.threads)
    BY <1>2, <2>2, <2>3, <2>4, CommandInPlace
  <2>7. FitsModel(ev[1], readModel)
    <3>1. Len(log) + 1 \in (Len(log) + 1)..Len(log') /\ log'[Len(log) + 1] = ev[1]
      BY <1>2, <2>3, <2>4
    <3>2. log' # log
      BY <1>2, <2>3, <2>4
    <3>3. FitsStep
      BY <3>2 DEF vars, database
    <3> QED
      BY <3>1, <3>3 DEF FitsStep
  <2>8. projectEvents(createEmptyReadModel, log') = projectEvents(Folded, ev)
    BY <1>2, <2>3, <2>4, FoldLonger DEF Folded
  <2>9. Folded' = projectEvents(Folded, ev) /\ readModel' = Folded'
    BY <2>3, <2>5, <2>8 DEF Folded
  <2>10. SameMarks(replayed'.tables, Folded')
    BY <1>1, <1>2, <2>3, <2>5, <2>6, <2>7, <2>9, MarksTwice
  <2> QED
    BY <2>9, <2>10 DEF MarksInv
<1>4. ASSUME UNCHANGED <<log, replayed>>, status' = "running" => readModel' = Folded
      PROVE  MarksInv'
  <2>1. Folded' = Folded
    BY <1>4 DEF Folded
  <2> QED
    BY <1>1, <1>4, <2>1 DEF MarksInv
<1>5. CASE Serve
  BY <1>4, <1>5 DEF Serve, database, Folded
<1> QED
  BY <1>1, <1>3, <1>4, <1>5, WhoServes

\* The tables of a server that runs are those of a replay.
LEMMA SameMarksAgree ==
    ASSUME MarksInv, TablesAreReplay PROVE CheckpointsAgree
<1> SUFFICES ASSUME UpToDate, NEW t \in DOMAIN readModel.threads
             PROVE  SnapshotCheckpoints(t) = SetOf(readModel.threads[t].checkpoints)
  BY DEF CheckpointsAgree, SetOf
<1>1. SameMarks(tables, readModel)
  BY DEF TablesAreReplay, UpToDate, MarksInv
<1>2. Marks(TurnsOf(tables, t)) = SetOf(readModel.threads[t].checkpoints)
  BY <1>1 DEF SameMarks, SameCheckpoints
<1>3. SnapshotCheckpoints(t) = Marks(TurnsOf(tables, t))
  BY Zenon DEF SnapshotCheckpoints, Marks, CheckpointOf
<1> QED
  BY <1>2, <1>3

\* getSnapshot, projector: the checkpoints that a client offers to revert to are those that the server
\* resolves, after every command and every start, for every log whose events fit the threads that they are
\* of.  The hypothesis is where the code lets the two differ: a placeholder that comes after the capture,
\* a count that two turns share, a message of another id after the capture, a list that the model cuts.
THEOREM CheckpointsAgreeHolds ==
    ASSUME CatchesUp, ReadsAlike
    PROVE  Spec /\ ConversationFits => []CheckpointsAgree
<1>1. Init => BaseInv /\ MarksInv
  BY InitBase, InitMarks
<1>2. BaseInv /\ MarksInv /\ [Next]_vars /\ [FitsStep]_vars => (BaseInv /\ MarksInv)'
  BY BaseStep, MarksInvStep
<1>3. MarksInv /\ TablesAreReplay => CheckpointsAgree
  BY SameMarksAgree
<1> QED
  BY <1>1, <1>2, <1>3, TablesAreReplayHolds, PTL DEF Spec, ConversationFits

=====================================================================================
