----------------------------- MODULE TerminalManager -----------------------------
(***************************************************************************)
(* The terminals of the server                                             *)
(* (apps/server/src/terminal/Layers/Manager.ts): a record per terminal,    *)
(* its shell process, and its transcript, which is saved on disk some time *)
(* after each output.  Calls for one thread run one at a time; every await *)
(* of a call is a step of its own, so that processes, timers, calls for    *)
(* other threads and dispose interleave with it.                           *)
(*                                                                         *)
(* A transcript is a sequence of chunks, each named by the process that    *)
(* wrote it.  updatedAt is kept as the order of the last updates.  A new   *)
(* size is no event here: a running terminal is never evicted, so write    *)
(* and resize change nothing the manager looks at later.                   *)
(***************************************************************************)
EXTENDS Arrays, SequencesExt, TLC

CONSTANTS
    Null,
    Terminals,                     \* session keys
    ThreadOf,                      \* the thread of each terminal
    Configs,                       \* working directories with their environments
    HISTORY_LIMIT,                 \* chunks a transcript keeps
    MAX_RETAINED_INACTIVE_SESSIONS,
    Refusals,                      \* per process, the signals that kill may throw for
    MaxCalls, MaxProcesses, MaxOutputs   \* bounds of the runs

\* The first signal that kill throws for, which it does for a process always or never.
Signals == {"none", "SIGTERM", "SIGKILL"}

ASSUME TerminalAssumption ==
    /\ DOMAIN ThreadOf = Terminals /\ IsFiniteSet(Terminals)
    /\ {HISTORY_LIMIT, MaxCalls, MaxProcesses, MaxOutputs} \subseteq Nat
    /\ MAX_RETAINED_INACTIVE_SESSIONS \in Nat \ {0}
    /\ Refusals \in [1..MaxProcesses -> SUBSET Signals]
    /\ Null \notin Terminals \cup Configs \cup Seq(Nat)

Threads == {ThreadOf[t] : t \in Terminals}
TerminalsOf(th) == {t \in Terminals : ThreadOf[t] = th}

VARIABLES
    mgr,      \* the fields of TerminalManagerRuntime, and its processes
    op,       \* per thread, the call that holds its lock, or Null
    file,     \* per terminal, its transcript on disk, or Null
    disposed,
    calls, outputs   \* how many there were, for the bounds

vars == <<mgr, op, file, disposed, calls, outputs>>

\* Two fields are not the code's: dropped, the terminals whose record was evicted
\* or disposed of under a running call or with output not yet on disk, and
\* deleted, those not opened again since a close deleted their transcript.
Init ==
    /\ mgr = [sessions   |-> [t \in Terminals |-> 0],   \* index of its record, 0: none
              records    |-> <<>>,                      \* all records ever made
              recency    |-> <<>>,                      \* listed records, oldest update first
              processes  |-> <<>>,
              killTimers |-> {},
              pending    |-> [t \in Terminals |-> Null],
              timers     |-> {},
              queue      |-> [t \in Terminals |-> <<>>],
              detached   |-> {},                        \* write chains no longer listed
              dropped    |-> {},
              deleted    |-> {}]
    /\ op = [th \in Threads |-> Null]
    /\ file = [t \in Terminals |-> Null]
    /\ disposed = FALSE
    /\ calls = 0
    /\ outputs = 0

-----------------------------------------------------------------------------
(* Helpers on the manager *)

capHistory(h) == IF Len(h) <= HISTORY_LIMIT THEN h
                 ELSE SubSeq(h, Len(h) - HISTORY_LIMIT + 1, Len(h))

Listed(m) == {m.sessions[t] : t \in Terminals} \ {0}

InUse(t) == op[ThreadOf[t]] # Null /\ t \in op[ThreadOf[t]].terminals

Unsaved(m, t) == m.pending[t] # Null \/ m.queue[t] # <<>>

Without(recency, s) == Filter(recency, LAMBDA other : other # s)

Touch(m, s) ==
    IF s \in Listed(m) THEN [m EXCEPT !.recency = Append(Without(@, s), s)] ELSE m

Update(m, s, record) == [Touch(m, s) EXCEPT !.records[s] = record]

\* What is left of a record that nothing refers to any more.
Closed == [status |-> "closed"]

Unlist(m, t) ==
    [m EXCEPT !.sessions[t] = 0,
              !.recency = Without(@, m.sessions[t]),
              !.records[m.sessions[t]] = Closed]

NewRecord(m, t, config, history) ==
    LET s == Len(m.records) + 1
    IN  [m EXCEPT !.records = Append(@, [terminal |-> t, status |-> "starting", process |-> 0,
                                         history |-> history, config |-> config]),
                  !.sessions[t] = s,
                  !.deleted = @ \ {t},
                  !.recency = Append(@, s)]

\* Writes are chained per terminal; the timer of the debounce is cancelled.
enqueuePersistWrite(m, t, history) == [m EXCEPT !.queue[t] = Append(@, history)]

persistHistory(m, t, history) ==
    enqueuePersistWrite([m EXCEPT !.timers = @ \ {t}, !.pending[t] = Null], t, history)

queuePersist(m, t, history) == [m EXCEPT !.pending[t] = history, !.timers = @ \cup {t}]

\* The oldest records that do not run.
Evicted(m) ==
    LET inactive == Filter(m.recency, LAMBDA s : m.records[s].status # "running")
    IN  {inactive[i] : i \in 1..(Len(inactive) - MAX_RETAINED_INACTIVE_SESSIONS)}

\* Mutant: the kill timers of the evicted terminals are cancelled too.
EvictWithTimers(m) ==
    LET gone == Evicted(m)
        ts   == {m.records[s].terminal : s \in gone}
    IN  [m EXCEPT
            !.sessions = [t \in Terminals |-> IF t \in ts THEN 0 ELSE @[t]],
            !.recency  = Filter(@, LAMBDA s : s \notin gone),
            !.killTimers = {p \in @ : m.processes[p].terminal \notin ts}]

\* Evicted records go with what they had not saved yet; a write that was started
\* goes on by itself.
evictInactiveSessionsIfNeeded(m) ==
    LET gone == Evicted(m)
        ts   == {m.records[s].terminal : s \in gone}
    IN  [m EXCEPT
            !.sessions = [t \in Terminals |-> IF t \in ts THEN 0 ELSE @[t]],
            !.recency  = Filter(@, LAMBDA s : s \notin gone),
            !.timers   = @ \ ts,
            !.pending  = [t \in Terminals |-> IF t \in ts THEN Null ELSE @[t]],
            !.queue    = [t \in Terminals |-> IF t \in ts THEN <<>> ELSE @[t]],
            !.detached = @ \cup {<<t, m.queue[t]>> : t \in {u \in ts : m.queue[u] # <<>>}},
            !.killTimers = @ \ {m.records[s].process : s \in gone},
            !.dropped  = @ \cup {t \in ts : InUse(t) \/ Unsaved(m, t)}]

\* Nobody listens to the process any more.
Unheard(process, state) == [process EXCEPT !.session = 0, !.state = state]

\* It is asked to end; if kill throws, it is left at that.
Asked(process) == Unheard(process, IF process.refuses = "SIGTERM" THEN "stray" ELSE "terminating")

\* killProcessWithEscalation: a timer will kill the process if it does not end.
Kill(m, p) ==
    [m EXCEPT !.processes[p] = Asked(@),
              !.killTimers = IF m.processes[p].refuses = "SIGTERM" THEN @ \ {p} ELSE @ \cup {p}]

Ended(record, status) == [record EXCEPT !.process = 0, !.status = status]

\* Mutant: the record forgets its process without ending it.
ForgetProcess(m, s) ==
    IF m.records[s].process = 0 THEN m
    ELSE evictInactiveSessionsIfNeeded(Update(m, s, Ended(m.records[s], "exited")))

stopProcess(m, s) ==
    LET p == m.records[s].process
    IN  IF p = 0 THEN m
        ELSE evictInactiveSessionsIfNeeded(
                Kill(Update(m, s, Ended(m.records[s], "exited")), p))

\* startSession up to the spawn
BeginStart(m, s, config) ==
    LET stopped == stopProcess(m, s)
    IN  Update(stopped, s, [stopped.records[s] EXCEPT !.status = "starting", !.config = config])

-----------------------------------------------------------------------------
(* Calls: what each does until its first await on something that others use  *)

The(ts) == CHOOSE t \in ts : TRUE

\* runWithThreadLock: the lock of the thread is free, also after dispose.  What comes before the
\* lookup of the record, assertValidCwd, changes and reads nothing: a call that
\* fails there, and one that finds what it asks for, is no step.
Begin(call, m) ==
    LET th == ThreadOf[The(call.terminals)]
    IN  /\ op[th] = Null
        /\ calls < MaxCalls
        /\ calls' = calls + 1
        /\ mgr' = m
        /\ op' = [op EXCEPT ![th] = call]
        /\ UNCHANGED <<file, disposed, outputs>>

\* A call that is at pc, working on record s.
Call(kind, ts, config, pc, s) ==
    [kind |-> kind, terminals |-> ts, config |-> config, delete |-> FALSE, pc |-> pc, session |-> s]

\* A record starts anew, with an empty transcript on its way to the disk.
Reset(m, s, config) ==
    persistHistory([m EXCEPT !.records[s].config = config, !.records[s].history = <<>>],
                   m.records[s].terminal, <<>>)

\* open of a terminal that is listed, but does not run in this directory
OpenExisting(t, config) ==
    LET s == mgr.sessions[t]
        begin(m) == Begin(Call("open", {t}, config, "persist", s), m)
    IN  /\ s # 0
        /\ \/ /\ mgr.records[s].config # config
              /\ begin(Reset(stopProcess(mgr, s), s, config))
           \/ /\ mgr.records[s].config = config
              /\ mgr.records[s].status \in {"exited", "error"}
              /\ begin(Reset(mgr, s, config))

\* open of a terminal that is not listed: flush, read, make a record, start.
OpenNew(t, config) ==
    /\ mgr.sessions[t] = 0
    /\ Begin(Call("open", {t}, config, "flush", 0), [mgr EXCEPT !.timers = @ \ {t}])

\* restart always empties the transcript before it starts a process.
restart(t, config) ==
    LET old == mgr.sessions[t]
        m == IF old = 0
               THEN evictInactiveSessionsIfNeeded(NewRecord(mgr, t, config, <<>>))
               ELSE stopProcess(mgr, old)
        s == IF old = 0 THEN Len(m.records) ELSE old
    IN  Begin(Call("restart", {t}, config, "persist", s), Reset(m, s, config))

clear(t) ==
    LET s == mgr.sessions[t]
    IN  /\ s # 0
        /\ Begin(Call("clear", {t}, Null, "persist", s),
                 persistHistory(Update(mgr, s, [mgr.records[s] EXCEPT !.history = <<>>]), t, <<>>))

\* close stops and unlists the records, then saves what they had not saved, and
\* may delete the transcripts; without a terminal id, those of the whole thread.
StopAndUnlist(m, t) == IF m.sessions[t] = 0 THEN m ELSE Unlist(stopProcess(m, m.sessions[t]), t)

close(ts, delete) ==
    LET order == SetToSeq(ts)
        closed[i \in 0..Len(order)] ==
            IF i = 0 THEN mgr ELSE StopAndUnlist(closed[i - 1], order[i])
    IN  Begin([Call("close", ts, Null, "flush", 0) EXCEPT !.delete = delete],
              [closed[Len(order)] EXCEPT !.timers = @ \ ts])

-----------------------------------------------------------------------------
(* Calls: after an await *)

\* The call goes on with manager m at pc, working on record s.
Continue(th, m, pc, s) ==
    /\ mgr' = m
    /\ op' = [op EXCEPT ![th] = [@ EXCEPT !.pc = pc, !.session = s]]
    /\ UNCHANGED <<file, disposed, calls, outputs>>

Return(th, m) ==
    /\ mgr' = m
    /\ op' = [op EXCEPT ![th] = Null]
    /\ UNCHANGED <<file, disposed, calls, outputs>>

At(th, pc) == op[th] # Null /\ op[th].pc = pc

\* The write that persistHistory waits for, in whatever chain: only that of a call is empty.
Awaited(t) ==
    \E chain \in {<<t, mgr.queue[t]>>} \cup mgr.detached : chain[1] = t /\ <<>> \in ToSet(chain[2])

Persisted(th) ==
    LET s == op[th].session
    IN  /\ At(th, "persist")
        /\ ~Awaited(mgr.records[s].terminal)
        /\ IF op[th].kind = "clear"
             THEN Return(th, mgr)
             ELSE Continue(th, BeginStart(mgr, s, op[th].config), "spawn", s)

\* flushPersistQueue: what is pending is written, until nothing is.
FlushPending(th) ==
    /\ At(th, "flush")
    /\ \E t \in op[th].terminals :
          /\ mgr.pending[t] # Null
          /\ Continue(th, enqueuePersistWrite([mgr EXCEPT !.pending[t] = Null], t,
                                              mgr.pending[t]), "flush", 0)

AfterFlush(th) ==
    IF op[th].kind = "open" THEN Continue(th, mgr, "read", 0)
    ELSE IF op[th].delete THEN Continue(th, mgr, "delete", 0)
    ELSE Return(th, mgr)

\* Mutant: the writes that were started are not waited for.
FlushedEarly(th) ==
    /\ At(th, "flush")
    /\ \A t \in op[th].terminals : mgr.pending[t] = Null
    /\ AfterFlush(th)

Flushed(th) ==
    /\ At(th, "flush")
    /\ \A t \in op[th].terminals : ~Unsaved(mgr, t)
    /\ AfterFlush(th)

OpenWithHistory(th) ==
    LET t == The(op[th].terminals)
        config == op[th].config
        history == IF file[t] = Null THEN <<>> ELSE capHistory(file[t])
        m == evictInactiveSessionsIfNeeded(NewRecord(mgr, t, config, history))
        s == Len(m.records)
    IN  /\ At(th, "read")
        /\ Continue(th, BeginStart(m, s, config), "spawn", s)

DeleteHistory(th) ==
    /\ At(th, "delete")
    /\ file' = [t \in Terminals |-> IF t \in op[th].terminals THEN Null ELSE file[t]]
    /\ mgr' = [mgr EXCEPT !.deleted = @ \cup op[th].terminals]
    /\ op' = [op EXCEPT ![th] = Null]
    /\ UNCHANGED <<disposed, calls, outputs>>

\* The record of the call is not looked up again after the await.
SpawnSucceeds(th, refuses) ==
    LET s == op[th].session
        p == Len(mgr.processes) + 1
        m == [mgr EXCEPT !.processes = Append(@, [state |-> "alive", session |-> s,
                                                  terminal |-> mgr.records[s].terminal,
                                                  refuses |-> refuses])]
    IN  /\ At(th, "spawn")
        /\ p <= MaxProcesses
        /\ refuses \in Refusals[p]
        /\ Return(th, Update(m, s, [m.records[s] EXCEPT !.process = p, !.status = "running"]))

\* No shell of the candidates could be started.
SpawnFails(th) ==
    /\ At(th, "spawn")
    /\ Return(th, evictInactiveSessionsIfNeeded(
                      Update(mgr, op[th].session, Ended(mgr.records[op[th].session], "error"))))

-----------------------------------------------------------------------------
(* Processes and timers *)

Internal(m) == mgr' = m /\ UNCHANGED <<op, file, disposed, calls, outputs>>

onProcessData(p) ==
    LET s == mgr.processes[p].session
        r == mgr.records[s]
        history == capHistory(Append(r.history, p))
    IN  /\ mgr.processes[p].state = "alive"
        /\ s # 0
        /\ outputs < MaxOutputs
        /\ mgr' = queuePersist(Update(mgr, s, [r EXCEPT !.history = history]), r.terminal, history)
        /\ outputs' = outputs + 1
        /\ UNCHANGED <<op, file, disposed, calls>>

\* A process ends; whoever listens to it is told.
onProcessExit(p) ==
    LET s == mgr.processes[p].session
        m == [mgr EXCEPT !.processes[p] = Unheard(@, "dead")]
    IN  /\ mgr.processes[p].state # "dead"
        /\ Internal(IF s = 0 THEN m
                    ELSE evictInactiveSessionsIfNeeded(
                            Update([m EXCEPT !.killTimers = @ \ {p}], s,
                                   Ended(m.records[s], "exited"))))

\* The grace period is over: SIGKILL, which a process that has ended ignores, unless
\* that throws.
KillTimerFires(p) ==
    LET m == [mgr EXCEPT !.killTimers = @ \ {p}]
    IN  /\ p \in mgr.killTimers
        /\ Internal(IF mgr.processes[p].refuses = "SIGKILL" THEN m
                    ELSE [m EXCEPT !.processes[p].state = "dead"])

PersistTimerFires(t) ==
    /\ t \in mgr.timers
    /\ LET m == [mgr EXCEPT !.timers = @ \ {t}]
       IN  Internal(IF mgr.pending[t] = Null THEN m
                    ELSE enqueuePersistWrite([m EXCEPT !.pending[t] = Null], t,
                                             mgr.pending[t]))

\* A write ends; if more came and no timer is set, one is.
WriteEnds(t) ==
    /\ mgr.queue[t] # <<>>
    /\ file' = [file EXCEPT ![t] = Head(mgr.queue[t])]
    /\ mgr' = [mgr EXCEPT !.queue[t] = Tail(@),
                          !.timers = IF mgr.pending[t] # Null THEN @ \cup {t} ELSE @]
    /\ UNCHANGED <<op, disposed, calls, outputs>>

DetachedWriteEnds(chain) ==
    LET t == chain[1]
        rest == Tail(chain[2])
    IN  /\ chain \in mgr.detached
        /\ file' = [file EXCEPT ![t] = Head(chain[2])]
        /\ mgr' = [mgr EXCEPT !.detached = (@ \ {chain}) \cup
                                           (IF rest = <<>> THEN {} ELSE {<<t, rest>>})]
        /\ UNCHANGED <<op, disposed, calls, outputs>>

\* The layer is released: records are unlisted, processes asked to end, and all
\* timers cancelled.  A call in flight is not stopped.
dispose ==
    LET stopped == {s \in Listed(mgr) : mgr.records[s].process # 0}
        asked == {mgr.records[s].process : s \in stopped}
    IN  /\ ~disposed
        /\ disposed' = TRUE
        /\ mgr' = [mgr EXCEPT
                     !.records = [s \in DOMAIN @ |->
                                    IF s \in stopped THEN Ended(@[s], "exited") ELSE @[s]],
                     !.processes = [p \in DOMAIN @ |->
                                      IF p \in asked THEN Asked(@[p]) ELSE @[p]],
                     !.sessions = [t \in Terminals |-> 0],
                     !.recency = <<>>,
                     !.timers = {},
                     !.killTimers = {},
                     !.pending = [t \in Terminals |-> Null],
                     !.queue = [t \in Terminals |-> <<>>],
                     !.detached = @ \cup {<<t, mgr.queue[t]>> :
                                            t \in {u \in Terminals : mgr.queue[u] # <<>>}},
                     !.dropped = @ \cup {t \in Terminals : InUse(t) \/ Unsaved(mgr, t)}]
        /\ UNCHANGED <<op, file, calls, outputs>>

-----------------------------------------------------------------------------
CallBegins ==
    \/ \E t \in Terminals, c \in Configs :
          OpenExisting(t, c) \/ OpenNew(t, c) \/ restart(t, c)
    \/ \E t \in Terminals : clear(t)
    \/ \E th \in Threads, delete \in BOOLEAN :
          \E ts \in {{t} : t \in TerminalsOf(th)} \cup {TerminalsOf(th)} : close(ts, delete)

CallStep(th) ==
    \/ Persisted(th) \/ FlushPending(th) \/ Flushed(th)
    \/ OpenWithHistory(th) \/ DeleteHistory(th)
    \/ \E refuses \in Signals : SpawnSucceeds(th, refuses)
    \/ SpawnFails(th)

Environment ==
    \/ \E p \in DOMAIN mgr.processes : onProcessData(p) \/ onProcessExit(p)
    \/ dispose

TimerStep ==
    \/ \E p \in mgr.killTimers : KillTimerFires(p)
    \/ \E t \in Terminals : PersistTimerFires(t) \/ WriteEnds(t)
    \/ \E chain \in mgr.detached : DetachedWriteEnds(chain)

Next == CallBegins \/ (\E th \in Threads : CallStep(th)) \/ Environment \/ TimerStep

\* Timers of the process fire and calls of the file system return.
Spec == Init /\ [][Next]_vars /\ WF_vars(TimerStep)

-----------------------------------------------------------------------------
(* Properties *)

\* What will be on disk once the timers have fired and the writes are done.
WillBeSaved(t) ==
    IF mgr.pending[t] # Null THEN mgr.pending[t]
    ELSE IF mgr.queue[t] # <<>> THEN mgr.queue[t][Len(mgr.queue[t])]
    ELSE IF file[t] = Null THEN <<>> ELSE file[t]

\* The transcript of a terminal in memory is the one on disk, or on its way
\* there: no output, clear, restart, close or reopening loses or revives a part
\* of it, in whatever order debounce timers, chained writes and calls come.
\* A deleted one stays deleted.  Terminals that were evicted under a call or with
\* unsaved output are excepted.
TranscriptIsSaved ==
    \A t \in Terminals \ mgr.dropped :
        /\ mgr.sessions[t] # 0 => WillBeSaved(t) = mgr.records[mgr.sessions[t]].history
        /\ t \in mgr.deleted => WillBeSaved(t) = <<>>

\* A terminal has one process at most that was not asked to end, and it is that of the
\* listed record: no restart, reopening or close leaves a shell behind, but one for which
\* SIGTERM threw.
OneProcessPerTerminal ==
    \A p \in DOMAIN mgr.processes :
        LET process == mgr.processes[p]
            t == process.terminal
        IN  process.state \in {"alive", "stray"} /\ t \notin mgr.dropped =>
                \/ /\ mgr.sessions[t] # 0
                   /\ mgr.records[mgr.sessions[t]].process = p
                \/ process.session = 0 /\ process.refuses = "SIGTERM"

In(p, state) == p \in DOMAIN mgr.processes /\ mgr.processes[p].state = state

\* A process that was asked to end does end, also when it ignores SIGTERM and when its
\* record is evicted, closed or restarted meanwhile.  Only dispose, which cancels the
\* timers, may leave it, and a SIGKILL that throws.
StoppedProcessesDie ==
    \A p \in 1..MaxProcesses :
        In(p, "terminating") /\ mgr.processes[p].refuses # "SIGKILL" ~> disposed \/ In(p, "dead")
=============================================================================
