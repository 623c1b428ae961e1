--------------------------- MODULE TerminalManagerProofs ---------------------------
(***************************************************************************)
(* Proofs about the terminals, for every number of them and of threads,    *)
(* calls, processes and outputs.                                           *)
(*                                                                         *)
(* The invariant is about a manager m, so that it can be carried from one  *)
(* helper of a call to the next: records and processes know each other     *)
(* (Linked), the listed records are those of recency (Lists), what is or   *)
(* will be on disk is what the listed record holds (Saved), and the call   *)
(* that has the lock of a thread finds what it left before its await       *)
(* (Working).  X are the terminals whose transcript a call is exchanging.  *)
(***************************************************************************)
EXTENDS TerminalManager, ArrayLemmas

-----------------------------------------------------------------------------
(* Types *)

Histories == {h \in Seq(Nat) : Len(h) <= HISTORY_LIMIT}

Records ==
    [terminal : Terminals, status : {"starting", "running", "exited", "error"}, process : Nat,
     history : Histories, config : Configs]

\* Only a kill that throws leaves a process astray.
Processes ==
    {x \in [state : {"alive", "terminating", "stray", "dead"}, session : Nat, terminal : Terminals,
            refuses : Signals] : x.state = "stray" => x.refuses = "SIGTERM"}

Managers ==
    [sessions   : [Terminals -> Nat],
     records    : Seq(Records \cup {Closed}),
     recency    : Seq(Nat),
     processes  : Seq(Processes),
     killTimers : SUBSET Nat,
     pending    : [Terminals -> Histories \cup {Null}],
     timers     : SUBSET Terminals,
     queue      : [Terminals -> Seq(Histories)],
     detached   : SUBSET (Terminals \X Seq(Histories)),
     dropped    : SUBSET Terminals,
     deleted    : SUBSET Terminals]

Calls ==
    [kind : {"open", "restart", "clear", "close"}, terminals : SUBSET Terminals,
     config : Configs \cup {Null}, delete : BOOLEAN,
     pc : {"persist", "flush", "read", "delete", "spawn"}, session : Nat]

-----------------------------------------------------------------------------
(* The invariant *)

\* A record that was not closed.
Live(m, s) == s \in DOMAIN m.records /\ m.records[s] \in Records

Linked(m) ==
    /\ \A s \in DOMAIN m.records : Live(m, s) =>
          LET r == m.records[s]
          IN  /\ r.status = "running" <=> r.process # 0
              /\ r.process # 0 => /\ r.process \in DOMAIN m.processes
                                  /\ m.processes[r.process].session = s
    /\ \A p \in DOMAIN m.processes :
          LET s == m.processes[p].session
          IN  /\ m.processes[p].state = "alive" <=> s # 0
              /\ s # 0 => /\ Live(m, s)
                          /\ m.records[s].process = p
                          /\ m.records[s].terminal = m.processes[p].terminal
    /\ \A p \in m.killTimers : p \in DOMAIN m.processes /\ m.processes[p].session = 0

Lists(m) ==
    /\ \A t \in Terminals : m.sessions[t] # 0 =>
          Live(m, m.sessions[t]) /\ m.records[m.sessions[t]].terminal = t
    /\ \A i \in DOMAIN m.recency : m.recency[i] \in Listed(m)
    /\ \A i, j \in DOMAIN m.recency : m.recency[i] = m.recency[j] => i = j

\* OneProcessPerTerminal, of m and the processes that somebody listens to.
Alone(m) ==
    \A p \in DOMAIN m.processes :
        LET t == m.processes[p].terminal
        IN  (m.processes[p].state = "alive" /\ t \notin m.dropped)
              => m.sessions[t] # 0 /\ m.records[m.sessions[t]].process = p

\* WillBeSaved, of m and its transcript on disk.
Will(m, t, onDisk) ==
    IF m.pending[t] # Null THEN m.pending[t]
    ELSE IF m.queue[t] # <<>> THEN m.queue[t][Len(m.queue[t])]
    ELSE IF onDisk = Null THEN <<>> ELSE onDisk

Saved(m, X) ==
    /\ \A t \in Terminals \ (m.dropped \cup X) : m.sessions[t] # 0 =>
          Will(m, t, file[t]) = m.records[m.sessions[t]].history
    /\ \A t \in m.deleted :
          m.sessions[t] = 0 /\ (t \notin m.dropped => Will(m, t, file[t]) = <<>>)
    /\ \A chain \in m.detached : chain[1] \in m.dropped /\ chain[2] # <<>>

MgrInv(m, X) == m \in Managers /\ Linked(m) /\ Lists(m) /\ Alone(m) /\ Saved(m, X)

\* A call c of thread th, in a manager m.
Working(m, c, th) ==
    /\ c.terminals # {} /\ c.terminals \subseteq TerminalsOf(th)
    /\ c.pc = "persist" => c.kind \in {"open", "restart", "clear"}
    /\ c.pc = "read" => c.kind = "open"
    /\ c.kind \in {"open", "restart"} => c.config \in Configs
    /\ c.pc \in {"persist", "spawn"} =>
          /\ Live(m, c.session)
          /\ LET t == m.records[c.session].terminal
             IN  t \in c.terminals /\ (t \notin m.dropped => m.sessions[t] = c.session)
    /\ c.pc = "spawn" => m.records[c.session].process = 0
    /\ c.pc \in {"flush", "read", "delete"} => \A t \in c.terminals : m.sessions[t] = 0
    /\ c.pc \in {"read", "delete"} => \A t \in c.terminals \ m.dropped : ~Unsaved(m, t)

TypeOK ==
    /\ mgr \in Managers
    /\ op \in [Threads -> Calls \cup {Null}]
    /\ file \in [Terminals -> Histories \cup {Null}]

IInv ==
    /\ TypeOK
    /\ MgrInv(mgr, {})
    /\ \A th \in Threads : op[th] # Null => Working(mgr, op[th], th)
-----------------------------------------------------------------------------
(* The helpers on the manager *)

USE DEF Closed

LEMMA Constants ==
    /\ HISTORY_LIMIT \in Nat
    /\ MAX_RETAINED_INACTIVE_SESSIONS \in Nat /\ MAX_RETAINED_INACTIVE_SESSIONS > 0
    /\ Null \notin Histories /\ IsFiniteSet(Terminals)
    /\ <<>> \in Histories
BY TerminalAssumption DEF TerminalAssumption, Histories

LEMMA ListedFacts ==
    ASSUME NEW m, m \in Managers, Lists(m), NEW s \in Listed(m)
    PROVE  /\ s \in Nat /\ s # 0 /\ Live(m, s)
           /\ m.records[s].terminal \in Terminals /\ m.sessions[m.records[s].terminal] = s
<1>1. PICK t \in Terminals : m.sessions[t] = s /\ s # 0
  BY DEF Listed
<1>2. Live(m, s) /\ m.records[s].terminal = t /\ s \in Nat
  BY <1>1 DEF Lists, Managers
<1> QED
  BY <1>1, <1>2

LEMMA ProcessType ==
    ASSUME NEW m, m \in Managers, NEW p \in DOMAIN m.processes
    PROVE  /\ p \in Nat /\ p # 0 /\ m.processes[p] \in Processes
           /\ m.processes[p].terminal \in Terminals
<1>1. m.processes \in Seq(Processes)
  BY DEF Managers
<1>2. p \in 1..Len(m.processes) /\ m.processes[p] \in Processes
  BY <1>1
<1> QED
  BY <1>2 DEF Processes

\* recency without the records of D.
Outside(q, D) == Entries(q, {i \in DOMAIN q : q[i] \notin D})

LEMMA FilteredRecency ==
    ASSUME NEW q \in Seq(Nat), \A i, j \in DOMAIN q : q[i] = q[j] => i = j, NEW D
    PROVE  LET f == Outside(q, D)
           IN  /\ f \in Seq(Nat)
               /\ \A i \in DOMAIN f : f[i] \notin D /\ \E j \in DOMAIN q : f[i] = q[j]
               /\ \A i, j \in DOMAIN f : f[i] = f[j] => i = j
<1> DEFINE K == {i \in DOMAIN q : q[i] \notin D}
<1>1. K \subseteq DOMAIN q /\ \A j \in K : q[j] \notin D /\ j \in DOMAIN q
  OBVIOUS
<1>2. Outside(q, D) = Entries(q, K)
  BY DEF Outside
<1> HIDE DEF K
<1>3. /\ Entries(q, K) \in Seq(Nat)
      /\ \A i \in DOMAIN Entries(q, K) : \E j \in K : Entries(q, K)[i] = q[j]
      /\ \A i, j \in DOMAIN Entries(q, K) : Entries(q, K)[i] = Entries(q, K)[j] => i = j
  BY <1>1, EntriesAreOld
<1> QED
  BY <1>1, <1>2, <1>3

LEMMA WithoutIsOutside == \A q, s : Without(q, s) = Outside(q, {s})
BY DEF Without, Filter, Outside

\* The records that are evicted are listed and do not run; the last updated stays.
LEMMA EvictedFacts ==
    ASSUME NEW m, m \in Managers, Lists(m)
    PROVE  /\ \A s \in Evicted(m) : s \in Listed(m) /\ m.records[s].status # "running"
           /\ m.recency # <<>> => m.recency[Len(m.recency)] \notin Evicted(m)
<1> DEFINE q == m.recency
           K == {i \in DOMAIN q : m.records[q[i]].status # "running"}
           inactive == Filter(q, LAMBDA s : m.records[s].status # "running")
<1>1. /\ q \in Seq(Nat) /\ \A i, j \in DOMAIN q : q[i] = q[j] => i = j
      /\ \A i \in DOMAIN q : q[i] \in Listed(m)
  BY DEF Managers, Lists
<1>2. inactive = Entries(q, K)
  BY DEF Filter
<1>3. K \subseteq DOMAIN q /\ \A j \in DOMAIN q : j \in K <=> m.records[q[j]].status # "running"
  OBVIOUS
<1>4. Evicted(m) = {inactive[i] : i \in 1..(Len(inactive) - MAX_RETAINED_INACTIVE_SESSIONS)}
  BY DEF Evicted
<1>5. DOMAIN q = 1..Len(q) /\ Len(q) \in Nat
  BY <1>1
<1> HIDE DEF q, K, inactive
<1>6. /\ inactive \in Seq(Nat)
      /\ \A i \in DOMAIN inactive : \E j \in K : inactive[i] = q[j]
      /\ \A i, j \in DOMAIN inactive : inactive[i] = inactive[j] => i = j
      /\ Len(q) \in K => Len(inactive) > 0 /\ inactive[Len(inactive)] = q[Len(q)]
  BY <1>1, <1>2, <1>3, EntriesAreOld, SMTT(30)
<1>7. DOMAIN inactive = 1..Len(inactive) /\ Len(inactive) \in Nat
  BY <1>6
<1>8. ASSUME NEW i \in 1..(Len(inactive) - MAX_RETAINED_INACTIVE_SESSIONS)
      PROVE  /\ inactive[i] \in Listed(m) /\ m.records[inactive[i]].status # "running"
             /\ q # <<>> => inactive[i] # q[Len(q)]
  <2>1. i \in DOMAIN inactive /\ i < Len(inactive) /\ Len(inactive) \in DOMAIN inactive
    BY <1>7, Constants
  <2>2. PICK j \in K : inactive[i] = q[j]
    BY <1>6, <2>1
  <2>3. inactive[i] \in Listed(m) /\ m.records[inactive[i]].status # "running"
    BY <1>1, <1>3, <2>2
  <2>4. ASSUME q # <<>>, inactive[i] = q[Len(q)] PROVE FALSE
    <3>1. Len(q) \in DOMAIN q
      BY <1>1, <1>5, <2>4
    <3>2. Len(q) \in K
      BY <1>1, <1>3, <2>2, <2>4, <3>1
    <3> QED
      BY <1>6, <2>1, <2>4, <3>2
  <2> QED
    BY <2>3, <2>4
<1> QED
  BY <1>4, <1>8 DEF q

\* What n keeps of the terminals a call works on in m.
Follows(m, n, t) ==
    /\ \A s \in DOMAIN m.records : (Live(m, s) /\ m.records[s].terminal = t) =>
          /\ Live(n, s) /\ n.records[s].terminal = t
          /\ m.records[s].process = 0 => n.records[s].process = 0
    /\ t \in m.dropped => t \in n.dropped
    /\ m.sessions[t] = 0 => n.sessions[t] = 0
    /\ t \notin n.dropped =>
          /\ n.sessions[t] = m.sessions[t]
          /\ Unsaved(n, t) => Unsaved(m, t) \/ m.sessions[t] # 0

LEMMA FollowsAll ==
    ASSUME NEW k, NEW m, NEW n, NEW t, Follows(k, m, t), Follows(m, n, t)
    PROVE  Follows(k, n, t)
BY DEF Follows, Live

LEMMA WorkingFollows ==
    ASSUME NEW m, NEW n, NEW c, NEW th, Working(m, c, th), \A t \in c.terminals : Follows(m, n, t)
    PROVE  Working(n, c, th)
<1>1. c.pc \in {"persist", "spawn"} =>
         /\ Live(n, c.session)
         /\ n.records[c.session].terminal = m.records[c.session].terminal
         /\ n.records[c.session].terminal \in c.terminals
         /\ m.records[c.session].process = 0 => n.records[c.session].process = 0
  BY DEF Working, Follows, Live
<1> QED
  BY <1>1 DEF Working, Follows
\* What an eviction changes.
LEMMA EvictFields ==
    ASSUME NEW m, m \in Managers
    PROVE  LET n == evictInactiveSessionsIfNeeded(m)
               ts == {m.records[s].terminal : s \in Evicted(m)}
           IN  /\ n.sessions = [t \in Terminals |-> IF t \in ts THEN 0 ELSE m.sessions[t]]
               /\ n.records = m.records /\ n.processes = m.processes /\ n.deleted = m.deleted
               /\ n.recency = Outside(m.recency, Evicted(m))
               /\ n.timers = m.timers \ ts /\ n.killTimers \subseteq m.killTimers
               /\ n.pending = [t \in Terminals |-> IF t \in ts THEN Null ELSE m.pending[t]]
               /\ n.queue = [t \in Terminals |-> IF t \in ts THEN <<>> ELSE m.queue[t]]
               /\ n.detached = m.detached \cup
                                 {<<t, m.queue[t]>> : t \in {u \in ts : m.queue[u] # <<>>}}
               /\ n.dropped = m.dropped \cup {t \in ts : InUse(t) \/ Unsaved(m, t)}
               /\ n = [sessions |-> n.sessions, records |-> n.records, recency |-> n.recency,
                       processes |-> n.processes, killTimers |-> n.killTimers,
                       pending |-> n.pending, timers |-> n.timers, queue |-> n.queue,
                       detached |-> n.detached, dropped |-> n.dropped, deleted |-> n.deleted]
<1> DEFINE n == evictInactiveSessionsIfNeeded(m)
           gone == Evicted(m)
           ts == {m.records[s].terminal : s \in gone}
           sessions == [t \in Terminals |-> IF t \in ts THEN 0 ELSE m.sessions[t]]
           recency == Outside(m.recency, gone)
           timers == m.timers \ ts
           pending == [t \in Terminals |-> IF t \in ts THEN Null ELSE m.pending[t]]
           queue == [t \in Terminals |-> IF t \in ts THEN <<>> ELSE m.queue[t]]
           detached == m.detached \cup {<<t, m.queue[t]>> : t \in {u \in ts : m.queue[u] # <<>>}}
           killTimers == m.killTimers \ {m.records[s].process : s \in gone}
           dropped == m.dropped \cup {t \in ts : InUse(t) \/ Unsaved(m, t)}
<1>1. n = [m EXCEPT !.sessions = sessions, !.recency = recency, !.timers = timers,
                    !.pending = pending, !.queue = queue, !.detached = detached,
                    !.killTimers = killTimers, !.dropped = dropped]
  BY DEF evictInactiveSessionsIfNeeded, Filter, Outside
<1>2. m = [sessions |-> m.sessions, records |-> m.records, recency |-> m.recency,
           processes |-> m.processes, killTimers |-> m.killTimers,
           pending |-> m.pending, timers |-> m.timers, queue |-> m.queue,
           detached |-> m.detached, dropped |-> m.dropped, deleted |-> m.deleted]
  BY DEF Managers
<1>3. killTimers \subseteq m.killTimers
  OBVIOUS
<1> HIDE DEF n, sessions, recency, timers, pending, queue, detached, killTimers, dropped
<1>4. n = [sessions |-> sessions, records |-> m.records, recency |-> recency,
           processes |-> m.processes, killTimers |-> killTimers,
           pending |-> pending, timers |-> timers, queue |-> queue,
           detached |-> detached, dropped |-> dropped, deleted |-> m.deleted]
  BY <1>1, <1>2
<1>5. /\ n.sessions = sessions /\ n.records = m.records /\ n.recency = recency
      /\ n.processes = m.processes /\ n.killTimers = killTimers /\ n.pending = pending
      /\ n.timers = timers /\ n.queue = queue /\ n.detached = detached
      /\ n.dropped = dropped /\ n.deleted = m.deleted
  BY <1>4
<1> QED
  BY <1>3, <1>4, <1>5
  DEF n, sessions, recency, timers, pending, queue, detached, killTimers, dropped

\* What the callers know of it: nothing changes but for terminals whose record is
\* evicted, and those in use or with unsaved output are dropped.
Evicts(m, n) ==
    /\ n.records = m.records /\ n.processes = m.processes /\ n.deleted = m.deleted
    /\ m.dropped \subseteq n.dropped
    /\ m.recency # <<>> =>
          LET s == m.recency[Len(m.recency)]
          IN  s \in Listed(n) /\ n.sessions[m.records[s].terminal] = s
    /\ \A t \in Terminals :
          \/ /\ n.sessions[t] = m.sessions[t] /\ n.pending[t] = m.pending[t]
             /\ n.queue[t] = m.queue[t]
          \/ /\ m.sessions[t] # 0 /\ n.sessions[t] = 0
             /\ n.pending[t] = Null /\ n.queue[t] = <<>>
             /\ InUse(t) => t \in n.dropped

LEMMA EvictInv ==
    ASSUME NEW m, NEW X, MgrInv(m, X)
    PROVE  LET n == evictInactiveSessionsIfNeeded(m)
           IN  MgrInv(n, X) /\ Evicts(m, n)
<1> DEFINE n == evictInactiveSessionsIfNeeded(m)
           gone == Evicted(m)
           ts == {m.records[s].terminal : s \in gone}
<1>1. m \in Managers /\ Linked(m) /\ Lists(m) /\ Alone(m) /\ Saved(m, X)
  BY DEF MgrInv
<1>2. /\ \A s \in gone : s \in Listed(m) /\ m.records[s].status # "running"
      /\ m.recency # <<>> => m.recency[Len(m.recency)] \notin gone
  BY <1>1, EvictedFacts
<1>3. /\ n.sessions = [t \in Terminals |-> IF t \in ts THEN 0 ELSE m.sessions[t]]
      /\ n.records = m.records /\ n.processes = m.processes /\ n.deleted = m.deleted
      /\ n.recency = Outside(m.recency, gone)
      /\ n.timers = m.timers \ ts /\ n.killTimers \subseteq m.killTimers
      /\ n.pending = [t \in Terminals |-> IF t \in ts THEN Null ELSE m.pending[t]]
      /\ n.queue = [t \in Terminals |-> IF t \in ts THEN <<>> ELSE m.queue[t]]
      /\ n.detached = m.detached \cup {<<t, m.queue[t]>> : t \in {u \in ts : m.queue[u] # <<>>}}
      /\ n.dropped = m.dropped \cup {t \in ts : InUse(t) \/ Unsaved(m, t)}
      /\ n = [sessions |-> n.sessions, records |-> n.records, recency |-> n.recency,
              processes |-> n.processes, killTimers |-> n.killTimers,
              pending |-> n.pending, timers |-> n.timers, queue |-> n.queue,
              detached |-> n.detached, dropped |-> n.dropped, deleted |-> n.deleted]
  BY <1>1, EvictFields
<1>4. \A t \in Terminals : t \in ts <=> m.sessions[t] # 0 /\ m.sessions[t] \in gone
  <2>1. ASSUME NEW t \in Terminals, t \in ts PROVE m.sessions[t] # 0 /\ m.sessions[t] \in gone
    <3>1. PICK s \in gone : t = m.records[s].terminal
      BY <2>1
    <3>2. s \in Listed(m)
      BY <1>2
    <3> QED
      BY <1>1, <3>1, <3>2, ListedFacts
  <2>2. ASSUME NEW t \in Terminals, m.sessions[t] # 0, m.sessions[t] \in gone PROVE t \in ts
    <3>1. m.records[m.sessions[t]].terminal = t
      BY <1>1, <2>2 DEF Lists
    <3> QED
      BY <2>2, <3>1
  <2> QED
    BY <2>1, <2>2
<1>5. ts \subseteq Terminals
  BY <1>1, <1>2, ListedFacts
<1>6. /\ n.recency \in Seq(Nat)
      /\ \A i \in DOMAIN n.recency :
            n.recency[i] \notin gone /\ \E j \in DOMAIN m.recency : n.recency[i] = m.recency[j]
      /\ \A i, j \in DOMAIN n.recency : n.recency[i] = n.recency[j] => i = j
  <2>1. m.recency \in Seq(Nat) /\ \A i, j \in DOMAIN m.recency : m.recency[i] = m.recency[j] => i = j
    BY <1>1 DEF Managers, Lists
  <2> HIDE DEF gone, n
  <2> QED
    BY <1>3, <2>1, FilteredRecency
<1> HIDE DEF n, gone, ts
<1>7. n \in Managers
  <2>1. /\ n.sessions \in [Terminals -> Nat] /\ n.pending \in [Terminals -> Histories \cup {Null}]
        /\ n.queue \in [Terminals -> Seq(Histories)]
    <3>1. /\ m.sessions \in [Terminals -> Nat] /\ m.pending \in [Terminals -> Histories \cup {Null}]
          /\ m.queue \in [Terminals -> Seq(Histories)] /\ <<>> \in Seq(Histories)
      BY <1>1 DEF Managers
    <3> QED
      BY <1>3, <3>1
  <2>2. n.detached \subseteq Terminals \X Seq(Histories)
    BY <1>1, <1>3, <1>5 DEF Managers
  <2>3. /\ n.timers \subseteq Terminals /\ n.killTimers \subseteq Nat /\ n.dropped \subseteq Terminals
        /\ n.deleted \subseteq Terminals
    BY <1>1, <1>3, <1>5 DEF Managers
  <2>4. n.records \in Seq(Records \cup {Closed}) /\ n.processes \in Seq(Processes)
    BY <1>1, <1>3, SMTT(30) DEF Managers
  <2> QED
    BY <1>3, <1>6, <2>1, <2>2, <2>3, <2>4 DEF Managers
<1>8. Linked(n)
  BY <1>1, <1>3 DEF Linked, Live
<1>9. ASSUME NEW s \in Listed(m), s \notin gone PROVE s \in Listed(n) /\ n.sessions[m.records[s].terminal] = s
  <2>1. s # 0 /\ m.records[s].terminal \in Terminals /\ m.sessions[m.records[s].terminal] = s
    BY <1>1, ListedFacts
  <2>2. n.sessions[m.records[s].terminal] = s
    BY <1>3, <1>4, <1>9, <2>1
  <2> QED
    BY <2>1, <2>2 DEF Listed
<1>10. Lists(n)
  <2>1. \A t \in Terminals : n.sessions[t] # 0 =>
           Live(n, n.sessions[t]) /\ n.records[n.sessions[t]].terminal = t
    BY <1>1, <1>3 DEF Lists, Live
  <2>2. \A i \in DOMAIN n.recency : n.recency[i] \in Listed(n)
    BY <1>1, <1>6, <1>9, SMTT(30) DEF Lists
  <2> QED
    BY <1>6, <2>1, <2>2 DEF Lists
<1>11. Alone(n)
  <2> SUFFICES ASSUME NEW p \in DOMAIN n.processes, n.processes[p].state = "alive",
                      n.processes[p].terminal \notin n.dropped
               PROVE  /\ n.sessions[n.processes[p].terminal] # 0
                      /\ n.records[n.sessions[n.processes[p].terminal]].process = p
    BY DEF Alone
  <2> DEFINE t == n.processes[p].terminal
  <2>1. p \in DOMAIN m.processes /\ p # 0 /\ t \in Terminals
    BY <1>1, <1>3, ProcessType, SMTT(30)
  <2>2. m.sessions[t] # 0 /\ m.records[m.sessions[t]].process = p
    BY <1>1, <1>3, <2>1 DEF Alone
  <2>3. Live(m, m.sessions[t])
    BY <1>1, <2>1, <2>2, SMTT(30) DEF Lists
  <2>4. m.records[m.sessions[t]].status = "running"
    BY <1>1, <2>1, <2>2, <2>3 DEF Linked, Live
  <2>5. t \notin ts
    BY <1>2, <1>4, <2>1, <2>4
  <2> QED
    BY <1>3, <2>1, <2>2, <2>5, SMTT(30)
<1>12. Saved(n, X)
  <2>1. ASSUME NEW t \in Terminals \ (n.dropped \cup X), n.sessions[t] # 0
        PROVE  Will(n, t, file[t]) = n.records[n.sessions[t]].history
    <3>1. t \notin ts
      BY <1>3, <2>1
    <3>2. /\ n.sessions[t] = m.sessions[t] /\ n.pending[t] = m.pending[t] /\ n.queue[t] = m.queue[t]
          /\ t \notin m.dropped
      BY <1>3, <3>1
    <3>3. Will(m, t, file[t]) = m.records[m.sessions[t]].history
      BY <1>1, <2>1, <3>2 DEF Saved
    <3> QED
      BY <1>3, <3>2, <3>3 DEF Will
  <2>2. ASSUME NEW t \in n.deleted
        PROVE  n.sessions[t] = 0 /\ (t \notin n.dropped => Will(n, t, file[t]) = <<>>)
    <3>1. t \in Terminals /\ t \in m.deleted
      BY <1>1, <1>3 DEF Managers
    <3>2. m.sessions[t] = 0 /\ (t \notin m.dropped => Will(m, t, file[t]) = <<>>)
      BY <1>1, <3>1 DEF Saved
    <3>3. n.sessions[t] = 0 /\ n.pending[t] = m.pending[t] /\ n.queue[t] = m.queue[t]
      BY <1>3, <1>4, <3>1, <3>2
    <3> QED
      BY <1>3, <3>2, <3>3 DEF Will
  <2>3. \A chain \in n.detached : chain[1] \in n.dropped /\ chain[2] # <<>>
    BY <1>1, <1>3 DEF Saved, Unsaved
  <2> QED
    BY <2>1, <2>2, <2>3 DEF Saved
<1>13. Evicts(m, n)
  <2>1. m.recency # <<>> => m.recency[Len(m.recency)] \in Listed(m)
    BY <1>1 DEF Lists, Managers
  <2>2. \A t \in Terminals :
          \/ /\ n.sessions[t] = m.sessions[t] /\ n.pending[t] = m.pending[t]
             /\ n.queue[t] = m.queue[t]
          \/ /\ m.sessions[t] # 0 /\ n.sessions[t] = 0
             /\ n.pending[t] = Null /\ n.queue[t] = <<>>
             /\ InUse(t) => t \in n.dropped
    BY <1>3, <1>4
  <2> QED
    BY <1>2, <1>3, <1>9, <2>1, <2>2 DEF Evicts
<1> QED
  BY <1>7, <1>8, <1>10, <1>11, <1>12, <1>13 DEF MgrInv, n

LEMMA EvictsFollows ==
    ASSUME NEW m, NEW n, Evicts(m, n), NEW t \in Terminals, InUse(t) \/ n.sessions[t] = m.sessions[t]
    PROVE  Follows(m, n, t)
BY DEF Evicts, Follows, Unsaved, Live
LEMMA ManagerFields ==
    ASSUME NEW m, m \in Managers
    PROVE  /\ m = [sessions |-> m.sessions, records |-> m.records, recency |-> m.recency,
                   processes |-> m.processes, killTimers |-> m.killTimers,
                   pending |-> m.pending, timers |-> m.timers, queue |-> m.queue,
                   detached |-> m.detached, dropped |-> m.dropped, deleted |-> m.deleted]
           /\ m.sessions \in [Terminals -> Nat] /\ m.records \in Seq(Records \cup {Closed})
           /\ m.recency \in Seq(Nat) /\ m.processes \in Seq(Processes)
           /\ m.killTimers \in SUBSET Nat /\ m.pending \in [Terminals -> Histories \cup {Null}]
           /\ m.timers \in SUBSET Terminals /\ m.queue \in [Terminals -> Seq(Histories)]
           /\ m.detached \in SUBSET (Terminals \X Seq(Histories))
           /\ m.dropped \in SUBSET Terminals /\ m.deleted \in SUBSET Terminals
BY DEF Managers

\* All fields but the processes' and the records' are the same.
SameLists(m, n) ==
    /\ n.sessions = m.sessions /\ n.recency = m.recency /\ n.pending = m.pending
    /\ n.queue = m.queue /\ n.detached = m.detached /\ n.dropped = m.dropped
    /\ n.deleted = m.deleted

\* A record that is updated comes last.
LEMMA TouchInv ==
    ASSUME NEW m, NEW X, MgrInv(m, X), NEW s \in DOMAIN m.records
    PROVE  LET n == Touch(m, s)
           IN  /\ MgrInv(n, X)
               /\ n.sessions = m.sessions /\ n.records = m.records /\ n.processes = m.processes
               /\ n.pending = m.pending /\ n.queue = m.queue /\ n.dropped = m.dropped
               /\ n.deleted = m.deleted /\ n.killTimers = m.killTimers /\ n.timers = m.timers
               /\ n.detached = m.detached
               /\ s \in Listed(m) => n.recency # <<>> /\ n.recency[Len(n.recency)] = s
<1> DEFINE n == Touch(m, s)
           q == Outside(m.recency, {s})
<1>1. m \in Managers /\ Linked(m) /\ Lists(m) /\ Alone(m) /\ Saved(m, X)
  BY DEF MgrInv
<1>2. CASE s \notin Listed(m)
  BY <1>1, <1>2 DEF Touch, MgrInv
<1>3. CASE s \in Listed(m)
  <2>1. n = [m EXCEPT !.recency = Append(q, s)]
    BY <1>3, WithoutIsOutside DEF Touch
  <2>2. /\ q \in Seq(Nat)
        /\ \A i \in DOMAIN q : q[i] \notin {s} /\ \E j \in DOMAIN m.recency : q[i] = m.recency[j]
        /\ \A i, j \in DOMAIN q : q[i] = q[j] => i = j
    <3>1. /\ m.recency \in Seq(Nat)
          /\ \A i, j \in DOMAIN m.recency : m.recency[i] = m.recency[j] => i = j
      BY <1>1 DEF Managers, Lists
    <3> QED
      BY <3>1, FilteredRecency
  <2> DEFINE last == Append(q, s)
  <2>3. s \in Nat
    BY <1>1, <1>3, ListedFacts
  <2>4. /\ last \in Seq(Nat) /\ last # <<>> /\ last[Len(last)] = s
        /\ DOMAIN q = 1..Len(q) /\ Len(q) \in Nat
        /\ DOMAIN last = 1..(Len(q) + 1) /\ last[Len(q) + 1] = s
        /\ \A i \in 1..Len(q) : last[i] = q[i]
    <3> HIDE DEF q
    <3>1. Len(last) = Len(q) + 1
      BY <2>2, <2>3, AppendSeqFacts
    <3> QED
      BY <2>2, <2>3, <3>1, AppendSeqFacts
  <2> HIDE DEF n, q, last
  <2>5. /\ n.sessions = m.sessions /\ n.records = m.records /\ n.processes = m.processes
        /\ n.pending = m.pending /\ n.queue = m.queue /\ n.dropped = m.dropped
        /\ n.deleted = m.deleted /\ n.killTimers = m.killTimers /\ n.timers = m.timers
        /\ n.detached = m.detached /\ n.recency = last
    BY <1>1, <2>1, ManagerFields DEF last
  <2>6. n \in Managers
    <3>1. n = [m EXCEPT !.recency = last]
      BY <2>1 DEF last
    <3> QED
      BY <1>1, <2>4, <3>1 DEF Managers
  <2>7. Lists(n)
    <3>1. \A t \in Terminals : n.sessions[t] # 0 =>
             Live(n, n.sessions[t]) /\ n.records[n.sessions[t]].terminal = t
      BY <1>1, <2>5 DEF Lists, Live
    <3>2. ASSUME NEW i \in DOMAIN last PROVE last[i] \in Listed(n)
      <4>1. Listed(n) = Listed(m)
        BY <2>5 DEF Listed
      <4>2. CASE i \in 1..Len(q)
        <5>1. PICK j \in DOMAIN m.recency : last[i] = m.recency[j]
          BY <2>2, <2>4, <4>2, SMTT(30)
        <5> QED
          BY <1>1, <4>1, <5>1 DEF Lists
      <4>3. CASE i = Len(q) + 1
        BY <1>3, <2>4, <4>1, <4>3
      <4> QED
        BY <2>4, <4>2, <4>3
    <3>3. ASSUME NEW i \in DOMAIN last, NEW j \in DOMAIN last, last[i] = last[j] PROVE i = j
      <4>1. i \in 1..Len(q) => last[i] # s
        BY <2>2, <2>4
      <4>2. j \in 1..Len(q) => last[j] # s
        BY <2>2, <2>4
      <4>3. i \in 1..Len(q) /\ j \in 1..Len(q) => i = j
        BY <2>2, <2>4, <3>3
      <4>4. (i \in 1..Len(q) \/ i = Len(q) + 1) /\ (j \in 1..Len(q) \/ j = Len(q) + 1)
        BY <2>4, SMTT(30)
      <4> QED
        BY <2>4, <3>3, <4>1, <4>2, <4>3, <4>4
    <3> QED
      BY <2>5, <3>1, <3>2, <3>3 DEF Lists
  <2>8. Linked(n) /\ Alone(n)
    BY <1>1, <2>5 DEF Linked, Alone, Live
  <2>9. Saved(n, X)
    BY <1>1, <2>5 DEF Saved, Will
  <2> QED
    BY <2>4, <2>5, <2>6, <2>7, <2>8, <2>9 DEF MgrInv, n
<1> QED
  BY <1>2, <1>3

\* A new content of a record that keeps its process, and its history unless the
\* terminal is excepted.
Rewrites(m, n, X, s, r) ==
    /\ r \in Records
    /\ r.terminal = m.records[s].terminal
    /\ r.process = m.records[s].process
    /\ r.status = "running" <=> m.records[s].status = "running"
    /\ \/ r.history = m.records[s].history
       \/ r.terminal \in X \cup m.dropped
    /\ n = [m EXCEPT !.records[s] = r]

LEMMA RecordInv ==
    ASSUME NEW m, NEW n, NEW X, NEW s, NEW r, MgrInv(m, X), Live(m, s), Rewrites(m, n, X, s, r)
    PROVE  /\ MgrInv(n, X) /\ SameLists(m, n)
           /\ DOMAIN n.records = DOMAIN m.records /\ n.records[s] = r
           /\ \A u \in DOMAIN m.records : u # s => n.records[u] = m.records[u]
           /\ n.processes = m.processes
           /\ \A t : Follows(m, n, t)
<1>1. m \in Managers /\ Linked(m) /\ Lists(m) /\ Alone(m) /\ Saved(m, X)
  BY DEF MgrInv
<1>0. /\ r \in Records /\ n = [m EXCEPT !.records[s] = r]
      /\ r.terminal = m.records[s].terminal /\ r.process = m.records[s].process
      /\ r.status = "running" <=> m.records[s].status = "running"
      /\ \/ r.history = m.records[s].history
         \/ r.terminal \in X \cup m.dropped
  BY DEF Rewrites
<1>2. /\ SameLists(m, n) /\ n.killTimers = m.killTimers /\ n.timers = m.timers
      /\ n.processes = m.processes /\ n.records = [m.records EXCEPT ![s] = r]
  BY <1>0, <1>1, ManagerFields DEF SameLists
<1>3. n.records \in Seq(Records \cup {Closed})
  BY <1>0, <1>1, <1>2, ManagerFields, ExceptFacts DEF Live
<1>4. n \in Managers
  BY <1>0, <1>1, <1>3, ManagerFields DEF Managers
<1>5. /\ DOMAIN n.records = DOMAIN m.records /\ n.records[s] = r
      /\ \A u \in DOMAIN m.records : u # s => n.records[u] = m.records[u]
      /\ s \in DOMAIN m.records
  BY <1>1, <1>2, ManagerFields DEF Live
<1>6. \A u : Live(n, u) <=> Live(m, u)
  BY <1>0, <1>5 DEF Live
<1>7. Linked(n)
  BY <1>0, <1>1, <1>2, <1>5, <1>6 DEF Linked, Live
<1>8. Lists(n)
  <2>1. Listed(n) = Listed(m)
    BY <1>2, SMTT(30) DEF Listed, SameLists
  <2> QED
    BY <1>0, <1>1, <1>2, <1>5, <1>6, <2>1 DEF Lists, SameLists, Live
<1>9. Alone(n)
  <2>2. \A p \in DOMAIN m.processes : m.processes[p].terminal \in Terminals
    BY <1>1, ProcessType
  <2>3. \A t \in Terminals : m.sessions[t] # 0 => m.sessions[t] \in DOMAIN m.records
    BY <1>1 DEF Lists, Live
  <2> QED
    BY <1>0, <1>1, <1>2, <1>5, <2>2, <2>3 DEF Alone, SameLists
<1>10. Saved(n, X)
  <2>1. ASSUME NEW t \in Terminals \ (n.dropped \cup X), n.sessions[t] # 0
        PROVE  Will(n, t, file[t]) = n.records[n.sessions[t]].history
    <3>1. Will(m, t, file[t]) = m.records[m.sessions[t]].history
      BY <1>1, <1>2, <2>1 DEF Saved, SameLists
    <3>2. Will(n, t, file[t]) = Will(m, t, file[t])
      BY <1>2 DEF Will, SameLists
    <3>3. m.sessions[t] \in DOMAIN m.records /\ m.records[m.sessions[t]].terminal = t
      BY <1>1, <1>2, <2>1 DEF Lists, Live, SameLists
    <3>4. m.sessions[t] = s => r.history = m.records[s].history
      BY <1>0, <1>2, <2>1, <3>3 DEF SameLists
    <3> QED
      BY <1>2, <1>5, <3>1, <3>2, <3>3, <3>4 DEF SameLists
  <2>2. \A t \in n.deleted : Will(n, t, file[t]) = Will(m, t, file[t])
    BY <1>2 DEF Will, SameLists
  <2> QED
    BY <1>1, <1>2, <2>1, <2>2 DEF Saved, SameLists
<1>11. ASSUME NEW t PROVE Follows(m, n, t)
  <2>1. ASSUME NEW u \in DOMAIN m.records, Live(m, u), m.records[u].terminal = t
        PROVE  /\ Live(n, u) /\ n.records[u].terminal = t
               /\ m.records[u].process = 0 => n.records[u].process = 0
    <3>1. CASE u = s
      BY <1>0, <1>5, <1>6, <2>1, <3>1
    <3>2. CASE u # s
      BY <1>5, <1>6, <2>1, <3>2
    <3> QED
      BY <3>1, <3>2
  <2> QED
    BY <1>2, <2>1 DEF Follows, Unsaved, SameLists
<1> QED
  BY <1>2, <1>4, <1>5, <1>7, <1>8, <1>9, <1>10, <1>11 DEF MgrInv

\* The record s gets the content r, and the process it named becomes x.
Ends(m, n, s, r, x) ==
    /\ n.records = [m.records EXCEPT ![s] = r]
    /\ n.processes = [m.processes EXCEPT ![m.records[s].process] = x]
    /\ n.killTimers \subseteq m.killTimers \cup {m.records[s].process}

\* A record loses its process, which nobody listens to any more.
LEMMA EndInv ==
    ASSUME NEW m, NEW n, NEW X, MgrInv(m, X), NEW s, Live(m, s), n \in Managers,
           NEW r \in Records, NEW x \in Processes,
           m.records[s].process # 0,
           r.terminal = m.records[s].terminal, r.history = m.records[s].history,
           r.process = 0, r.status # "running",
           x.session = 0, x.state # "alive",
           x.terminal = m.processes[m.records[s].process].terminal,
           Ends(m, n, s, r, x), SameLists(m, n)
    PROVE  MgrInv(n, X)
<1> DEFINE p == m.records[s].process
<1>1. m \in Managers /\ Linked(m) /\ Lists(m) /\ Alone(m) /\ Saved(m, X)
  BY DEF MgrInv
<1>2. /\ DOMAIN n.records = DOMAIN m.records /\ n.records[s] = r
      /\ \A u \in DOMAIN m.records : u # s => n.records[u] = m.records[u]
      /\ s \in DOMAIN m.records
  BY <1>1, ManagerFields, SMTT(30) DEF Live, Ends
<1>3. p \in DOMAIN m.processes /\ m.processes[p].session = s
  BY <1>1 DEF Linked, Live
<1>4. /\ DOMAIN n.processes = DOMAIN m.processes /\ n.processes[p] = x
      /\ \A q \in DOMAIN m.processes : q # p => n.processes[q] = m.processes[q]
  BY <1>1, <1>3, ManagerFields DEF Ends
<1>5. \A u : Live(n, u) <=> Live(m, u)
  BY <1>2, SMTT(30) DEF Live
<1> HIDE DEF p
<1>6. Linked(n)
  <2>1. ASSUME NEW u \in DOMAIN n.records, Live(n, u)
        PROVE  /\ n.records[u].status = "running" <=> n.records[u].process # 0
               /\ n.records[u].process # 0 =>
                    /\ n.records[u].process \in DOMAIN n.processes
                    /\ n.processes[n.records[u].process].session = u
    <3>1. CASE u = s
      BY <1>2, <3>1, SMTT(30)
    <3>2. CASE u # s
      <4>1. n.records[u] = m.records[u] /\ Live(m, u)
        BY <1>2, <1>5, <2>1, <3>2, SMTT(30)
      <4>2. m.records[u].process # p \/ m.records[u].process = 0
        BY <1>1, <1>2, <1>3, <2>1, <3>2, <4>1 DEF Linked
      <4> QED
        BY <1>1, <1>2, <1>4, <2>1, <4>1, <4>2 DEF Linked, p
    <3> QED
      BY <3>1, <3>2
  <2>2. ASSUME NEW q \in DOMAIN n.processes
        PROVE  LET u == n.processes[q].session
               IN  /\ n.processes[q].state = "alive" <=> u # 0
                   /\ u # 0 => /\ Live(n, u)
                               /\ n.records[u].process = q
                               /\ n.records[u].terminal = n.processes[q].terminal
    <3>1. CASE q = p
      BY <1>4, <3>1, SMTT(30)
    <3>2. CASE q # p
      <4>1. n.processes[q] = m.processes[q]
        BY <1>4, <3>2
      <4>2. m.processes[q].session # s
        <5> SUFFICES ASSUME m.processes[q].session = s PROVE FALSE
          OBVIOUS
        <5>1. s # 0
          BY <1>1, <1>2, ManagerFields, SMTT(30)
        <5>2. q \in DOMAIN m.processes
          BY <1>4, SMTT(30)
        <5>3. m.records[s].process = q
          BY <1>1, <5>1, <5>2, SMTT(30) DEF Linked
        <5> QED
          BY <3>2, <5>3 DEF p
      <4> QED
        BY <1>1, <1>2, <1>4, <1>5, <4>1, <4>2 DEF Linked, Live
    <3> QED
      BY <3>1, <3>2
  <2>3. \A q \in n.killTimers : q \in DOMAIN n.processes /\ n.processes[q].session = 0
    BY <1>1, <1>3, <1>4 DEF Linked, Ends, p
  <2> QED
    BY <2>1, <2>2, <2>3 DEF Linked
<1>7. Lists(n)
  <2>1. Listed(n) = Listed(m)
    BY SMTT(30) DEF Listed, SameLists
  <2> QED
    BY <1>1, <1>2, <1>5, <2>1 DEF Lists, SameLists, Live
<1>8. Alone(n)
  <2> SUFFICES ASSUME NEW q \in DOMAIN n.processes, n.processes[q].state = "alive",
                      n.processes[q].terminal \notin n.dropped
               PROVE  /\ n.sessions[n.processes[q].terminal] # 0
                      /\ n.records[n.sessions[n.processes[q].terminal]].process = q
    BY DEF Alone
  <2> DEFINE t == n.processes[q].terminal
  <2>1. q # p /\ n.processes[q] = m.processes[q] /\ q \in DOMAIN m.processes
    BY <1>4, SMTT(30)
  <2>2. m.sessions[t] # 0 /\ m.records[m.sessions[t]].process = q
    BY <1>1, <2>1 DEF Alone, SameLists
  <2>3. t \in Terminals
    BY <1>1, <2>1, ProcessType
  <2>4. m.sessions[t] # s /\ m.sessions[t] \in DOMAIN m.records
    BY <1>1, <2>1, <2>2, <2>3 DEF p, Lists, Live
  <2> QED
    BY <1>2, <2>2, <2>4, SMTT(30) DEF SameLists
<1>9. Saved(n, X)
  <2>1. ASSUME NEW t \in Terminals, n.sessions[t] # 0
        PROVE  n.records[n.sessions[t]].history = m.records[m.sessions[t]].history
    <3>1. m.sessions[t] \in DOMAIN m.records /\ n.sessions[t] = m.sessions[t]
      BY <1>1, <2>1 DEF Lists, Live, SameLists
    <3> QED
      BY <1>2, <3>1
  <2>2. \A t : Will(n, t, file[t]) = Will(m, t, file[t])
    BY DEF Will, SameLists
  <2> QED
    BY <1>1, <2>1, <2>2 DEF Saved, SameLists
<1> QED
  BY <1>6, <1>7, <1>8, <1>9 DEF MgrInv
LEMMA EndedType ==
    ASSUME NEW r \in Records, NEW status \in {"starting", "exited", "error"}
    PROVE  /\ Ended(r, status) \in Records /\ Ended(r, status).process = 0
           /\ Ended(r, status).status = status /\ Ended(r, status).terminal = r.terminal
           /\ Ended(r, status).history = r.history /\ Ended(r, status).config = r.config
BY DEF Records, Ended

LEMMA UnheardType ==
    ASSUME NEW x \in Processes, NEW state \in {"terminating", "dead"}
    PROVE  /\ Unheard(x, state) \in Processes /\ Unheard(x, state).session = 0
           /\ Unheard(x, state).state = state /\ Unheard(x, state).terminal = x.terminal
BY DEF Processes, Unheard

\* A process that was asked to end, whether or not kill throws.
LEMMA AskedType ==
    ASSUME NEW x \in Processes
    PROVE  /\ Asked(x) \in Processes /\ Asked(x).session = 0 /\ Asked(x).state # "alive"
           /\ Asked(x).terminal = x.terminal
BY DEF Processes, Asked, Unheard

LEMMA LiveFacts ==
    ASSUME NEW m, NEW X, MgrInv(m, X), NEW s, Live(m, s)
    PROVE  /\ s \in DOMAIN m.records /\ m.records[s] \in Records /\ s \in Nat /\ s # 0
           /\ m.records[s].terminal \in Terminals /\ m.records[s].process \in Nat
           /\ m.records[s].history \in Histories
           /\ m.records[s].status = "running" <=> m.records[s].process # 0
           /\ m.records[s].process # 0 =>
                 /\ m.records[s].process \in DOMAIN m.processes
                 /\ m.processes[m.records[s].process].session = s
<1>1. m.records \in Seq(Records \cup {Closed})
  BY ManagerFields DEF MgrInv
<1>2. s \in DOMAIN m.records /\ m.records[s] \in Records /\ s \in Nat /\ s # 0
  BY <1>1 DEF Live
<1> QED
  BY <1>2 DEF MgrInv, Linked, Records, Live

\* What stopping the process of s changes: its record, and what an eviction does.
Stops(m, n, s) ==
    /\ DOMAIN n.records = DOMAIN m.records
    /\ \A u \in DOMAIN m.records : u # s => n.records[u] = m.records[u]
    /\ Live(n, s) /\ n.records[s].process = 0
    /\ n.records[s].terminal = m.records[s].terminal
    /\ n.records[s].history = m.records[s].history
    /\ n.records[s].config = m.records[s].config
    /\ m.dropped \subseteq n.dropped /\ n.deleted = m.deleted
    /\ s \in Listed(m) => s \in Listed(n) /\ n.sessions[m.records[s].terminal] = s
    /\ \A t \in Terminals :
          \/ /\ n.sessions[t] = m.sessions[t] /\ n.pending[t] = m.pending[t]
             /\ n.queue[t] = m.queue[t]
          \/ /\ m.sessions[t] # 0 /\ n.sessions[t] = 0
             /\ n.pending[t] = Null /\ n.queue[t] = <<>>
             /\ InUse(t) => t \in n.dropped

LEMMA StopsFollows ==
    ASSUME NEW m, NEW n, NEW s, Stops(m, n, s), NEW t \in Terminals,
           InUse(t) \/ n.sessions[t] = m.sessions[t]
    PROVE  Follows(m, n, t)
<1>1. ASSUME NEW u \in DOMAIN m.records, Live(m, u), m.records[u].terminal = t
      PROVE  /\ Live(n, u) /\ n.records[u].terminal = t
             /\ m.records[u].process = 0 => n.records[u].process = 0
  <2>1. CASE u = s
    BY <1>1, <2>1 DEF Stops
  <2>2. CASE u # s
    BY <1>1, <2>2 DEF Stops, Live
  <2> QED
    BY <2>1, <2>2
<1> QED
  BY <1>1 DEF Stops, Follows, Unsaved

LEMMA StopInv ==
    ASSUME NEW m, NEW X, MgrInv(m, X), NEW s, Live(m, s)
    PROVE  MgrInv(stopProcess(m, s), X) /\ Stops(m, stopProcess(m, s), s)
<1> DEFINE p == m.records[s].process
           r == Ended(m.records[s], "exited")
           a == Touch(m, s)
           b == [a EXCEPT !.records[s] = r]
           c == Kill(b, p)
           n == evictInactiveSessionsIfNeeded(c)
<1>1. /\ s \in DOMAIN m.records /\ m.records[s] \in Records /\ p \in Nat
      /\ p # 0 => p \in DOMAIN m.processes
  BY LiveFacts
<1>2. CASE p = 0
  <2>1. stopProcess(m, s) = m
    BY <1>2 DEF stopProcess
  <2>2. s \in Listed(m) => m.sessions[m.records[s].terminal] = s
    BY ListedFacts DEF MgrInv
  <2> QED
    BY <1>1, <1>2, <2>1, <2>2 DEF Stops
<1>3. CASE p # 0
  <2>1. stopProcess(m, s) = n
    BY <1>3 DEF stopProcess, Update
  <2>2. /\ MgrInv(a, X) /\ a.sessions = m.sessions /\ a.records = m.records
        /\ a.processes = m.processes /\ a.pending = m.pending /\ a.queue = m.queue
        /\ a.dropped = m.dropped /\ a.deleted = m.deleted /\ a.killTimers = m.killTimers
        /\ s \in Listed(m) => a.recency # <<>> /\ a.recency[Len(a.recency)] = s
    BY <1>1, TouchInv
  <2>3. a \in Managers
    BY <2>2 DEF MgrInv
  <2>4. /\ r \in Records /\ r.process = 0 /\ r.status # "running"
        /\ r.terminal = m.records[s].terminal /\ r.history = m.records[s].history
        /\ r.config = m.records[s].config
    BY <1>1, EndedType
  <2> DEFINE x == Asked(m.processes[p])
             kills == IF m.processes[p].refuses = "SIGTERM" THEN m.killTimers \ {p}
                      ELSE m.killTimers \cup {p}
  <2>5. x \in Processes /\ x.session = 0 /\ x.state # "alive" /\ x.terminal = m.processes[p].terminal
    <3>1. m.processes[p] \in Processes
      BY <1>1, <1>3, ProcessType DEF MgrInv
    <3> QED
      BY <3>1, AskedType
  <2>6. /\ c.records = [m.records EXCEPT ![s] = r]
        /\ c.processes = [m.processes EXCEPT ![p] = x]
        /\ c.killTimers = kills
        /\ SameLists(a, c) /\ c.timers = a.timers
        /\ c = [sessions |-> c.sessions, records |-> c.records, recency |-> c.recency,
                processes |-> c.processes, killTimers |-> c.killTimers,
                pending |-> c.pending, timers |-> c.timers, queue |-> c.queue,
                detached |-> c.detached, dropped |-> c.dropped, deleted |-> c.deleted]
    <3> HIDE DEF a, r, p
    <3>1. c = [a EXCEPT !.records = [m.records EXCEPT ![s] = r],
                        !.processes = [m.processes EXCEPT ![p] = x],
                        !.killTimers = kills]
      <4>1. b.processes = m.processes /\ b.killTimers = m.killTimers
        BY <2>2, <2>3, ManagerFields
      <4>2. c = [b EXCEPT !.processes = [m.processes EXCEPT ![p] = x], !.killTimers = kills]
        <5> HIDE DEF b
        <5> QED
          BY <4>1 DEF Kill
      <4> HIDE DEF c, x, kills
      <4> QED
        BY <2>2, <2>3, <4>2, ManagerFields
    <3> DEFINE records == [m.records EXCEPT ![s] = r]
               processes == [m.processes EXCEPT ![p] = x]
               killTimers == kills
    <3> HIDE DEF c, records, processes, killTimers
    <3>2. c = [a EXCEPT !.records = records, !.processes = processes, !.killTimers = killTimers]
      BY <3>1 DEF records, processes, killTimers
    <3>4. c = [sessions |-> a.sessions, records |-> records, recency |-> a.recency,
               processes |-> processes, killTimers |-> killTimers,
               pending |-> a.pending, timers |-> a.timers, queue |-> a.queue,
               detached |-> a.detached, dropped |-> a.dropped, deleted |-> a.deleted]
      <4>1. a = [sessions |-> a.sessions, records |-> a.records, recency |-> a.recency,
                 processes |-> a.processes, killTimers |-> a.killTimers,
                 pending |-> a.pending, timers |-> a.timers, queue |-> a.queue,
                 detached |-> a.detached, dropped |-> a.dropped, deleted |-> a.deleted]
        BY <2>3, ManagerFields
      <4> QED
        BY <3>2, <4>1
    <3>3. /\ c.records = records /\ c.processes = processes /\ c.killTimers = killTimers
          /\ SameLists(a, c) /\ c.timers = a.timers
          /\ c = [sessions |-> c.sessions, records |-> c.records, recency |-> c.recency,
                processes |-> c.processes, killTimers |-> c.killTimers,
                pending |-> c.pending, timers |-> c.timers, queue |-> c.queue,
                detached |-> c.detached, dropped |-> c.dropped, deleted |-> c.deleted]
      BY <3>4 DEF SameLists
    <3> QED
      BY <3>3 DEF records, processes, killTimers
  <2>a. kills \subseteq m.killTimers \cup {p}
    OBVIOUS
  <2> HIDE DEF a, c, n, r, x, p, kills
  <2>7. c \in Managers
    <3>1. c.records \in Seq(Records \cup {Closed}) /\ c.processes \in Seq(Processes)
      BY <1>1, <1>3, <2>2, <2>3, <2>4, <2>5, <2>6, ManagerFields, ExceptFacts
    <3>2. c.killTimers \in SUBSET Nat
      BY <1>1, <2>2, <2>3, <2>6, <2>a, ManagerFields, SMTT(30)
    <3> QED
      BY <2>3, <2>6, <3>1, <3>2, ManagerFields DEF Managers, SameLists
  <2>8. MgrInv(c, X)
    <3>1. Live(a, s) /\ a.records[s] = m.records[s]
      BY <2>2 DEF Live
    <3>2. Ends(a, c, s, r, x)
      BY <2>2, <2>6, <2>a DEF Ends, p
    <3> QED
      BY <1>3, <2>2, <2>4, <2>5, <2>6, <2>7, <3>1, <3>2, EndInv DEF p
  <2>9. MgrInv(n, X) /\ Evicts(c, n)
    BY <2>8, EvictInv DEF n
  <2>10. /\ DOMAIN c.records = DOMAIN m.records /\ c.records[s] = r
         /\ \A u \in DOMAIN m.records : u # s => c.records[u] = m.records[u]
    BY <1>1, <2>6, ManagerFields DEF MgrInv
  <2>11. Stops(m, n, s)
    <3>1. s \in Listed(m) => s \in Listed(n) /\ n.sessions[m.records[s].terminal] = s
      BY <2>2, <2>4, <2>6, <2>9, <2>10 DEF Evicts, SameLists
    <3>2. \A t \in Terminals :
            \/ /\ n.sessions[t] = m.sessions[t] /\ n.pending[t] = m.pending[t]
               /\ n.queue[t] = m.queue[t]
            \/ /\ m.sessions[t] # 0 /\ n.sessions[t] = 0
               /\ n.pending[t] = Null /\ n.queue[t] = <<>>
               /\ InUse(t) => t \in n.dropped
      BY <2>2, <2>6, <2>9 DEF Evicts, SameLists
    <3>3. n.records = c.records /\ n.deleted = m.deleted /\ m.dropped \subseteq n.dropped
      BY <2>2, <2>6, <2>9 DEF Evicts, SameLists
    <3> QED
      BY <1>1, <2>4, <2>10, <3>1, <3>2, <3>3, SMTT(30) DEF Stops, Live
  <2> QED
    BY <2>1, <2>9, <2>11
<1> QED
  BY <1>2, <1>3

LEMMA StartType ==
    ASSUME NEW r \in Records, NEW config \in Configs
    PROVE  LET started == [r EXCEPT !.status = "starting", !.config = config]
           IN  /\ started \in Records /\ started.status = "starting"
               /\ started.process = r.process /\ started.terminal = r.terminal
               /\ started.history = r.history
BY DEF Records

LEMMA BeginStartInv ==
    ASSUME NEW m, NEW X, MgrInv(m, X), NEW s, Live(m, s), NEW config \in Configs
    PROVE  LET n == BeginStart(m, s, config)
               stopped == stopProcess(m, s)
           IN  /\ MgrInv(n, X) /\ Stops(m, stopped, s)
               /\ n.sessions = stopped.sessions /\ n.pending = stopped.pending
               /\ n.queue = stopped.queue /\ n.dropped = stopped.dropped
               /\ \A t \in Terminals : Follows(stopped, n, t)
               /\ Live(n, s) /\ n.records[s].process = 0
               /\ n.records[s].terminal = m.records[s].terminal
<1> DEFINE stopped == stopProcess(m, s)
           a == Touch(stopped, s)
           r == [stopped.records[s] EXCEPT !.status = "starting", !.config = config]
           n == [a EXCEPT !.records[s] = r]
<1>1. BeginStart(m, s, config) = n
  BY DEF BeginStart, Update
<1>2. MgrInv(stopped, X) /\ Stops(m, stopped, s)
  BY StopInv
<1> HIDE DEF stopped
<1>3. Live(stopped, s) /\ stopped.records[s].process = 0
  BY <1>2 DEF Stops
<1>4. /\ s \in DOMAIN stopped.records /\ stopped.records[s] \in Records
      /\ stopped.records[s].status # "running"
  BY <1>2, <1>3, LiveFacts
<1>5. /\ MgrInv(a, X) /\ a.sessions = stopped.sessions /\ a.records = stopped.records
      /\ a.pending = stopped.pending /\ a.queue = stopped.queue /\ a.dropped = stopped.dropped
  BY <1>2, <1>4, TouchInv
<1>6. r \in Records /\ r.status = "starting" /\ r.process = 0
      /\ r.terminal = stopped.records[s].terminal /\ r.history = stopped.records[s].history
  BY <1>3, <1>4, StartType
<1>7. Live(a, s)
  BY <1>3, <1>5 DEF Live
<1> HIDE DEF a, r
<1>8. /\ MgrInv(n, X) /\ SameLists(a, n) /\ \A t : Follows(a, n, t)
      /\ DOMAIN n.records = DOMAIN a.records /\ n.records[s] = r
      /\ \A u \in DOMAIN a.records : u # s => n.records[u] = a.records[u]
  <2>1. /\ r.terminal = a.records[s].terminal /\ r.process = a.records[s].process
        /\ r.history = a.records[s].history
        /\ r.status = "running" <=> a.records[s].status = "running"
    BY <1>3, <1>4, <1>5, <1>6
  <2> HIDE DEF n
  <2>2. n = [a EXCEPT !.records[s] = r]
    BY DEF n
  <2>3. Rewrites(a, n, X, s, r)
    BY <1>6, <2>1, <2>2 DEF Rewrites
  <2>4. MgrInv(a, X)
    BY <1>5
  <2> QED
    BY ONLY <1>7, <2>3, <2>4, RecordInv
<1> HIDE DEF n
<1>9. /\ DOMAIN n.records = DOMAIN stopped.records /\ n.records[s] = r
      /\ \A u \in DOMAIN stopped.records : u # s => n.records[u] = stopped.records[u]
  BY <1>5, <1>8
<1>10. /\ n.sessions = stopped.sessions /\ n.pending = stopped.pending
       /\ n.queue = stopped.queue /\ n.dropped = stopped.dropped
  BY <1>5, <1>8 DEF SameLists
<1>11. ASSUME NEW t \in Terminals PROVE Follows(stopped, n, t)
  <2>1. Follows(stopped, a, t)
    BY <1>5 DEF Follows, Unsaved, Live
  <2> QED
    BY <1>8, <2>1, FollowsAll
<1>12. /\ Live(n, s) /\ n.records[s].process = 0
       /\ n.records[s].terminal = m.records[s].terminal
  BY <1>2, <1>4, <1>6, <1>9 DEF Live, Stops
<1> QED
  BY <1>1, <1>2, <1>8, <1>10, <1>11, <1>12 DEF stopped

LEMMA MoreExcepted ==
    ASSUME NEW m, NEW X, NEW Y, X \subseteq Y, MgrInv(m, X)
    PROVE  MgrInv(m, Y)
BY DEF MgrInv, Saved

\* All fields but pending, queue and timers are the same.
SameRecords(m, n) ==
    /\ n.sessions = m.sessions /\ n.records = m.records /\ n.recency = m.recency
    /\ n.processes = m.processes /\ n.killTimers = m.killTimers /\ n.detached = m.detached
    /\ n.dropped = m.dropped /\ n.deleted = m.deleted

\* What is on its way to the disk is as it was, or what the listed record holds.
LEMMA WritesInv ==
    ASSUME NEW m, NEW n, NEW X, NEW Y, MgrInv(m, X), n \in Managers, SameRecords(m, n),
           \A t \in Terminals \ (m.dropped \cup Y) : m.sessions[t] # 0 =>
              \/ t \notin X /\ Will(n, t, file[t]) = Will(m, t, file[t])
              \/ Will(n, t, file[t]) = m.records[m.sessions[t]].history,
           \A t \in m.deleted \ m.dropped : Will(n, t, file[t]) = Will(m, t, file[t])
    PROVE  MgrInv(n, Y)
<1>1. m \in Managers /\ Linked(m) /\ Lists(m) /\ Alone(m) /\ Saved(m, X)
  BY DEF MgrInv
<1>2. Linked(n) /\ Lists(n) /\ Alone(n)
  <2>1. Linked(n)
    BY <1>1 DEF Linked, Live, SameRecords
  <2>2. Lists(n)
    BY <1>1, SMTT(30) DEF Lists, Live, Listed, SameRecords
  <2>3. Alone(n)
    BY <1>1 DEF Alone, SameRecords
  <2> QED
    BY <2>1, <2>2, <2>3
<1>3. Saved(n, Y)
  <2>1. ASSUME NEW t \in Terminals \ (n.dropped \cup Y), n.sessions[t] # 0
        PROVE  Will(n, t, file[t]) = n.records[n.sessions[t]].history
    BY <1>1, <2>1 DEF Saved, SameRecords
  <2> QED
    BY <1>1, <2>1 DEF Saved, SameRecords
<1> QED
  BY <1>2, <1>3 DEF MgrInv

\* The record of a terminal leaves the list; it has no process any more.
LEMMA UnlistInv ==
    ASSUME NEW m, NEW X, MgrInv(m, X), NEW t \in Terminals, m.sessions[t] # 0,
           m.records[m.sessions[t]].process = 0
    PROVE  LET n == Unlist(m, t)
           IN  /\ MgrInv(n, X) /\ n.sessions = [m.sessions EXCEPT ![t] = 0]
               /\ n.dropped = m.dropped
               /\ \A u \in Terminals : u # t => Follows(m, n, u)
<1> DEFINE s == m.sessions[t]
           sessions == [m.sessions EXCEPT ![t] = 0]
           recency == Outside(m.recency, {s})
           records == [m.records EXCEPT ![s] = Closed]
           n == Unlist(m, t)
<1>1. m \in Managers /\ Linked(m) /\ Lists(m) /\ Alone(m) /\ Saved(m, X)
  BY DEF MgrInv
<1>2. n = [m EXCEPT !.sessions = sessions, !.recency = recency, !.records = records]
  BY <1>1, WithoutIsOutside, ManagerFields DEF Unlist
<1>3. Closed \notin Records
  <2>1. DOMAIN Closed = {"status"}
    OBVIOUS
  <2>2. \A r \in Records : "terminal" \in DOMAIN r
    BY DEF Records
  <2> HIDE DEF Closed
  <2> QED
    BY <2>1, <2>2
<1> HIDE DEF n, sessions, recency, records
<1>4. /\ n.sessions = sessions /\ n.recency = recency /\ n.records = records
      /\ n.processes = m.processes /\ n.killTimers = m.killTimers /\ n.pending = m.pending
      /\ n.timers = m.timers /\ n.queue = m.queue /\ n.detached = m.detached
      /\ n.dropped = m.dropped /\ n.deleted = m.deleted
      /\ n = [sessions |-> n.sessions, records |-> n.records, recency |-> n.recency,
              processes |-> n.processes, killTimers |-> n.killTimers,
              pending |-> n.pending, timers |-> n.timers, queue |-> n.queue,
              detached |-> n.detached, dropped |-> n.dropped, deleted |-> n.deleted]
  <2>1. n = [sessions |-> sessions, records |-> records, recency |-> recency,
             processes |-> m.processes, killTimers |-> m.killTimers,
             pending |-> m.pending, timers |-> m.timers, queue |-> m.queue,
             detached |-> m.detached, dropped |-> m.dropped, deleted |-> m.deleted]
    <3>1. m = [sessions |-> m.sessions, records |-> m.records, recency |-> m.recency,
               processes |-> m.processes, killTimers |-> m.killTimers,
               pending |-> m.pending, timers |-> m.timers, queue |-> m.queue,
               detached |-> m.detached, dropped |-> m.dropped, deleted |-> m.deleted]
      BY <1>1, ManagerFields
    <3> QED
      BY <1>2, <3>1
  <2> QED
    BY <2>1
<1>5. /\ s \in Nat /\ s # 0 /\ s \in DOMAIN m.records /\ m.records[s] \in Records
      /\ m.records[s].terminal = t /\ Live(m, s)
  BY <1>1, ManagerFields DEF Lists, Live
<1> HIDE DEF s
<1>6. /\ records \in Seq(Records \cup {Closed}) /\ DOMAIN records = DOMAIN m.records
      /\ records[s] = Closed
      /\ \A u \in DOMAIN m.records : u # s => records[u] = m.records[u]
  BY <1>1, <1>5, ManagerFields, ExceptFacts DEF records
<1>7. /\ recency \in Seq(Nat)
      /\ \A i \in DOMAIN recency :
            recency[i] \notin {s} /\ \E j \in DOMAIN m.recency : recency[i] = m.recency[j]
      /\ \A i, j \in DOMAIN recency : recency[i] = recency[j] => i = j
  <2>1. m.recency \in Seq(Nat) /\ \A i, j \in DOMAIN m.recency : m.recency[i] = m.recency[j] => i = j
    BY <1>1 DEF Managers, Lists
  <2> QED
    BY <2>1, FilteredRecency DEF recency
<1>8. /\ sessions \in [Terminals -> Nat] /\ sessions[t] = 0
      /\ \A u \in Terminals : u # t => sessions[u] = m.sessions[u]
  BY <1>1, ManagerFields DEF sessions
<1>9. n \in Managers
  BY <1>1, <1>4, <1>6, <1>7, <1>8, ManagerFields DEF Managers
<1>10. \A u : Live(n, u) <=> (Live(m, u) /\ u # s)
  BY <1>3, <1>4, <1>6 DEF Live
<1>11. Linked(n)
  <2>1. ASSUME NEW p \in DOMAIN m.processes PROVE m.processes[p].session # s
    <3>1. p # 0
      BY <1>1, ProcessType
    <3> QED
      BY <1>1, <1>5, <3>1 DEF Linked, s
  <2> QED
    BY <1>1, <1>4, <1>6, <1>10, <2>1 DEF Linked, Live
<1>12. \A u \in Terminals : u # t /\ m.sessions[u] # 0 => m.sessions[u] # s /\ Live(m, m.sessions[u])
  BY <1>1, <1>5 DEF Lists
<1>13. Lists(n)
  <2>1. \A u \in Terminals : n.sessions[u] # 0 =>
           Live(n, n.sessions[u]) /\ n.records[n.sessions[u]].terminal = u
    BY <1>1, <1>4, <1>6, <1>8, <1>10, <1>12, SMTT(30) DEF Lists, Live
  <2>2. \A v \in Listed(m) : v # s => v \in Listed(n)
    BY <1>4, <1>8 DEF Listed, s
  <2> QED
    BY <1>1, <1>4, <1>7, <2>1, <2>2 DEF Lists
<1>14. Alone(n)
  <2>1. \A p \in DOMAIN m.processes : m.processes[p].terminal \in Terminals /\ p # 0
    BY <1>1, ProcessType
  <2> QED
    BY <1>1, <1>4, <1>6, <1>8, <1>12, <2>1, SMTT(30) DEF Alone, Live, s
<1>15. Saved(n, X)
  <2>1. \A u : Will(n, u, file[u]) = Will(m, u, file[u])
    BY <1>4 DEF Will
  <2>2. m.deleted \subseteq Terminals
    BY <1>1, ManagerFields
  <2>3. ASSUME NEW u \in Terminals \ (n.dropped \cup X), n.sessions[u] # 0
        PROVE  Will(n, u, file[u]) = n.records[n.sessions[u]].history
    <3>1. u # t /\ n.sessions[u] = m.sessions[u]
      BY <1>4, <1>8, <2>3
    <3>2. n.records[n.sessions[u]] = m.records[m.sessions[u]]
      BY <1>4, <1>6, <1>12, <2>3, <3>1 DEF Live
    <3> QED
      BY <1>1, <1>4, <2>1, <2>3, <3>1, <3>2 DEF Saved
  <2>4. \A u \in n.deleted : n.sessions[u] = 0
    BY <1>1, <1>4, <1>8, <2>2 DEF Saved
  <2> QED
    BY <1>1, <1>4, <2>1, <2>3, <2>4 DEF Saved
<1>16. ASSUME NEW u \in Terminals, u # t PROVE Follows(m, n, u)
  BY <1>4, <1>5, <1>6, <1>8, <1>10, <1>16 DEF Follows, Unsaved
<1> QED
  BY <1>4, <1>9, <1>11, <1>13, <1>14, <1>15, <1>16 DEF MgrInv, n, sessions

-----------------------------------------------------------------------------
(* Writes on their way, and new records *)

\* The transcript of t is exchanged for h, which is queued to be written.
LEMMA PersistInv ==
    ASSUME NEW m, NEW X, MgrInv(m, X), NEW t \in Terminals, NEW h \in Histories,
           m.sessions[t] # 0 /\ (t \notin m.dropped => m.records[m.sessions[t]].history = h)
    PROVE  LET n == persistHistory(m, t, h)
           IN  /\ MgrInv(n, X \ {t}) /\ SameRecords(m, n)
               /\ \A u \in Terminals : Follows(m, n, u)
<1> DEFINE pending == [m.pending EXCEPT ![t] = Null]
           timers == m.timers \ {t}
           queue == [m.queue EXCEPT ![t] = Append(m.queue[t], h)]
           n == persistHistory(m, t, h)
<1>1. m \in Managers /\ Linked(m) /\ Lists(m) /\ Alone(m) /\ Saved(m, X)
  BY DEF MgrInv
<1>2. n = [m EXCEPT !.timers = timers, !.pending = pending, !.queue = queue]
  BY <1>1, ManagerFields DEF persistHistory, enqueuePersistWrite
<1>3. /\ pending \in [Terminals -> Histories \cup {Null}] /\ pending[t] = Null
      /\ \A u \in Terminals : u # t => pending[u] = m.pending[u]
  BY <1>1, ManagerFields
<1>4. m.queue[t] \in Seq(Histories)
  BY <1>1, ManagerFields
<1>5. /\ Append(m.queue[t], h) \in Seq(Histories) /\ Append(m.queue[t], h) # <<>>
      /\ Append(m.queue[t], h)[Len(Append(m.queue[t], h))] = h
  BY <1>4, AppendSeqFacts
<1>6. /\ queue \in [Terminals -> Seq(Histories)] /\ queue[t] # <<>> /\ queue[t][Len(queue[t])] = h
      /\ \A u \in Terminals : u # t => queue[u] = m.queue[u]
  BY <1>1, <1>5, ManagerFields
<1>7. timers \in SUBSET Terminals
  BY <1>1, ManagerFields
<1> HIDE DEF n, pending, timers, queue
<1>8. m = [sessions |-> m.sessions, records |-> m.records, recency |-> m.recency,
           processes |-> m.processes, killTimers |-> m.killTimers,
           pending |-> m.pending, timers |-> m.timers, queue |-> m.queue,
           detached |-> m.detached, dropped |-> m.dropped, deleted |-> m.deleted]
  BY <1>1, ManagerFields
<1>9. n = [sessions |-> m.sessions, records |-> m.records, recency |-> m.recency,
           processes |-> m.processes, killTimers |-> m.killTimers,
           pending |-> pending, timers |-> timers, queue |-> queue,
           detached |-> m.detached, dropped |-> m.dropped, deleted |-> m.deleted]
  BY <1>2, <1>8
<1>10. SameRecords(m, n) /\ n.pending = pending /\ n.timers = timers /\ n.queue = queue
  BY <1>9 DEF SameRecords
<1>11. n \in Managers
  BY <1>1, <1>3, <1>6, <1>7, <1>9, ManagerFields DEF Managers
<1>12. Will(n, t, file[t]) = h
  BY <1>3, <1>6, <1>10 DEF Will
<1>13. \A u \in Terminals : u # t => Will(n, u, file[u]) = Will(m, u, file[u])
  BY <1>3, <1>6, <1>10 DEF Will
<1>14. \A u \in m.deleted : u \in Terminals /\ u # t
  BY <1>1, ManagerFields DEF Saved
<1>15. MgrInv(n, X \ {t})
  <2>1. \A u \in Terminals \ (m.dropped \cup (X \ {t})) : m.sessions[u] # 0 =>
           \/ u \notin X /\ Will(n, u, file[u]) = Will(m, u, file[u])
           \/ Will(n, u, file[u]) = m.records[m.sessions[u]].history
    BY <1>12, <1>13
  <2>2. \A u \in m.deleted \ m.dropped : Will(n, u, file[u]) = Will(m, u, file[u])
    BY <1>13, <1>14
  <2> QED
    BY <1>10, <1>11, <2>1, <2>2, WritesInv
<1>16. ASSUME NEW u \in Terminals PROVE Follows(m, n, u)
  <2>1. \A v : Live(n, v) <=> Live(m, v)
    BY <1>10 DEF Live, SameRecords
  <2>2. Unsaved(n, u) => Unsaved(m, u) \/ m.sessions[u] # 0
    <3>1. CASE u = t
      BY <3>1
    <3>2. CASE u # t
      BY <1>3, <1>6, <1>10, <3>2 DEF Unsaved
    <3> QED
      BY <3>1, <3>2
  <2> QED
    BY <1>10, <2>1, <2>2 DEF Follows, SameRecords
<1> QED
  BY <1>10, <1>15, <1>16 DEF n

\* A record is made for a terminal that has none listed.
LEMMA NewRecordInv ==
    ASSUME NEW m, NEW X, MgrInv(m, X), NEW t \in Terminals, m.sessions[t] = 0,
           NEW config \in Configs, NEW history \in Histories,
           t \in m.dropped \cup X \/ history = Will(m, t, file[t])
    PROVE  LET n == NewRecord(m, t, config, history)
               s == Len(n.records)
           IN  /\ MgrInv(n, X) /\ s \in Nat /\ n.sessions = [m.sessions EXCEPT ![t] = s]
               /\ n.dropped = m.dropped
               /\ Live(n, s) /\ n.records[s].terminal = t /\ n.records[s].process = 0
               /\ n.recency # <<>> /\ n.recency[Len(n.recency)] = s
               /\ \A u \in Terminals : u # t => Follows(m, n, u)
<1> DEFINE s == Len(m.records) + 1
           r == [terminal |-> t, status |-> "starting", process |-> 0,
                 history |-> history, config |-> config]
           records == Append(m.records, r)
           sessions == [m.sessions EXCEPT ![t] = s]
           recency == Append(m.recency, s)
           deleted == m.deleted \ {t}
           n == NewRecord(m, t, config, history)
<1>1. m \in Managers /\ Linked(m) /\ Lists(m) /\ Alone(m) /\ Saved(m, X)
  BY DEF MgrInv
<1>2. n = [m EXCEPT !.records = records, !.sessions = sessions, !.deleted = deleted,
                    !.recency = recency]
  BY <1>1, ManagerFields DEF NewRecord
<1>3. r \in Records /\ r \in Records \cup {Closed} /\ r.process = 0 /\ r.status # "running"
      /\ r.terminal = t /\ r.history = history
  BY DEF Records
<1> HIDE DEF r
<1>4. m.records \in Seq(Records \cup {Closed})
  BY <1>1, ManagerFields
<1>5. /\ records \in Seq(Records \cup {Closed}) /\ Len(m.records) \in Nat /\ Len(records) = s
      /\ DOMAIN m.records = 1..Len(m.records) /\ DOMAIN records = 1..s /\ records[s] = r
      /\ \A u \in DOMAIN m.records : records[u] = m.records[u]
  BY <1>3, <1>4, AppendSeqFacts
<1>6. s \in Nat /\ s # 0 /\ s \notin DOMAIN m.records
      /\ DOMAIN records = DOMAIN m.records \cup {s}
  BY <1>5
<1> HIDE DEF s, records
<1>7. m.recency \in Seq(Nat)
  BY <1>1, ManagerFields
<1>8. /\ recency \in Seq(Nat) /\ recency # <<>> /\ Len(m.recency) \in Nat
      /\ DOMAIN m.recency = 1..Len(m.recency) /\ Len(recency) = Len(m.recency) + 1
      /\ DOMAIN recency = 1..(Len(m.recency) + 1)
      /\ recency[Len(recency)] = s /\ recency[Len(m.recency) + 1] = s
      /\ \A i \in 1..Len(m.recency) : recency[i] = m.recency[i]
  BY <1>6, <1>7, AppendSeqFacts, SMTT(30)
<1>9. /\ sessions \in [Terminals -> Nat] /\ sessions[t] = s
      /\ \A u \in Terminals : u # t => sessions[u] = m.sessions[u]
  BY <1>1, <1>6, ManagerFields
<1>10. deleted \in SUBSET Terminals /\ deleted \subseteq m.deleted /\ t \notin deleted
  BY <1>1, ManagerFields
<1> HIDE DEF n, sessions, recency, deleted
<1>11. /\ n = [sessions |-> sessions, records |-> records, recency |-> recency,
               processes |-> m.processes, killTimers |-> m.killTimers,
               pending |-> m.pending, timers |-> m.timers, queue |-> m.queue,
               detached |-> m.detached, dropped |-> m.dropped, deleted |-> deleted]
  <2>1. m = [sessions |-> m.sessions, records |-> m.records, recency |-> m.recency,
             processes |-> m.processes, killTimers |-> m.killTimers,
             pending |-> m.pending, timers |-> m.timers, queue |-> m.queue,
             detached |-> m.detached, dropped |-> m.dropped, deleted |-> m.deleted]
    BY <1>1, ManagerFields
  <2> QED
    BY <1>2, <2>1
<1>12. /\ n.sessions = sessions /\ n.recency = recency /\ n.records = records
       /\ n.processes = m.processes /\ n.killTimers = m.killTimers /\ n.pending = m.pending
       /\ n.timers = m.timers /\ n.queue = m.queue /\ n.detached = m.detached
       /\ n.dropped = m.dropped /\ n.deleted = deleted
  BY <1>11
<1>13. n \in Managers
  BY <1>1, <1>5, <1>8, <1>9, <1>10, <1>11, ManagerFields DEF Managers
<1>14. \A u : Live(n, u) <=> (Live(m, u) \/ u = s)
  BY <1>3, <1>5, <1>6, <1>12 DEF Live
<1>15. Linked(n)
  <2>1. ASSUME NEW u \in DOMAIN n.records, Live(n, u)
        PROVE  /\ n.records[u].status = "running" <=> n.records[u].process # 0
               /\ n.records[u].process # 0 =>
                    /\ n.records[u].process \in DOMAIN n.processes
                    /\ n.processes[n.records[u].process].session = u
    <3>1. CASE u = s
      BY <1>3, <1>5, <1>12, <3>1
    <3>2. CASE u # s
      BY <1>1, <1>5, <1>12, <1>14, <2>1, <3>2, SMTT(30) DEF Linked, Live
    <3> QED
      BY <3>1, <3>2
  <2>2. ASSUME NEW p \in DOMAIN n.processes
        PROVE  LET u == n.processes[p].session
               IN  /\ n.processes[p].state = "alive" <=> u # 0
                   /\ u # 0 => /\ Live(n, u)
                               /\ n.records[u].process = p
                               /\ n.records[u].terminal = n.processes[p].terminal
    BY <1>1, <1>5, <1>12, <1>14 DEF Linked, Live
  <2>3. \A p \in n.killTimers : p \in DOMAIN n.processes /\ n.processes[p].session = 0
    BY <1>1, <1>12 DEF Linked
  <2> QED
    BY <2>1, <2>2, <2>3 DEF Linked
<1>16. Lists(n)
  <2>1. \A u \in Terminals : n.sessions[u] # 0 =>
           Live(n, n.sessions[u]) /\ n.records[n.sessions[u]].terminal = u
    <3> TAKE u \in Terminals
    <3>1. CASE u = t
      BY <1>3, <1>5, <1>9, <1>12, <1>14, <3>1
    <3>2. CASE u # t
      BY <1>1, <1>5, <1>9, <1>12, <1>14, <3>2 DEF Lists, Live
    <3> QED
      BY <3>1, <3>2
  <2>2. s \in Listed(n) /\ s \notin Listed(m)
    <3>1. s \in Listed(n)
      BY <1>6, <1>9, <1>12 DEF Listed
    <3>2. \A v \in Listed(m) : v \in DOMAIN m.records
      BY <1>1 DEF Listed, Lists, Live
    <3> QED
      BY <1>6, <3>1, <3>2
  <2>3. \A v \in Listed(m) : v \in Listed(n)
    BY <1>9, <1>12 DEF Listed
  <2>4. \A i \in DOMAIN m.recency : m.recency[i] \in Listed(m)
    BY <1>1 DEF Lists
  <2>5. \A i \in DOMAIN n.recency : n.recency[i] \in Listed(n)
    BY <1>8, <1>12, <2>2, <2>3, <2>4, SMTT(30)
  <2>6. \A i, j \in DOMAIN m.recency : m.recency[i] = m.recency[j] => i = j
    BY <1>1 DEF Lists
  <2>7. ASSUME NEW i \in DOMAIN n.recency, NEW j \in DOMAIN n.recency, n.recency[i] = n.recency[j]
        PROVE  i = j
    <3>1. i \in 1..Len(m.recency) => n.recency[i] # s
      BY <1>8, <1>12, <2>2, <2>4, SMTT(30)
    <3>2. j \in 1..Len(m.recency) => n.recency[j] # s
      BY <1>8, <1>12, <2>2, <2>4, SMTT(30)
    <3>3. i \in 1..Len(m.recency) /\ j \in 1..Len(m.recency) => i = j
      BY <1>8, <1>12, <2>6, <2>7
    <3>4. /\ i \in 1..Len(m.recency) \/ i = Len(m.recency) + 1
          /\ j \in 1..Len(m.recency) \/ j = Len(m.recency) + 1
      BY <1>8, <1>12, SMTT(30)
    <3> QED
      BY <1>8, <1>12, <2>7, <3>1, <3>2, <3>3, <3>4
  <2> QED
    BY <2>1, <2>5, <2>7 DEF Lists
<1>17. Alone(n)
  <2>1. \A p \in DOMAIN m.processes : m.processes[p].terminal \in Terminals
    BY <1>1, ProcessType
  <2>2. \A u \in Terminals : m.sessions[u] # 0 => m.sessions[u] \in DOMAIN m.records
    BY <1>1 DEF Lists, Live
  <2> QED
    BY <1>1, <1>5, <1>9, <1>12, <2>1, <2>2, SMTT(30) DEF Alone
<1>18. Saved(n, X)
  <2>1. \A u : Will(n, u, file[u]) = Will(m, u, file[u])
    BY <1>12 DEF Will
  <2>2. ASSUME NEW u \in Terminals \ (n.dropped \cup X), n.sessions[u] # 0
        PROVE  Will(n, u, file[u]) = n.records[n.sessions[u]].history
    <3>1. CASE u = t
      BY <1>3, <1>5, <1>9, <1>12, <2>1, <2>2, <3>1
    <3>2. CASE u # t
      <4>1. n.sessions[u] = m.sessions[u] /\ m.sessions[u] \in DOMAIN m.records
        BY <1>1, <1>9, <1>12, <2>2, <3>2 DEF Lists, Live
      <4> QED
        BY <1>1, <1>5, <1>12, <2>1, <2>2, <4>1 DEF Saved
    <3> QED
      BY <3>1, <3>2
  <2>3. \A u \in n.deleted : n.sessions[u] = 0
    BY <1>1, <1>9, <1>10, <1>12 DEF Saved
  <2> QED
    BY <1>1, <1>10, <1>12, <2>1, <2>2, <2>3 DEF Saved
<1>19. ASSUME NEW u \in Terminals, u # t PROVE Follows(m, n, u)
  BY <1>5, <1>9, <1>12, <1>14, <1>19 DEF Follows, Unsaved, Live
<1>20. Live(n, s) /\ n.records[s].terminal = t /\ n.records[s].process = 0
  BY <1>3, <1>5, <1>12, <1>14
<1>21. Len(n.records) = s
  BY <1>5, <1>12
<1>22. n.sessions = [m.sessions EXCEPT ![t] = s]
  BY <1>12 DEF sessions
<1>23. n.recency # <<>> /\ n.recency[Len(n.recency)] = s
  BY <1>8, <1>12
<1> QED
  BY <1>6, <1>12, <1>13, <1>15, <1>16, <1>17, <1>18, <1>19, <1>20, <1>21, <1>22, <1>23 DEF MgrInv, n

\* A listed record starts anew.
LEMMA ResetInv ==
    ASSUME NEW m, NEW X, MgrInv(m, X), NEW s, Live(m, s), NEW config \in Configs,
           X \subseteq {m.records[s].terminal}, m.sessions[m.records[s].terminal] = s
    PROVE  LET n == Reset(m, s, config)
           IN  /\ MgrInv(n, {}) /\ n.sessions = m.sessions /\ n.dropped = m.dropped
               /\ Live(n, s) /\ n.records[s].terminal = m.records[s].terminal
               /\ \A t \in Terminals : Follows(m, n, t)
<1> DEFINE t == m.records[s].terminal
           r == [m.records[s] EXCEPT !.config = config, !.history = <<>>]
           a == [m EXCEPT !.records[s] = r]
           n == persistHistory(a, t, <<>>)
<1>1. m \in Managers /\ t \in Terminals /\ s \in DOMAIN m.records /\ m.records[s] \in Records
      /\ s # 0
  BY LiveFacts DEF MgrInv
<1>2. /\ r \in Records /\ r.terminal = t /\ r.process = m.records[s].process
      /\ r.status = m.records[s].status /\ r.history = <<>>
  BY <1>1, Constants DEF Records
<1>3. Reset(m, s, config) = n
  <2>1. m.records \in Seq(Records \cup {Closed})
    BY <1>1, ManagerFields
  <2>2. [m EXCEPT !.records[s].config = config, !.records[s].history = <<>>] = a
    BY <1>1, <2>1, ManagerFields
  <2> QED
    BY <2>2 DEF Reset
<1> HIDE DEF r, t
<1>4. Rewrites(m, a, {t}, s, r)
  BY <1>2 DEF Rewrites, t
<1>5. MgrInv(m, {t})
  BY MoreExcepted DEF t
<1> HIDE DEF a, n
<1>6. /\ MgrInv(a, {t}) /\ SameLists(m, a)
      /\ DOMAIN a.records = DOMAIN m.records /\ a.records[s] = r
  BY ONLY <1>4, <1>5, Live(m, s), RecordInv
<1>7. \A u : Follows(m, a, u)
  BY <1>4, <1>5, RecordInv
<1> USE DEF n
<1>8. a.records[s] = r /\ DOMAIN a.records = DOMAIN m.records
  BY <1>6
<1>9. a.sessions[t] = s /\ a.sessions[t] # 0 /\ a.records[a.sessions[t]].history = <<>>
  BY <1>1, <1>2, <1>6, <1>8 DEF t, SameLists
<1>10. MgrInv(n, {t} \ {t}) /\ SameRecords(a, n) /\ \A u \in Terminals : Follows(a, n, u)
  BY <1>1, <1>6, <1>9, Constants, PersistInv
<1> HIDE DEF n
<1>11. MgrInv(n, {})
  <2>1. {t} \ {t} = {}
    OBVIOUS
  <2> QED
    BY <1>10, <2>1
<1>12. ASSUME NEW u \in Terminals PROVE Follows(m, n, u)
  BY <1>7, <1>10, FollowsAll
<1> QED
  BY <1>1, <1>2, <1>3, <1>6, <1>8, <1>10, <1>11, <1>12 DEF SameLists, SameRecords, Live, t

-----------------------------------------------------------------------------
(* close *)

\* SetToSeq lists every member of a finite set.
LEMMA SetToSeqFacts ==
    ASSUME NEW S, IsFiniteSet(S)
    PROVE  /\ SetToSeq(S) \in Seq(S)
           /\ \A e \in S : \E i \in DOMAIN SetToSeq(S) : SetToSeq(S)[i] = e
<1> DEFINE D == 1..Cardinality(S)
           q == SetToSeq(S)
<1>1. Cardinality(S) \in Nat /\ ExistsBijection(D, S)
  BY FS_CardinalityType
<1>2. PICK f : f \in Bijection(D, S)
  BY <1>1 DEF ExistsBijection
<1>3. f \in [D -> S] /\ IsInjective(f)
  BY <1>2 DEF Bijection, Injection
<1>4. q \in [D -> S] /\ IsInjective(q)
  BY <1>3 DEF SetToSeq
<1> HIDE DEF q
<1>5. q \in Injection(D, S)
  BY <1>4 DEF Injection
<1>6. IsFiniteSet(D) /\ Cardinality(D) = Cardinality(S)
  BY <1>1, FS_Interval
<1>7. q \in Surjection(D, S)
  BY <1>5, <1>6, FS_Injection
<1>8. \A e \in S : \E i \in D : q[i] = e
  BY <1>7 DEF Surjection
<1>9. q \in Seq(S) /\ DOMAIN q = D
  BY <1>1, <1>4
<1> QED
  BY <1>8, <1>9 DEF q

\* The managers that close goes through, after each terminal of order.
Closing(m, order) ==
    CHOOSE closed : closed = [i \in 0..Len(order) |->
                                IF i = 0 THEN m ELSE StopAndUnlist(closed[i - 1], order[i])]

LEMMA ClosingFacts ==
    ASSUME NEW m, NEW order, Len(order) \in Nat
    PROVE  /\ Closing(m, order)[0] = m
           /\ \A i \in 1..Len(order) :
                 Closing(m, order)[i] = StopAndUnlist(Closing(m, order)[i - 1], order[i])
<1> DEFINE Is(closed, k) ==
               closed = [i \in 0..k |-> IF i = 0 THEN m ELSE StopAndUnlist(closed[i - 1], order[i])]
           T == {k \in Nat : \E closed : Is(closed, k)}
<1>1. 0 \in T
  <2>1. Is([i \in 0..0 |-> m], 0)
    OBVIOUS
  <2> QED
    BY <2>1
<1>2. ASSUME NEW k \in T PROVE k + 1 \in T
  <2>1. PICK closed : Is(closed, k)
    BY <1>2
  <2> DEFINE next == [i \in 0..(k + 1) |-> IF i = k + 1 THEN StopAndUnlist(closed[k], order[k + 1])
                                           ELSE closed[i]]
  <2>2. \A i \in 0..k : closed[i] = IF i = 0 THEN m ELSE StopAndUnlist(closed[i - 1], order[i])
    BY <2>1
  <2>3. ASSUME NEW i \in 0..(k + 1)
        PROVE  next[i] = IF i = 0 THEN m ELSE StopAndUnlist(next[i - 1], order[i])
    <3>1. CASE i = k + 1
      <4>1. i # 0 /\ i - 1 = k /\ k \in 0..(k + 1) /\ k # k + 1
        BY <3>1
      <4> QED
        BY <3>1, <4>1
    <3>2. CASE i # k + 1 /\ i # 0
      <4>1. i \in 0..k /\ i - 1 \in 0..(k + 1) /\ i - 1 # k + 1
        BY <3>2
      <4> QED
        BY <2>2, <3>2, <4>1
    <3>3. CASE i = 0
      BY <2>2, <3>3
    <3> QED
      BY <3>1, <3>2, <3>3
  <2>4. Is(next, k + 1)
    <3> DEFINE F == [i \in 0..(k + 1) |-> IF i = 0 THEN m ELSE StopAndUnlist(next[i - 1], order[i])]
    <3>1. next = [i \in 0..(k + 1) |-> next[i]]
      OBVIOUS
    <3> HIDE DEF next
    <3>2. next = F
      BY <2>3, <3>1
    <3> QED
      BY <3>2
  <2> HIDE DEF Is, next
  <2> QED
    BY <2>4
<1> HIDE DEF Is
<1>3. T = Nat
  BY <1>1, <1>2, SetInduction
<1>4. \E closed : Is(closed, Len(order))
  BY <1>3
<1>5. Is(Closing(m, order), Len(order))
  BY <1>4 DEF Closing, Is
<1> QED
  BY <1>5 DEF Is

\* One terminal: its process is asked to end and its record leaves the list.
LEMMA StopAndUnlistInv ==
    ASSUME NEW m, MgrInv(m, {}), NEW t \in Terminals, ~InUse(t)
    PROVE  LET n == StopAndUnlist(m, t)
           IN  /\ MgrInv(n, {}) /\ n.sessions[t] = 0
               /\ \A u \in Terminals : m.sessions[u] = 0 => n.sessions[u] = 0
               /\ \A u \in Terminals : InUse(u) => Follows(m, n, u)
<1> DEFINE s == m.sessions[t]
           a == stopProcess(m, s)
           n == StopAndUnlist(m, t)
<1>1. CASE s = 0
  <2>1. n = m
    BY <1>1 DEF StopAndUnlist
  <2> QED
    BY <1>1, <2>1 DEF Follows, Unsaved
<1>2. CASE s # 0
  <2>1. Live(m, s) /\ m.records[s].terminal = t
    BY <1>2 DEF MgrInv, Lists
  <2>2. s \in Listed(m)
    BY <1>2 DEF Listed
  <2>3. n = Unlist(a, t)
    BY <1>2 DEF StopAndUnlist
  <2>4. MgrInv(a, {}) /\ Stops(m, a, s)
    BY <2>1, StopInv
  <2> HIDE DEF n, a
  <2>5. a.sessions[t] = s /\ a.records[s].process = 0
    BY <2>1, <2>2, <2>4 DEF Stops
  <2> HIDE DEF s
  <2>6. /\ MgrInv(n, {}) /\ n.sessions = [a.sessions EXCEPT ![t] = 0]
        /\ n.dropped = a.dropped
        /\ \A u \in Terminals : u # t => Follows(a, n, u)
    BY <1>2, <2>3, <2>4, <2>5, UnlistInv
  <2>7. a.sessions \in [Terminals -> Nat]
    BY <2>4, ManagerFields DEF MgrInv
  <2>8. ASSUME NEW u \in Terminals, m.sessions[u] = 0 PROVE n.sessions[u] = 0
    BY <2>4, <2>6, <2>7, <2>8 DEF Stops
  <2>9. ASSUME NEW u \in Terminals, InUse(u) PROVE Follows(m, n, u)
    <3>1. Follows(m, a, u)
      BY <2>4, <2>9, StopsFollows
    <3>2. u # t
      BY <2>9
    <3> QED
      BY <2>6, <3>1, <3>2, FollowsAll
  <2> QED
    BY <2>6, <2>7, <2>8, <2>9 DEF n
<1> QED
  BY <1>1, <1>2

LEMMA ClosingInv ==
    ASSUME NEW m, MgrInv(m, {}), NEW ts, ts \subseteq Terminals, \A t \in ts : ~InUse(t)
    PROVE  LET order == SetToSeq(ts)
               n == Closing(m, order)[Len(order)]
           IN  /\ MgrInv(n, {}) /\ \A t \in ts : n.sessions[t] = 0
               /\ \A u \in Terminals : InUse(u) => Follows(m, n, u)
<1> DEFINE order == SetToSeq(ts)
           closed == Closing(m, order)
           Good(k) == /\ MgrInv(closed[k], {})
                      /\ \A j \in 1..k : closed[k].sessions[order[j]] = 0
                      /\ \A u \in Terminals : InUse(u) => Follows(m, closed[k], u)
           T == {k \in Nat : k <= Len(order) => Good(k)}
<1>1. IsFiniteSet(ts)
  BY Constants, FS_Subset
<1>2. order \in Seq(ts) /\ \A t \in ts : \E i \in DOMAIN order : order[i] = t
  BY <1>1, SetToSeqFacts
<1> HIDE DEF order
<1>3. /\ Len(order) \in Nat /\ DOMAIN order = 1..Len(order)
      /\ \A i \in 1..Len(order) : order[i] \in ts
  BY <1>2
<1>4. /\ closed[0] = m
      /\ \A i \in 1..Len(order) : closed[i] = StopAndUnlist(closed[i - 1], order[i])
  BY <1>3, ClosingFacts
<1> HIDE DEF closed
<1>5. 0 \in T
  BY <1>4 DEF Follows, Unsaved
<1>6. ASSUME NEW k \in T PROVE k + 1 \in T
  <2> SUFFICES ASSUME k + 1 <= Len(order) PROVE Good(k + 1)
    BY <1>6
  <2>1. k \in Nat /\ k + 1 \in 1..Len(order) /\ (k + 1) - 1 = k
    BY <1>3
  <2>2. Good(k)
    BY <1>3, <1>6, <2>1
  <2> DEFINE t == order[k + 1]
             b == closed[k]
             c == closed[k + 1]
  <2>3. c = StopAndUnlist(b, t) /\ t \in Terminals /\ ~InUse(t)
    BY <1>3, <1>4, <2>1
  <2> HIDE DEF b, c, t
  <2>4. MgrInv(b, {})
    BY <2>2 DEF b
  <2>5. /\ MgrInv(c, {}) /\ c.sessions[t] = 0
        /\ \A u \in Terminals : b.sessions[u] = 0 => c.sessions[u] = 0
        /\ \A u \in Terminals : InUse(u) => Follows(b, c, u)
    BY <2>3, <2>4, StopAndUnlistInv
  <2>6. ASSUME NEW j \in 1..(k + 1) PROVE c.sessions[order[j]] = 0
    <3>1. CASE j = k + 1
      BY <2>5, <3>1 DEF t
    <3>2. CASE j # k + 1
      <4>1. j \in 1..k /\ j \in 1..Len(order)
        BY <2>1, <3>2
      <4>2. b.sessions[order[j]] = 0
        BY <2>2, <4>1 DEF b
      <4> QED
        BY <1>3, <2>5, <4>1, <4>2
    <3> QED
      BY <3>1, <3>2
  <2>7. ASSUME NEW u \in Terminals, InUse(u) PROVE Follows(m, c, u)
    <3>1. Follows(m, b, u)
      BY <2>2, <2>7 DEF b
    <3> QED
      BY <2>5, <2>7, <3>1, FollowsAll
  <2> QED
    BY <2>5, <2>6, <2>7 DEF c
<1>7. T = Nat
  BY <1>5, <1>6, SetInduction
<1>8. Good(Len(order))
  BY <1>3, <1>7
<1>9. \A t \in ts : closed[Len(order)].sessions[t] = 0
  BY <1>2, <1>3, <1>8
<1> QED
  BY <1>8, <1>9 DEF order, closed

-----------------------------------------------------------------------------
(* The steps *)

\* The invariant after a step that leaves the files alone, said of what the step
\* makes of the manager and of the calls.
LEMMA AfterStep ==
    ASSUME IInv, file' = file, MgrInv(mgr', {}), op' \in [Threads -> Calls \cup {Null}],
           \A th \in Threads : op'[th] # Null => Working(mgr', op'[th], th)
    PROVE  IInv'
<1>1. TypeOK'
  BY DEF IInv, TypeOK, MgrInv
<1>2. MgrInv(mgr, {})'
  <2>1. Linked(mgr)' /\ Lists(mgr)' /\ Alone(mgr)'
    BY DEF MgrInv, Linked, Lists, Alone, Live, Listed
  <2>2. Saved(mgr, {})'
    BY DEF MgrInv, Saved, Will
  <2> QED
    BY <2>1, <2>2, SMTT(30) DEF MgrInv
<1>3. \A th \in Threads : op'[th] # Null => Working(mgr, op[th], th)'
  BY DEF Working, Live, Unsaved
<1> QED
  BY <1>1, <1>2, <1>3 DEF IInv

\* The calls of other threads find in m what they left.
LEMMA OthersWork ==
    ASSUME IInv, NEW m, NEW th \in Threads, op[th] # Null,
           \A t \in Terminals : InUse(t) /\ ThreadOf[t] = th => Follows(mgr, m, t)
    PROVE  Working(m, op[th], th)
<1>1. Working(mgr, op[th], th)
  BY DEF IInv
<1>2. \A t \in op[th].terminals : t \in Terminals /\ InUse(t) /\ ThreadOf[t] = th
  BY <1>1 DEF Working, TerminalsOf, InUse
<1> QED
  BY <1>1, <1>2, WorkingFollows

LEMMA ThreadFacts == \A t \in Terminals : ThreadOf[t] \in Threads /\ t \in TerminalsOf(ThreadOf[t])
BY DEF Threads, TerminalsOf

LEMMA BeginStep ==
    ASSUME IInv, NEW m, MgrInv(m, {}), NEW call \in Calls, NEW th \in Threads,
           Working(m, call, th), Begin(call, m),
           \A t \in Terminals : InUse(t) => Follows(mgr, m, t)
    PROVE  IInv'
<1>1. call.terminals # {} /\ call.terminals \subseteq TerminalsOf(th)
  BY DEF Working
<1>2. The(call.terminals) \in call.terminals
  BY <1>1 DEF The
<1>3. ThreadOf[The(call.terminals)] = th
  BY <1>1, <1>2 DEF TerminalsOf
<1>4. mgr' = m /\ op' = [op EXCEPT ![th] = call] /\ file' = file
  BY <1>3 DEF Begin
<1>5. op \in [Threads -> Calls \cup {Null}]
  BY DEF IInv, TypeOK
<1>6. op' \in [Threads -> Calls \cup {Null}]
  BY <1>4, <1>5
<1>7. ASSUME NEW other \in Threads, op'[other] # Null PROVE Working(mgr', op'[other], other)
  <2>1. CASE other = th
    BY <1>4, <1>5, <2>1
  <2>2. CASE other # th
    <3>1. op'[other] = op[other]
      BY <1>4, <1>5, <2>2
    <3>2. Working(m, op[other], other)
      BY <1>7, <3>1, OthersWork
    <3> QED
      BY <1>4, <3>1, <3>2
  <2> QED
    BY <2>1, <2>2
<1>8. MgrInv(mgr', {})
  BY <1>4
<1> QED
  BY <1>4, <1>6, <1>7, <1>8, AfterStep

LEMMA ContinueStep ==
    ASSUME IInv, NEW m, MgrInv(m, {}), NEW th \in Threads, op[th] # Null,
           NEW pc \in {"persist", "flush", "read", "delete", "spawn"}, NEW s \in Nat,
           Continue(th, m, pc, s),
           Working(m, [op[th] EXCEPT !.pc = pc, !.session = s], th),
           \A t \in Terminals : InUse(t) /\ ThreadOf[t] # th => Follows(mgr, m, t)
    PROVE  IInv'
<1> DEFINE call == [op[th] EXCEPT !.pc = pc, !.session = s]
<1>1. mgr' = m /\ op' = [op EXCEPT ![th] = call] /\ file' = file
  BY DEF Continue
<1>2. op \in [Threads -> Calls \cup {Null}]
  BY DEF IInv, TypeOK
<1>3. call \in Calls
  <2>1. op[th] \in Calls
    BY <1>2
  <2> QED
    BY <2>1 DEF Calls
<1> HIDE DEF call
<1>4. op' \in [Threads -> Calls \cup {Null}]
  BY <1>1, <1>2, <1>3
<1>5. ASSUME NEW other \in Threads, op'[other] # Null PROVE Working(mgr', op'[other], other)
  <2>1. CASE other = th
    BY <1>1, <1>2, <2>1 DEF call
  <2>2. CASE other # th
    <3>1. op'[other] = op[other]
      BY <1>1, <1>2, <2>2
    <3>2. Working(m, op[other], other)
      BY <1>5, <2>2, <3>1, OthersWork
    <3> QED
      BY <1>1, <3>1, <3>2
  <2> QED
    BY <2>1, <2>2
<1>6. MgrInv(mgr', {})
  BY <1>1
<1> QED
  BY <1>1, <1>4, <1>5, <1>6, AfterStep

LEMMA ReturnStep ==
    ASSUME IInv, NEW m, MgrInv(m, {}), NEW th \in Threads, Return(th, m),
           \A t \in Terminals : InUse(t) /\ ThreadOf[t] # th => Follows(mgr, m, t)
    PROVE  IInv'
<1>1. mgr' = m /\ op' = [op EXCEPT ![th] = Null] /\ file' = file
  BY DEF Return
<1>2. op \in [Threads -> Calls \cup {Null}]
  BY DEF IInv, TypeOK
<1>3. op' \in [Threads -> Calls \cup {Null}]
  BY <1>1, <1>2
<1>4. ASSUME NEW other \in Threads, op'[other] # Null PROVE Working(mgr', op'[other], other)
  <2>1. other # th /\ op'[other] = op[other]
    BY <1>1, <1>2, <1>4
  <2>2. Working(m, op[other], other)
    BY <1>4, <2>1, OthersWork
  <2> QED
    BY <1>1, <2>1, <2>2
<1>5. MgrInv(mgr', {})
  BY <1>1
<1> QED
  BY <1>1, <1>3, <1>4, <1>5, AfterStep

\* Processes and timers.
LEMMA InternalStep ==
    ASSUME IInv, NEW m, MgrInv(m, {}), mgr' = m, op' = op, file' = file,
           \A t \in Terminals : InUse(t) => Follows(mgr, m, t)
    PROVE  IInv'
<1>1. op \in [Threads -> Calls \cup {Null}]
  BY DEF IInv, TypeOK
<1>2. ASSUME NEW th \in Threads, op'[th] # Null PROVE Working(mgr', op'[th], th)
  <2>1. Working(m, op[th], th)
    BY <1>2, OthersWork
  <2> QED
    BY <2>1
<1>3. MgrInv(mgr', {})
  OBVIOUS
<1> QED
  BY <1>1, <1>2, <1>3, AfterStep

-----------------------------------------------------------------------------
(* Calls begin *)

\* A call that waits for the write of the transcript it exchanged.
LEMMA PersistBegins ==
    ASSUME IInv, NEW m, MgrInv(m, {}), NEW t \in Terminals, NEW s \in Nat,
           Live(m, s), m.records[s].terminal = t, m.sessions[t] = s,
           NEW kind \in {"open", "restart", "clear"}, NEW config \in Configs \cup {Null},
           kind # "clear" => config \in Configs,
           Begin(Call(kind, {t}, config, "persist", s), m),
           \A u \in Terminals : InUse(u) => Follows(mgr, m, u)
    PROVE  IInv'
<1> DEFINE call == Call(kind, {t}, config, "persist", s)
<1>1. /\ call \in Calls /\ call.kind = kind /\ call.terminals = {t} /\ call.config = config
      /\ call.pc = "persist" /\ call.session = s
  BY DEF Call, Calls
<1>2. ThreadOf[t] \in Threads /\ t \in TerminalsOf(ThreadOf[t])
  BY ThreadFacts
<1> HIDE DEF call
<1>3. Working(m, call, ThreadOf[t])
  BY <1>1, <1>2 DEF Working
<1>4. Begin(call, m)
  BY DEF call
<1> QED
  BY <1>1, <1>2, <1>3, <1>4, BeginStep

LEMMA Invariant == IInv => MgrInv(mgr, {}) /\ mgr \in Managers
BY DEF IInv, MgrInv

\* The listed record of a terminal, its process ended and started anew.
LEMMA ListedRecord ==
    ASSUME NEW m, MgrInv(m, {}), NEW t \in Terminals, m.sessions[t] # 0
    PROVE  LET s == m.sessions[t]
               n == stopProcess(m, s)
           IN  /\ s \in Nat /\ Live(m, s) /\ m.records[s].terminal = t
               /\ MgrInv(n, {}) /\ Live(n, s) /\ n.records[s].terminal = t /\ n.sessions[t] = s
               /\ \A u \in Terminals : InUse(u) => Follows(m, n, u)
<1> DEFINE s == m.sessions[t]
           n == stopProcess(m, s)
<1>1. Live(m, s) /\ m.records[s].terminal = t
  BY DEF MgrInv, Lists
<1>2. s \in Listed(m) /\ s \in Nat
  BY ManagerFields DEF Listed, MgrInv
<1>3. MgrInv(n, {}) /\ Stops(m, n, s)
  BY <1>1, StopInv
<1> HIDE DEF n, s
<1>4. Live(n, s) /\ n.records[s].terminal = t /\ n.sessions[t] = s
  BY <1>1, <1>2, <1>3 DEF Stops
<1>5. \A u \in Terminals : InUse(u) => Follows(m, n, u)
  BY <1>3, StopsFollows
<1> QED
  BY <1>1, <1>2, <1>3, <1>4, <1>5 DEF n, s

LEMMA OpenExistingStep ==
    ASSUME IInv, NEW t \in Terminals, NEW config \in Configs, OpenExisting(t, config)
    PROVE  IInv'
<1> DEFINE s == mgr.sessions[t]
           call == Call("open", {t}, config, "persist", s)
           stopped == stopProcess(mgr, s)
<1>1. MgrInv(mgr, {}) /\ s # 0
  BY Invariant DEF OpenExisting
<1>2. /\ s \in Nat /\ Live(mgr, s) /\ mgr.records[s].terminal = t
      /\ MgrInv(stopped, {}) /\ Live(stopped, s) /\ stopped.records[s].terminal = t
      /\ stopped.sessions[t] = s
      /\ \A u \in Terminals : InUse(u) => Follows(mgr, stopped, u)
  BY <1>1, ListedRecord
<1>3. Begin(call, Reset(stopped, s, config)) \/ Begin(call, Reset(mgr, s, config))
  BY DEF OpenExisting
<1>4. CASE Begin(call, Reset(stopped, s, config))
  <2> DEFINE n == Reset(stopped, s, config)
  <2> HIDE DEF stopped
  <2>1. /\ MgrInv(n, {}) /\ n.sessions = stopped.sessions /\ Live(n, s)
        /\ n.records[s].terminal = t /\ \A u \in Terminals : Follows(stopped, n, u)
    BY <1>2, ResetInv
  <2> HIDE DEF n, s
  <2>2. \A u \in Terminals : InUse(u) => Follows(mgr, n, u)
    BY <1>2, <2>1, FollowsAll
  <2>3. Begin(Call("open", {t}, config, "persist", s), n)
    BY <1>4 DEF n
  <2> QED
    BY <1>2, <2>1, <2>2, <2>3, PersistBegins
<1>5. CASE Begin(call, Reset(mgr, s, config))
  <2> DEFINE n == Reset(mgr, s, config)
  <2>1. /\ MgrInv(n, {}) /\ n.sessions = mgr.sessions /\ Live(n, s)
        /\ n.records[s].terminal = t /\ \A u \in Terminals : Follows(mgr, n, u)
    BY <1>1, <1>2, ResetInv
  <2>2. n.sessions[t] = s
    BY <2>1
  <2> HIDE DEF n, s
  <2>3. Begin(Call("open", {t}, config, "persist", s), n)
    BY <1>5 DEF n
  <2> QED
    BY <1>2, <2>1, <2>2, <2>3, PersistBegins
<1> QED
  BY <1>3, <1>4, <1>5

\* Timers of the debounce are set or cancelled.
LEMMA TimersInv ==
    ASSUME NEW m, NEW X, MgrInv(m, X), NEW timers \in SUBSET Terminals
    PROVE  LET n == [m EXCEPT !.timers = timers]
           IN  /\ MgrInv(n, X) /\ SameRecords(m, n) /\ n.pending = m.pending /\ n.queue = m.queue
               /\ \A t : Follows(m, n, t)
<1> DEFINE n == [m EXCEPT !.timers = timers]
<1>1. m \in Managers
  BY DEF MgrInv
<1>2. m = [sessions |-> m.sessions, records |-> m.records, recency |-> m.recency,
           processes |-> m.processes, killTimers |-> m.killTimers,
           pending |-> m.pending, timers |-> m.timers, queue |-> m.queue,
           detached |-> m.detached, dropped |-> m.dropped, deleted |-> m.deleted]
  BY <1>1, ManagerFields
<1>3. n = [sessions |-> m.sessions, records |-> m.records, recency |-> m.recency,
           processes |-> m.processes, killTimers |-> m.killTimers,
           pending |-> m.pending, timers |-> timers, queue |-> m.queue,
           detached |-> m.detached, dropped |-> m.dropped, deleted |-> m.deleted]
  BY <1>2
<1> HIDE DEF n
<1>4. n \in Managers
  BY <1>1, <1>3, ManagerFields DEF Managers
<1>5. SameRecords(m, n) /\ n.pending = m.pending /\ n.queue = m.queue
  BY <1>3 DEF SameRecords
<1>6. \A t : Will(n, t, file[t]) = Will(m, t, file[t])
  BY <1>5 DEF Will
<1>7. MgrInv(n, X)
  <2>1. \A t \in Terminals \ (m.dropped \cup X) : m.sessions[t] # 0 =>
           \/ t \notin X /\ Will(n, t, file[t]) = Will(m, t, file[t])
           \/ Will(n, t, file[t]) = m.records[m.sessions[t]].history
    BY <1>6
  <2>2. \A t \in m.deleted \ m.dropped : Will(n, t, file[t]) = Will(m, t, file[t])
    BY <1>6
  <2> QED
    BY <1>4, <1>5, <2>1, <2>2, WritesInv
<1>8. \A t : Follows(m, n, t)
  BY <1>5 DEF Follows, Unsaved, Live, SameRecords
<1> QED
  BY <1>5, <1>7, <1>8 DEF n

LEMMA OpenNewStep ==
    ASSUME IInv, NEW t \in Terminals, NEW config \in Configs, OpenNew(t, config)
    PROVE  IInv'
<1> DEFINE m == [mgr EXCEPT !.timers = mgr.timers \ {t}]
           call == Call("open", {t}, config, "flush", 0)
<1>1. MgrInv(mgr, {}) /\ mgr.timers \ {t} \in SUBSET Terminals /\ mgr.sessions[t] = 0
  BY Invariant, ManagerFields DEF OpenNew
<1>2. Begin(call, m)
  BY DEF OpenNew
<1>3. MgrInv(m, {}) /\ SameRecords(mgr, m) /\ \A u : Follows(mgr, m, u)
  BY <1>1, TimersInv
<1>4. /\ call \in Calls /\ call.kind = "open" /\ call.terminals = {t} /\ call.config = config
      /\ call.pc = "flush" /\ call.session = 0
  BY DEF Call, Calls
<1>5. ThreadOf[t] \in Threads /\ t \in TerminalsOf(ThreadOf[t])
  BY ThreadFacts
<1> HIDE DEF m, call
<1>6. Working(m, call, ThreadOf[t])
  BY <1>1, <1>3, <1>4, <1>5 DEF Working, SameRecords
<1> QED
  BY <1>2, <1>3, <1>4, <1>5, <1>6, BeginStep

LEMMA RestartStep ==
    ASSUME IInv, NEW t \in Terminals, NEW config \in Configs, restart(t, config)
    PROVE  IInv'
<1> DEFINE old == mgr.sessions[t]
<1>1. MgrInv(mgr, {}) /\ mgr \in Managers
  BY Invariant
<1>2. CASE old = 0
  <2> DEFINE a == NewRecord(mgr, t, config, <<>>)
             m == evictInactiveSessionsIfNeeded(a)
             s == Len(m.records)
             n == Reset(m, s, config)
  <2>1. Begin(Call("restart", {t}, config, "persist", s), n)
    BY <1>2 DEF restart
  <2>2. MgrInv(mgr, {t})
    BY <1>1, MoreExcepted
  <2>3. /\ MgrInv(a, {t}) /\ Len(a.records) \in Nat
        /\ a.sessions = [mgr.sessions EXCEPT ![t] = Len(a.records)]
        /\ Live(a, Len(a.records)) /\ a.records[Len(a.records)].terminal = t
        /\ a.recency # <<>> /\ a.recency[Len(a.recency)] = Len(a.records)
        /\ \A u \in Terminals : u # t => Follows(mgr, a, u)
    BY <1>2, <2>2, Constants, NewRecordInv
  <2>4. ~InUse(t)
    <3>1. The({t}) = t
      BY DEF The
    <3>2. op[ThreadOf[t]] = Null
      BY <2>1, <3>1 DEF Begin, Call
    <3> QED
      BY <3>2 DEF InUse
  <2> HIDE DEF a
  <2>5. MgrInv(m, {t}) /\ Evicts(a, m)
    BY <2>3, EvictInv
  <2> HIDE DEF m
  <2>6. s = Len(a.records) /\ Live(m, s) /\ m.records[s].terminal = t /\ m.sessions[t] = s
    BY <2>3, <2>5 DEF Evicts, Live
  <2> HIDE DEF s
  <2>7. ASSUME NEW u \in Terminals, InUse(u) PROVE Follows(mgr, m, u)
    <3>1. u # t
      BY <2>4, <2>7
    <3>2. Follows(mgr, a, u)
      BY <2>3, <3>1
    <3>3. Follows(a, m, u)
      BY <2>5, <2>7, EvictsFollows
    <3> QED
      BY <3>2, <3>3, FollowsAll
  <2>8. /\ MgrInv(n, {}) /\ n.sessions = m.sessions
        /\ Live(n, s) /\ n.records[s].terminal = t
        /\ \A u \in Terminals : Follows(m, n, u)
    BY <2>5, <2>6, ResetInv
  <2> HIDE DEF n
  <2>9. \A u \in Terminals : InUse(u) => Follows(mgr, n, u)
    BY <2>7, <2>8, FollowsAll
  <2>10. s \in Nat /\ n.sessions[t] = s
    BY <2>3, <2>6, <2>8
  <2> QED
    BY <2>1, <2>8, <2>9, <2>10, PersistBegins
<1>3. CASE old # 0
  <2> DEFINE m == stopProcess(mgr, old)
             n == Reset(m, old, config)
  <2>1. Begin(Call("restart", {t}, config, "persist", old), n)
    BY <1>3 DEF restart
  <2>2. /\ old \in Nat /\ MgrInv(m, {}) /\ Live(m, old) /\ m.records[old].terminal = t
        /\ m.sessions[t] = old /\ \A u \in Terminals : InUse(u) => Follows(mgr, m, u)
    BY <1>1, <1>3, ListedRecord
  <2> HIDE DEF m, old
  <2>3. /\ MgrInv(n, {}) /\ n.sessions = m.sessions
        /\ Live(n, old) /\ n.records[old].terminal = t
        /\ \A u \in Terminals : Follows(m, n, u)
    BY <2>2, ResetInv
  <2> HIDE DEF n
  <2>4. \A u \in Terminals : InUse(u) => Follows(mgr, n, u)
    BY <2>2, <2>3, FollowsAll
  <2>5. n.sessions[t] = old
    BY <2>2, <2>3
  <2> QED
    BY <2>1, <2>2, <2>3, <2>4, <2>5, PersistBegins
<1> QED
  BY <1>2, <1>3

LEMMA ClearStep ==
    ASSUME IInv, NEW t \in Terminals, clear(t)
    PROVE  IInv'
<1> DEFINE s == mgr.sessions[t]
           r == [mgr.records[s] EXCEPT !.history = <<>>]
           a == Touch(mgr, s)
           b == [a EXCEPT !.records[s] = r]
           n == persistHistory(b, t, <<>>)
<1>1. MgrInv(mgr, {}) /\ mgr \in Managers /\ s # 0
  BY Invariant DEF clear
<1>2. Begin(Call("clear", {t}, Null, "persist", s), n)
  BY DEF clear, Update
<1>3. s \in Nat /\ Live(mgr, s) /\ mgr.records[s].terminal = t
  BY <1>1, ListedRecord
<1> HIDE DEF s
<1>4. s \in DOMAIN mgr.records /\ mgr.records[s] \in Records
  BY <1>3 DEF Live
<1>5. /\ MgrInv(a, {}) /\ a.sessions = mgr.sessions /\ a.records = mgr.records
      /\ a.pending = mgr.pending /\ a.queue = mgr.queue /\ a.dropped = mgr.dropped
  BY <1>1, <1>4, TouchInv
<1>6. /\ r \in Records /\ r.terminal = t /\ r.process = mgr.records[s].process
      /\ r.status = mgr.records[s].status /\ r.history = <<>>
  BY <1>3, <1>4, Constants DEF Records
<1> HIDE DEF a, r
<1>7. Rewrites(a, b, {t}, s, r)
  BY <1>3, <1>5, <1>6 DEF Rewrites
<1>8. MgrInv(a, {t}) /\ Live(a, s)
  BY <1>3, <1>5, MoreExcepted DEF Live
<1> HIDE DEF b, n
<1>9. /\ MgrInv(b, {t}) /\ SameLists(a, b)
      /\ DOMAIN b.records = DOMAIN a.records /\ b.records[s] = r
  BY ONLY <1>7, <1>8, RecordInv
<1>10. \A u : Follows(a, b, u)
  BY <1>7, <1>8, RecordInv
<1> USE DEF n
<1>11. /\ Live(b, s) /\ b.records[s].terminal = t /\ b.sessions[t] = s
       /\ b.records[s].history = <<>>
  BY <1>4, <1>5, <1>6, <1>9 DEF Live, SameLists, s
<1>12. /\ MgrInv(n, {t} \ {t}) /\ SameRecords(b, n) /\ \A u \in Terminals : Follows(b, n, u)
  BY <1>1, <1>9, <1>11, Constants, PersistInv
<1> HIDE DEF n
<1>13. MgrInv(n, {}) /\ Live(n, s) /\ n.records[s].terminal = t /\ n.sessions[t] = s
  <2>1. {t} \ {t} = {}
    OBVIOUS
  <2> QED
    BY <1>11, <1>12, <2>1 DEF SameRecords, Live
<1>14. ASSUME NEW u \in Terminals PROVE Follows(mgr, n, u)
  <2>1. Follows(mgr, a, u)
    BY <1>5 DEF Follows, Unsaved, Live
  <2> QED
    BY <1>10, <1>12, <2>1, FollowsAll
<1> QED
  BY <1>2, <1>3, <1>13, <1>14, PersistBegins

LEMMA CloseStep ==
    ASSUME IInv, NEW th \in Threads, NEW ts, ts # {}, ts \subseteq TerminalsOf(th),
           NEW delete \in BOOLEAN, close(ts, delete)
    PROVE  IInv'
<1> DEFINE order == SetToSeq(ts)
           m == Closing(mgr, order)[Len(order)]
           n == [m EXCEPT !.timers = m.timers \ ts]
           call == [Call("close", ts, Null, "flush", 0) EXCEPT !.delete = delete]
<1>1. MgrInv(mgr, {}) /\ mgr \in Managers
  BY Invariant
<1>2. Begin(call, n)
  BY DEF close, Closing
<1>3. ts \subseteq Terminals
  BY DEF TerminalsOf
<1>4. /\ call \in Calls /\ call.kind = "close" /\ call.terminals = ts
      /\ call.pc = "flush" /\ call.session = 0
  BY <1>3 DEF Call, Calls
<1>5. \A t \in ts : ~InUse(t)
  <2>1. The(ts) \in ts
    BY DEF The
  <2>2. ThreadOf[The(ts)] = th /\ \A t \in ts : ThreadOf[t] = th
    BY <2>1 DEF TerminalsOf
  <2>3. op[th] = Null
    BY <1>2, <1>4, <2>2 DEF Begin
  <2> QED
    BY <2>2, <2>3 DEF InUse
<1> HIDE DEF call
<1>6. /\ MgrInv(m, {}) /\ \A t \in ts : m.sessions[t] = 0
      /\ \A u \in Terminals : InUse(u) => Follows(mgr, m, u)
  BY <1>1, <1>3, <1>5, ClosingInv
<1> HIDE DEF m, order
<1>7. m.timers \ ts \in SUBSET Terminals
  BY <1>6, ManagerFields DEF MgrInv
<1>8. MgrInv(n, {}) /\ SameRecords(m, n) /\ \A u : Follows(m, n, u)
  BY <1>6, <1>7, TimersInv
<1> HIDE DEF n
<1>9. \A u \in Terminals : InUse(u) => Follows(mgr, n, u)
  BY <1>6, <1>8, FollowsAll
<1>10. Working(n, call, th)
  BY <1>4, <1>6, <1>8 DEF Working, SameRecords
<1> QED
  BY <1>2, <1>4, <1>8, <1>9, <1>10, BeginStep

-----------------------------------------------------------------------------
(* Calls go on *)

LEMMA CallTypes ==
    ASSUME IInv, NEW th \in Threads, op[th] # Null
    PROVE  /\ Working(mgr, op[th], th) /\ op[th] \in Calls
           /\ op[th].terminals \subseteq Terminals /\ op[th].session \in Nat
BY DEF IInv, TypeOK, Calls

\* A call at pc is the call before but for pc and session.
LEMMA ContinuedCall ==
    ASSUME NEW c \in Calls, NEW pc, NEW s
    PROVE  LET d == [c EXCEPT !.pc = pc, !.session = s]
           IN  /\ d.kind = c.kind /\ d.terminals = c.terminals /\ d.config = c.config
               /\ d.pc = pc /\ d.session = s
BY DEF Calls

LEMMA InUseOfOther ==
    ASSUME NEW th, NEW t \in Terminals, InUse(t), ThreadOf[t] # th, NEW ts, ts \subseteq TerminalsOf(th)
    PROVE  t \notin ts
BY SMTT(30) DEF TerminalsOf

\* startSession, up to the spawn.
LEMMA SpawnBegins ==
    ASSUME IInv, NEW th \in Threads, op[th] # Null, op[th].kind \in {"open", "restart"},
           NEW m, MgrInv(m, {}), NEW s, Live(m, s), m.records[s].terminal \in op[th].terminals,
           m.records[s].terminal \notin m.dropped => m.sessions[m.records[s].terminal] = s,
           Continue(th, BeginStart(m, s, op[th].config), "spawn", s),
           \A t \in Terminals : InUse(t) /\ ThreadOf[t] # th => Follows(mgr, m, t)
    PROVE  IInv'
<1> DEFINE t == m.records[s].terminal
           config == op[th].config
           n == BeginStart(m, s, config)
           stopped == stopProcess(m, s)
           call == [op[th] EXCEPT !.pc = "spawn", !.session = s]
<1>1. /\ Working(mgr, op[th], th) /\ op[th] \in Calls /\ op[th].terminals \subseteq Terminals
      /\ config \in Configs
  BY CallTypes DEF Working
<1>2. s \in Nat /\ t \in Terminals
  BY LiveFacts
<1>3. /\ MgrInv(n, {}) /\ Stops(m, stopped, s)
      /\ n.sessions = stopped.sessions /\ n.dropped = stopped.dropped
      /\ \A u \in Terminals : Follows(stopped, n, u)
      /\ Live(n, s) /\ n.records[s].process = 0
      /\ n.records[s].terminal = t
  BY <1>1, BeginStartInv
<1>4. /\ call.kind = op[th].kind /\ call.terminals = op[th].terminals
      /\ call.config = config /\ call.pc = "spawn" /\ call.session = s
  BY <1>1, ContinuedCall
<1> HIDE DEF n, stopped, call
<1>5. ASSUME NEW u \in Terminals, InUse(u) PROVE Follows(m, n, u)
  <2>1. Follows(m, stopped, u)
    BY <1>3, <1>5, StopsFollows
  <2> QED
    BY <1>3, <2>1, FollowsAll
<1>6. ASSUME NEW u \in Terminals, InUse(u), ThreadOf[u] # th PROVE Follows(mgr, n, u)
  <2>1. Follows(mgr, m, u)
    BY <1>6
  <2>2. Follows(m, n, u)
    BY <1>5, <1>6
  <2> QED
    BY <2>1, <2>2, FollowsAll
<1>7. t \notin n.dropped => n.sessions[t] = s
  <2>1. InUse(t)
    BY <1>1, <1>2 DEF InUse, Working, TerminalsOf
  <2>2. Follows(m, n, t)
    BY <1>2, <1>5, <2>1
  <2> QED
    BY <2>2 DEF Follows
<1>8. Working(n, call, th)
  <2>1. /\ call.kind \in {"open", "restart"} /\ call.terminals # {}
        /\ call.terminals \subseteq TerminalsOf(th) /\ t \in call.terminals
    BY <1>1, <1>4 DEF Working
  <2> QED
    BY <1>1, <1>3, <1>4, <1>7, <2>1 DEF Working
<1>9. Continue(th, n, "spawn", s)
  BY DEF n
<1> QED
  BY <1>2, <1>3, <1>6, <1>8, <1>9, ContinueStep DEF call

LEMMA PersistedStep ==
    ASSUME IInv, NEW th \in Threads, Persisted(th)
    PROVE  IInv'
<1> DEFINE s == op[th].session
<1>1. op[th] # Null /\ op[th].pc = "persist"
  BY DEF Persisted, At
<1>2. Working(mgr, op[th], th) /\ MgrInv(mgr, {})
  BY <1>1, CallTypes, Invariant
<1>3. \A t : Follows(mgr, mgr, t)
  BY DEF Follows
<1>4. CASE op[th].kind = "clear"
  <2>1. Return(th, mgr)
    BY <1>4 DEF Persisted
  <2> QED
    BY <1>2, <1>3, <2>1, ReturnStep
<1>5. CASE op[th].kind # "clear"
  <2>1. Continue(th, BeginStart(mgr, s, op[th].config), "spawn", s)
    BY <1>5 DEF Persisted
  <2>2. /\ op[th].kind \in {"open", "restart"}
        /\ Live(mgr, s) /\ mgr.records[s].terminal \in op[th].terminals
        /\ mgr.records[s].terminal \notin mgr.dropped => mgr.sessions[mgr.records[s].terminal] = s
    BY <1>1, <1>2, <1>5 DEF Working
  <2> QED
    BY <1>1, <1>2, <1>3, <2>1, <2>2, SpawnBegins
<1> QED
  BY <1>4, <1>5

\* What was pending is queued to be written.
LEMMA FlushInv ==
    ASSUME NEW m, NEW X, MgrInv(m, X), NEW t \in Terminals, m.pending[t] # Null,
           NEW timers \in SUBSET Terminals
    PROVE  LET n == [m EXCEPT !.timers = timers, !.pending = [m.pending EXCEPT ![t] = Null],
                              !.queue = [m.queue EXCEPT ![t] = Append(m.queue[t], m.pending[t])]]
           IN  /\ MgrInv(n, X) /\ SameRecords(m, n)
               /\ \A u \in Terminals : Follows(m, n, u)
<1> DEFINE pending == [m.pending EXCEPT ![t] = Null]
           h == m.pending[t]
           queue == [m.queue EXCEPT ![t] = Append(m.queue[t], h)]
           n == [m EXCEPT !.timers = timers, !.pending = pending, !.queue = queue]
<1>1. m \in Managers
  BY DEF MgrInv
<1>2. h \in Histories /\ m.queue[t] \in Seq(Histories)
  BY <1>1, ManagerFields
<1>3. /\ pending \in [Terminals -> Histories \cup {Null}] /\ pending[t] = Null
      /\ \A u \in Terminals : u # t => pending[u] = m.pending[u]
  BY <1>1, ManagerFields
<1> HIDE DEF h
<1>5. /\ Append(m.queue[t], h) \in Seq(Histories) /\ Append(m.queue[t], h) # <<>>
      /\ Append(m.queue[t], h)[Len(Append(m.queue[t], h))] = h
  BY <1>2, AppendSeqFacts
<1>6. /\ queue \in [Terminals -> Seq(Histories)] /\ queue[t] # <<>> /\ queue[t][Len(queue[t])] = h
      /\ \A u \in Terminals : u # t => queue[u] = m.queue[u]
  BY <1>1, <1>5, ManagerFields
<1> HIDE DEF pending, queue
<1>7. n = [m EXCEPT !.timers = timers, !.pending = pending, !.queue = queue]
  OBVIOUS
<1> HIDE DEF n
<1>8. m = [sessions |-> m.sessions, records |-> m.records, recency |-> m.recency,
           processes |-> m.processes, killTimers |-> m.killTimers,
           pending |-> m.pending, timers |-> m.timers, queue |-> m.queue,
           detached |-> m.detached, dropped |-> m.dropped, deleted |-> m.deleted]
  BY <1>1, ManagerFields
<1>9. n = [sessions |-> m.sessions, records |-> m.records, recency |-> m.recency,
           processes |-> m.processes, killTimers |-> m.killTimers,
           pending |-> pending, timers |-> timers, queue |-> queue,
           detached |-> m.detached, dropped |-> m.dropped, deleted |-> m.deleted]
  BY <1>7, <1>8
<1>10. SameRecords(m, n) /\ n.pending = pending /\ n.timers = timers /\ n.queue = queue
  BY <1>9 DEF SameRecords
<1>11. n \in Managers
  BY <1>1, <1>3, <1>6, <1>9, ManagerFields DEF Managers
<1>12. \A u \in Terminals : Will(n, u, file[u]) = Will(m, u, file[u])
  <2> TAKE u \in Terminals
  <2>1. CASE u = t
    BY <1>3, <1>6, <1>10, <2>1 DEF Will, h
  <2>2. CASE u # t
    BY <1>3, <1>6, <1>10, <2>2 DEF Will
  <2> QED
    BY <2>1, <2>2
<1>13. MgrInv(n, X)
  <2>1. \A u \in Terminals \ (m.dropped \cup X) : m.sessions[u] # 0 =>
           \/ u \notin X /\ Will(n, u, file[u]) = Will(m, u, file[u])
           \/ Will(n, u, file[u]) = m.records[m.sessions[u]].history
    BY <1>12
  <2>2. \A u \in m.deleted \ m.dropped : Will(n, u, file[u]) = Will(m, u, file[u])
    BY <1>1, <1>12, ManagerFields
  <2> QED
    BY <1>10, <1>11, <2>1, <2>2, WritesInv
<1>14. ASSUME NEW u \in Terminals PROVE Follows(m, n, u)
  <2>1. \A v : Live(n, v) <=> Live(m, v)
    BY <1>10 DEF Live, SameRecords
  <2>2. Unsaved(n, u) => Unsaved(m, u)
    <3>1. CASE u = t
      BY <3>1 DEF Unsaved
    <3>2. CASE u # t
      BY <1>3, <1>6, <1>10, <3>2, SMTT(30) DEF Unsaved
    <3> QED
      BY <3>1, <3>2
  <2> QED
    BY <1>10, <2>1, <2>2 DEF Follows, SameRecords
<1> QED
  BY <1>10, <1>13, <1>14 DEF n, pending, queue, h

LEMMA FlushPendingStep ==
    ASSUME IInv, NEW th \in Threads, FlushPending(th)
    PROVE  IInv'
<1>1. op[th] # Null /\ op[th].pc = "flush"
  BY DEF FlushPending, At
<1>2. /\ Working(mgr, op[th], th) /\ MgrInv(mgr, {}) /\ mgr \in Managers
      /\ op[th].terminals \subseteq Terminals /\ op[th] \in Calls
  BY <1>1, CallTypes, Invariant
<1>3. PICK t \in op[th].terminals :
         /\ mgr.pending[t] # Null
         /\ Continue(th, enqueuePersistWrite([mgr EXCEPT !.pending[t] = Null], t,
                                             mgr.pending[t]), "flush", 0)
  BY DEF FlushPending
<1> DEFINE n == [mgr EXCEPT !.timers = mgr.timers, !.pending = [mgr.pending EXCEPT ![t] = Null],
                            !.queue = [mgr.queue EXCEPT ![t] = Append(mgr.queue[t], mgr.pending[t])]]
           call == [op[th] EXCEPT !.pc = "flush", !.session = 0]
<1>4. enqueuePersistWrite([mgr EXCEPT !.pending[t] = Null], t, mgr.pending[t]) = n
  BY <1>2, ManagerFields DEF enqueuePersistWrite
<1>5. t \in Terminals /\ mgr.timers \in SUBSET Terminals
  BY <1>2, ManagerFields
<1>6. MgrInv(n, {}) /\ SameRecords(mgr, n) /\ \A u \in Terminals : Follows(mgr, n, u)
  BY <1>2, <1>3, <1>5, FlushInv
<1>7. Continue(th, n, "flush", 0)
  BY <1>3, <1>4
<1>8. /\ call.kind = op[th].kind /\ call.terminals = op[th].terminals
      /\ call.config = op[th].config /\ call.pc = "flush" /\ call.session = 0
  BY <1>2, ContinuedCall
<1> HIDE DEF n, call
<1>9. Working(n, call, th)
  BY <1>1, <1>2, <1>6, <1>8 DEF Working, SameRecords
<1> QED
  BY <1>1, <1>6, <1>7, <1>9, ContinueStep DEF call

LEMMA FlushedStep ==
    ASSUME IInv, NEW th \in Threads, Flushed(th)
    PROVE  IInv'
<1>1. op[th] # Null /\ op[th].pc = "flush" /\ \A t \in op[th].terminals : ~Unsaved(mgr, t)
  BY DEF Flushed, At
<1>2. Working(mgr, op[th], th) /\ MgrInv(mgr, {}) /\ op[th] \in Calls
  BY <1>1, CallTypes, Invariant, SMTT(30)
<1>3. \A t : Follows(mgr, mgr, t)
  BY DEF Follows
<1>4. ASSUME NEW pc \in {"read", "delete"}, pc = "read" => op[th].kind = "open",
             Continue(th, mgr, pc, 0)
      PROVE  IInv'
  <2> DEFINE call == [op[th] EXCEPT !.pc = pc, !.session = 0]
  <2>1. /\ call.kind = op[th].kind /\ call.terminals = op[th].terminals
        /\ call.config = op[th].config /\ call.pc = pc /\ call.session = 0
    BY <1>2, ContinuedCall
  <2> HIDE DEF call
  <2>2. Working(mgr, call, th)
    BY <1>1, <1>2, <1>4, <2>1 DEF Working
  <2> QED
    BY <1>1, <1>2, <1>3, <1>4, <2>2, ContinueStep DEF call
<1>5. AfterFlush(th)
  BY DEF Flushed
<1>6. CASE op[th].kind = "open"
  <2>1. Continue(th, mgr, "read", 0)
    BY <1>5, <1>6 DEF AfterFlush
  <2> QED
    BY <1>4, <1>6, <2>1
<1>7. CASE op[th].kind # "open" /\ op[th].delete
  <2>1. Continue(th, mgr, "delete", 0)
    BY <1>5, <1>7 DEF AfterFlush
  <2> QED
    BY <1>4, <2>1
<1>8. CASE op[th].kind # "open" /\ ~op[th].delete
  <2>1. Return(th, mgr)
    BY <1>5, <1>8 DEF AfterFlush
  <2> QED
    BY <1>2, <1>3, <2>1, ReturnStep
<1> QED
  BY <1>6, <1>7, <1>8

LEMMA CapHistory == \A h \in Histories : capHistory(h) = h
BY DEF capHistory, Histories

LEMMA OpenWithHistoryStep ==
    ASSUME IInv, NEW th \in Threads, OpenWithHistory(th)
    PROVE  IInv'
<1> DEFINE t == The(op[th].terminals)
           config == op[th].config
           history == IF file[t] = Null THEN <<>> ELSE capHistory(file[t])
           a == NewRecord(mgr, t, config, history)
           m == evictInactiveSessionsIfNeeded(a)
           s == Len(m.records)
<1>1. op[th] # Null /\ op[th].pc = "read" /\ Continue(th, BeginStart(m, s, config), "spawn", s)
  BY DEF OpenWithHistory, At
<1>2. /\ Working(mgr, op[th], th) /\ MgrInv(mgr, {}) /\ mgr \in Managers
      /\ op[th].terminals \subseteq Terminals /\ op[th] \in Calls
  BY <1>1, CallTypes, Invariant
<1>3. /\ t \in op[th].terminals /\ t \in Terminals /\ op[th].kind = "open" /\ config \in Configs
      /\ mgr.sessions[t] = 0 /\ (t \notin mgr.dropped => ~Unsaved(mgr, t))
      /\ op[th].terminals \subseteq TerminalsOf(th)
  <2>1. t \in op[th].terminals
    BY <1>2 DEF Working, The
  <2> HIDE DEF t
  <2> QED
    BY <1>1, <1>2, <2>1 DEF Working
<1> HIDE DEF t
<1>4. history \in Histories /\ (file[t] # Null => history = file[t])
  <2>1. file[t] \in Histories \cup {Null}
    BY <1>3 DEF IInv, TypeOK
  <2> QED
    BY <2>1, Constants, CapHistory
<1>5. t \in mgr.dropped \cup {} \/ history = Will(mgr, t, file[t])
  BY <1>3, <1>4 DEF Will, Unsaved
<1> HIDE DEF history
<1>6. /\ MgrInv(a, {}) /\ Len(a.records) \in Nat
      /\ a.sessions = [mgr.sessions EXCEPT ![t] = Len(a.records)]
      /\ Live(a, Len(a.records)) /\ a.records[Len(a.records)].terminal = t
      /\ a.recency # <<>> /\ a.recency[Len(a.recency)] = Len(a.records)
      /\ \A u \in Terminals : u # t => Follows(mgr, a, u)
  BY <1>2, <1>3, <1>4, <1>5, NewRecordInv
<1> HIDE DEF a
<1>7. MgrInv(m, {}) /\ Evicts(a, m)
  BY <1>6, EvictInv
<1> HIDE DEF m
<1>8. Live(m, s) /\ m.records[s].terminal = t /\ m.sessions[t] = s
  BY <1>6, <1>7 DEF Evicts, Live
<1> HIDE DEF s
<1>9. ASSUME NEW u \in Terminals, InUse(u), ThreadOf[u] # th PROVE Follows(mgr, m, u)
  <2>1. u # t
    BY <1>3, <1>9, InUseOfOther
  <2>2. Follows(mgr, a, u)
    BY <1>6, <2>1
  <2>3. Follows(a, m, u)
    BY <1>7, <1>9, EvictsFollows
  <2> QED
    BY <2>2, <2>3, FollowsAll
<1> QED
  BY <1>1, <1>3, <1>7, <1>8, <1>9, SpawnBegins

-----------------------------------------------------------------------------
(* Processes *)

\* A manager with other records, processes and kill timers.
Changed(m, records, processes, killTimers) ==
    [m EXCEPT !.records = records, !.processes = processes, !.killTimers = killTimers]

\* A record with a new content, beside other processes and kill timers.
Rewritten(m, n, s, r, processes, killTimers) ==
    n = Changed(m, [m.records EXCEPT ![s] = r], processes, killTimers)

\* A record with a new content, which names the process x at the end of the list.
Spawned(m, n, s, r, x) ==
    n = Changed(m, [m.records EXCEPT ![s] = r], Append(m.processes, x), m.killTimers)

\* A process with a new state, beside other kill timers.
Died(m, n, p, x, killTimers) ==
    n = Changed(m, m.records, [m.processes EXCEPT ![p] = x], killTimers)

LEMMA ChangedFields ==
    ASSUME NEW m, m \in Managers, NEW records, NEW processes, NEW killTimers
    PROVE  LET n == Changed(m, records, processes, killTimers)
           IN  /\ n = [sessions |-> m.sessions, records |-> records, recency |-> m.recency,
                       processes |-> processes, killTimers |-> killTimers,
                       pending |-> m.pending, timers |-> m.timers, queue |-> m.queue,
                       detached |-> m.detached, dropped |-> m.dropped, deleted |-> m.deleted]
               /\ n.records = records /\ n.processes = processes /\ n.killTimers = killTimers
               /\ SameLists(m, n) /\ n.timers = m.timers
               /\ (records \in Seq(Records \cup {Closed}) /\ processes \in Seq(Processes)
                     /\ killTimers \in SUBSET Nat) => n \in Managers
<1> DEFINE n == Changed(m, records, processes, killTimers)
<1>1. m = [sessions |-> m.sessions, records |-> m.records, recency |-> m.recency,
           processes |-> m.processes, killTimers |-> m.killTimers,
           pending |-> m.pending, timers |-> m.timers, queue |-> m.queue,
           detached |-> m.detached, dropped |-> m.dropped, deleted |-> m.deleted]
  BY ManagerFields
<1>2. n = [m EXCEPT !.records = records, !.processes = processes, !.killTimers = killTimers]
  BY DEF Changed
<1> HIDE DEF n
<1>3. n = [sessions |-> m.sessions, records |-> records, recency |-> m.recency,
           processes |-> processes, killTimers |-> killTimers,
           pending |-> m.pending, timers |-> m.timers, queue |-> m.queue,
           detached |-> m.detached, dropped |-> m.dropped, deleted |-> m.deleted]
  BY <1>1, <1>2
<1>4. /\ n.records = records /\ n.processes = processes /\ n.killTimers = killTimers
      /\ SameLists(m, n) /\ n.timers = m.timers
  BY <1>3 DEF SameLists
<1>5. (records \in Seq(Records \cup {Closed}) /\ processes \in Seq(Processes)
         /\ killTimers \in SUBSET Nat) => n \in Managers
  BY <1>3, ManagerFields DEF Managers
<1> QED
  BY <1>3, <1>4, <1>5 DEF n

LEMMA TouchOthers ==
    ASSUME NEW m, m \in Managers, NEW s, Touch(m, s) \in Managers, NEW processes, NEW killTimers
    PROVE  Touch(Changed(m, m.records, processes, killTimers), s)
             = Changed(Touch(m, s), m.records, processes, killTimers)
<1> DEFINE n == Changed(m, m.records, processes, killTimers)
           a == Touch(m, s)
           c == Changed(a, m.records, processes, killTimers)
           recency == Append(Without(m.recency, s), s)
<1>1. m = [sessions |-> m.sessions, records |-> m.records, recency |-> m.recency,
           processes |-> m.processes, killTimers |-> m.killTimers,
           pending |-> m.pending, timers |-> m.timers, queue |-> m.queue,
           detached |-> m.detached, dropped |-> m.dropped, deleted |-> m.deleted]
  BY ManagerFields
<1>2. n = [sessions |-> m.sessions, records |-> m.records, recency |-> m.recency,
           processes |-> processes, killTimers |-> killTimers,
           pending |-> m.pending, timers |-> m.timers, queue |-> m.queue,
           detached |-> m.detached, dropped |-> m.dropped, deleted |-> m.deleted]
  BY ChangedFields
<1>3. c = [sessions |-> a.sessions, records |-> m.records, recency |-> a.recency,
           processes |-> processes, killTimers |-> killTimers,
           pending |-> a.pending, timers |-> a.timers, queue |-> a.queue,
           detached |-> a.detached, dropped |-> a.dropped, deleted |-> a.deleted]
  BY ChangedFields
<1> HIDE DEF n
<1>4. n.sessions = m.sessions /\ n.recency = m.recency
  BY <1>2
<1>5. Listed(n) = Listed(m)
  BY <1>4 DEF Listed
<1>6. CASE s \notin Listed(m)
  <2>1. a = m /\ Touch(n, s) = n
    BY <1>5, <1>6 DEF Touch
  <2> HIDE DEF a, c
  <2>2. c = n
    BY <1>2, <1>3, <2>1
  <2> QED
    BY <2>1, <2>2 DEF c, n, a
<1>7. CASE s \in Listed(m)
  <2>1. Touch(n, s) = [n EXCEPT !.recency = recency] /\ a = [m EXCEPT !.recency = recency]
    BY <1>4, <1>5, <1>7 DEF Touch
  <2> HIDE DEF recency, a, c
  <2> DEFINE k == Touch(n, s)
  <2>2. k = [n EXCEPT !.recency = recency]
    BY <2>1
  <2> HIDE DEF k
  <2>3. k = [sessions |-> m.sessions, records |-> m.records, recency |-> recency,
             processes |-> processes, killTimers |-> killTimers,
             pending |-> m.pending, timers |-> m.timers, queue |-> m.queue,
             detached |-> m.detached, dropped |-> m.dropped, deleted |-> m.deleted]
    BY <1>2, <2>2
  <2>4. a = [sessions |-> m.sessions, records |-> m.records, recency |-> recency,
             processes |-> m.processes, killTimers |-> m.killTimers,
             pending |-> m.pending, timers |-> m.timers, queue |-> m.queue,
             detached |-> m.detached, dropped |-> m.dropped, deleted |-> m.deleted]
    BY <1>1, <2>1
  <2>5. /\ a.sessions = m.sessions /\ a.recency = recency /\ a.pending = m.pending
        /\ a.timers = m.timers /\ a.queue = m.queue /\ a.detached = m.detached
        /\ a.dropped = m.dropped /\ a.deleted = m.deleted
    BY <2>4
  <2>6. k = c
    BY <1>3, <2>3, <2>5
  <2> QED
    BY <2>6 DEF k, n, c, a
<1> QED
  BY <1>6, <1>7

LEMMA RewriteChanged ==
    ASSUME NEW m, m \in Managers, NEW processes, NEW killTimers, NEW s, NEW r, NEW n,
           n = [Changed(m, m.records, processes, killTimers) EXCEPT !.records[s] = r]
    PROVE  Rewritten(m, n, s, r, processes, killTimers)
<1> DEFINE k == Changed(m, m.records, processes, killTimers)
           records == [m.records EXCEPT ![s] = r]
           c == Changed(m, records, processes, killTimers)
<1>1. k = [sessions |-> m.sessions, records |-> m.records, recency |-> m.recency,
           processes |-> processes, killTimers |-> killTimers,
           pending |-> m.pending, timers |-> m.timers, queue |-> m.queue,
           detached |-> m.detached, dropped |-> m.dropped, deleted |-> m.deleted]
  BY ChangedFields
<1>2. n = [k EXCEPT !.records = records]
  BY <1>1
<1> HIDE DEF records
<1>3. c = [sessions |-> m.sessions, records |-> records, recency |-> m.recency,
           processes |-> processes, killTimers |-> killTimers,
           pending |-> m.pending, timers |-> m.timers, queue |-> m.queue,
           detached |-> m.detached, dropped |-> m.dropped, deleted |-> m.deleted]
  BY ChangedFields
<1> HIDE DEF k, c
<1>4. n = c
  BY <1>1, <1>2, <1>3
<1> QED
  BY <1>4 DEF c, records, Rewritten

\* A record gets a process.
LEMMA SpawnInv ==
    ASSUME NEW m, NEW n, MgrInv(m, {}), NEW s, Live(m, s), m.records[s].process = 0,
           NEW r \in Records, NEW x \in Processes,
           m.records[s].terminal \notin m.dropped => m.sessions[m.records[s].terminal] = s,
           r.terminal = m.records[s].terminal, r.history = m.records[s].history,
           r.process = Len(m.processes) + 1, r.status = "running",
           x.session = s, x.state = "alive", x.terminal = m.records[s].terminal,
           Spawned(m, n, s, r, x)
    PROVE  /\ MgrInv(n, {})
           /\ \A t \in Terminals : t # m.records[s].terminal => Follows(m, n, t)
<1> DEFINE p == Len(m.processes) + 1
           t == m.records[s].terminal
<1>1. m \in Managers /\ Linked(m) /\ Lists(m) /\ Alone(m) /\ Saved(m, {})
  BY DEF MgrInv
<1>2. s \in DOMAIN m.records /\ s \in Nat /\ s # 0 /\ t \in Terminals
  BY LiveFacts
<1>3. m.records \in Seq(Records \cup {Closed}) /\ m.processes \in Seq(Processes)
  BY <1>1, ManagerFields
<1> DEFINE records == [m.records EXCEPT ![s] = r]
           processes == Append(m.processes, x)
<1>4. /\ records \in Seq(Records \cup {Closed}) /\ DOMAIN records = DOMAIN m.records
      /\ records[s] = r /\ \A u \in DOMAIN m.records : u # s => records[u] = m.records[u]
  BY <1>2, <1>3, ExceptFacts
<1>5. /\ processes \in Seq(Processes) /\ DOMAIN m.processes = 1..Len(m.processes)
      /\ Len(m.processes) \in Nat /\ DOMAIN processes = 1..p /\ processes[p] = x
      /\ \A q \in DOMAIN m.processes : processes[q] = m.processes[q]
  BY <1>3, AppendSeqFacts
<1>6. p \in Nat /\ p # 0 /\ p \notin DOMAIN m.processes
      /\ DOMAIN processes = DOMAIN m.processes \cup {p}
  BY <1>5
<1>7. m.killTimers \in SUBSET Nat
  BY <1>1, ManagerFields
<1> HIDE DEF records, processes, p, t
<1>8. n = Changed(m, records, processes, m.killTimers)
  BY DEF records, processes, Spawned
<1>9. /\ n.records = records /\ n.processes = processes /\ n.killTimers = m.killTimers
      /\ SameLists(m, n) /\ n \in Managers
  BY <1>1, <1>4, <1>5, <1>7, <1>8, ChangedFields
<1>10. /\ r.process = p /\ r.terminal = t /\ x.terminal = t
  BY DEF p, t
<1>11. \A u : Live(n, u) <=> Live(m, u)
  BY <1>2, <1>4, <1>9 DEF Live
<1>12. Linked(n)
  <2>1. ASSUME NEW u \in DOMAIN n.records, Live(n, u)
        PROVE  /\ n.records[u].status = "running" <=> n.records[u].process # 0
               /\ n.records[u].process # 0 =>
                    /\ n.records[u].process \in DOMAIN n.processes
                    /\ n.processes[n.records[u].process].session = u
    <3>1. CASE u = s
      BY <1>4, <1>5, <1>6, <1>9, <1>10, <3>1, SMTT(30)
    <3>2. CASE u # s
      BY <1>1, <1>4, <1>5, <1>6, <1>9, <1>11, <2>1, <3>2 DEF Linked
    <3> QED
      BY <3>1, <3>2
  <2>2. ASSUME NEW q \in DOMAIN n.processes
        PROVE  LET u == n.processes[q].session
               IN  /\ n.processes[q].state = "alive" <=> u # 0
                   /\ u # 0 => /\ Live(n, u)
                               /\ n.records[u].process = q
                               /\ n.records[u].terminal = n.processes[q].terminal
    <3>1. CASE q = p
      BY <1>2, <1>4, <1>5, <1>9, <1>10, <1>11, <3>1, SMTT(30)
    <3>2. CASE q # p
      <4>1. q \in DOMAIN m.processes /\ n.processes[q] = m.processes[q] /\ q # 0
        BY <1>5, <1>6, <1>9, <3>2, SMTT(30)
      <4>2. m.processes[q].session # s
        BY <1>1, <1>2, <4>1 DEF Linked
      <4> QED
        BY <1>1, <1>4, <1>9, <1>11, <4>1, <4>2 DEF Linked, Live
    <3> QED
      BY <3>1, <3>2
  <2>3. \A q \in n.killTimers : q \in DOMAIN n.processes /\ n.processes[q].session = 0
    BY <1>1, <1>5, <1>6, <1>9 DEF Linked
  <2> QED
    BY <2>1, <2>2, <2>3 DEF Linked
<1>13. Lists(n)
  <2>1. Listed(n) = Listed(m)
    BY <1>9, SMTT(30) DEF Listed, SameLists
  <2> QED
    BY <1>1, <1>4, <1>9, <1>10, <1>11, <2>1 DEF Lists, SameLists, Live, t
<1>14. Alone(n)
  <2> SUFFICES ASSUME NEW q \in DOMAIN n.processes, n.processes[q].state = "alive",
                      n.processes[q].terminal \notin n.dropped
               PROVE  /\ n.sessions[n.processes[q].terminal] # 0
                      /\ n.records[n.sessions[n.processes[q].terminal]].process = q
    BY DEF Alone
  <2>1. CASE q = p
    BY <1>2, <1>4, <1>5, <1>9, <1>10, <2>1 DEF SameLists, t
  <2>2. CASE q # p
    <3>1. q \in DOMAIN m.processes /\ n.processes[q] = m.processes[q] /\ q # 0
      <4>1. q \in DOMAIN m.processes /\ n.processes[q] = m.processes[q]
        BY <1>5, <1>6, <1>9, <2>2
      <4> QED
        BY <1>5, <4>1
    <3> DEFINE v == n.processes[q].terminal
    <3>2. m.sessions[v] # 0 /\ m.records[m.sessions[v]].process = q /\ v \in Terminals
      BY <1>1, <1>9, <3>1, ProcessType DEF Alone, SameLists
    <3>3. m.sessions[v] # s /\ m.sessions[v] \in DOMAIN m.records
      BY <1>1, <3>1, <3>2 DEF Lists, Live
    <3> QED
      BY <1>4, <1>9, <3>2, <3>3 DEF SameLists
  <2> QED
    BY <2>1, <2>2, SMTT(30)
<1>15. Saved(n, {})
  <2>1. ASSUME NEW u \in Terminals, n.sessions[u] # 0
        PROVE  n.records[n.sessions[u]].history = m.records[m.sessions[u]].history
    <3>1. m.sessions[u] \in DOMAIN m.records /\ n.sessions[u] = m.sessions[u]
      BY <1>1, <1>9, <2>1 DEF Lists, Live, SameLists
    <3> QED
      BY <1>4, <1>9, <3>1
  <2>2. \A u : Will(n, u, file[u]) = Will(m, u, file[u])
    BY <1>9 DEF Will, SameLists
  <2> QED
    BY <1>1, <1>9, <2>1, <2>2 DEF Saved, SameLists
<1>16. ASSUME NEW u \in Terminals, u # t PROVE Follows(m, n, u)
  <2>1. ASSUME NEW v \in DOMAIN m.records, Live(m, v), m.records[v].terminal = u
        PROVE  Live(n, v) /\ n.records[v] = m.records[v]
    BY <1>4, <1>9, <1>11, <1>16, <2>1 DEF t
  <2> QED
    BY <1>9, <2>1 DEF Follows, Unsaved, SameLists
<1> QED
  BY <1>9, <1>12, <1>13, <1>14, <1>15, <1>16 DEF MgrInv, t

\* A process ends that nobody listens to.
LEMMA DeathInv ==
    ASSUME NEW m, NEW n, MgrInv(m, {}), NEW p \in DOMAIN m.processes, m.processes[p].session = 0,
           NEW x \in Processes, x.session = 0, x.state # "alive",
           NEW killTimers, killTimers \subseteq m.killTimers,
           Died(m, n, p, x, killTimers)
    PROVE  MgrInv(n, {}) /\ \A t : Follows(m, n, t)
<1> DEFINE processes == [m.processes EXCEPT ![p] = x]
<1>1. m \in Managers /\ Linked(m) /\ Lists(m) /\ Alone(m) /\ Saved(m, {})
  BY DEF MgrInv
<1>2. /\ m.records \in Seq(Records \cup {Closed}) /\ m.processes \in Seq(Processes)
      /\ killTimers \in SUBSET Nat
  BY <1>1, ManagerFields
<1>3. /\ processes \in Seq(Processes) /\ DOMAIN processes = DOMAIN m.processes
      /\ processes[p] = x /\ \A q \in DOMAIN m.processes : q # p => processes[q] = m.processes[q]
  BY <1>2, ExceptFacts
<1> HIDE DEF processes
<1>4. n = Changed(m, m.records, processes, killTimers)
  BY DEF processes, Died
<1>5. /\ n.records = m.records /\ n.processes = processes /\ n.killTimers = killTimers
      /\ SameLists(m, n) /\ n \in Managers
  BY <1>1, <1>2, <1>3, <1>4, ChangedFields
<1>6. \A u : Live(n, u) <=> Live(m, u)
  BY <1>5 DEF Live
<1>7. \A u \in DOMAIN m.records : Live(m, u) => m.records[u].process # p \/ m.records[u].process = 0
  <2> SUFFICES ASSUME NEW u \in DOMAIN m.records, Live(m, u), m.records[u].process = p,
                      m.records[u].process # 0
               PROVE  FALSE
    OBVIOUS
  <2>1. m.processes[p].session = u
    BY <1>1 DEF Linked
  <2>2. u \in Nat /\ u # 0
    BY <1>2
  <2> QED
    BY <2>1, <2>2
<1>8. Linked(n)
  <2>1. ASSUME NEW q \in DOMAIN n.processes
        PROVE  LET u == n.processes[q].session
               IN  /\ n.processes[q].state = "alive" <=> u # 0
                   /\ u # 0 => /\ Live(n, u)
                               /\ n.records[u].process = q
                               /\ n.records[u].terminal = n.processes[q].terminal
    <3>1. CASE q = p
      BY <1>3, <1>5, <3>1
    <3>2. CASE q # p
      BY <1>1, <1>3, <1>5, <1>6, <3>2 DEF Linked
    <3> QED
      BY <3>1, <3>2
  <2>2. \A q \in n.killTimers : q \in DOMAIN n.processes /\ n.processes[q].session = 0
    BY <1>1, <1>3, <1>5 DEF Linked
  <2> QED
    BY <1>1, <1>3, <1>5, <1>6, <1>7, <2>1, <2>2 DEF Linked
<1>9. Lists(n)
  BY <1>1, <1>5, <1>6, SMTT(30) DEF Lists, Listed, SameLists
<1>10. Alone(n)
  BY <1>1, <1>3, <1>5 DEF Alone, SameLists
<1>11. Saved(n, {})
  BY <1>1, <1>5 DEF Saved, Will, SameLists
<1>12. \A t : Follows(m, n, t)
  BY <1>5, <1>6 DEF Follows, Unsaved, SameLists
<1> QED
  BY <1>5, <1>8, <1>9, <1>10, <1>11, <1>12 DEF MgrInv

LEMMA SpawnSucceedsStep ==
    ASSUME IInv, NEW th \in Threads, NEW refuses \in Signals, SpawnSucceeds(th, refuses)
    PROVE  IInv'
<1> DEFINE s == op[th].session
           p == Len(mgr.processes) + 1
           x == [state |-> "alive", session |-> s, terminal |-> mgr.records[s].terminal,
                 refuses |-> refuses]
           processes == Append(mgr.processes, x)
           m == [mgr EXCEPT !.processes = processes]
           r == [mgr.records[s] EXCEPT !.process = p, !.status = "running"]
           a == Touch(mgr, s)
           n == Changed(a, [a.records EXCEPT ![s] = r], Append(a.processes, x), a.killTimers)
<1>1. op[th] # Null /\ op[th].pc = "spawn"
  BY DEF SpawnSucceeds, At
<1>2. Working(mgr, op[th], th) /\ MgrInv(mgr, {}) /\ mgr \in Managers
  BY <1>1, CallTypes, Invariant
<1>3. /\ Live(mgr, s) /\ mgr.records[s].process = 0
      /\ mgr.records[s].terminal \in op[th].terminals
      /\ op[th].terminals \subseteq TerminalsOf(th)
      /\ mgr.records[s].terminal \notin mgr.dropped => mgr.sessions[mgr.records[s].terminal] = s
  BY <1>1, <1>2 DEF Working
<1>4. /\ s \in DOMAIN mgr.records /\ mgr.records[s] \in Records /\ s \in Nat /\ s # 0
      /\ mgr.records[s].terminal \in Terminals
  BY <1>2, <1>3, LiveFacts
<1> DEFINE new == Update(m, s, [m.records[s] EXCEPT !.process = p, !.status = "running"])
<1>5. Return(th, new)
  BY DEF SpawnSucceeds
<1>6. /\ MgrInv(a, {}) /\ a.sessions = mgr.sessions /\ a.records = mgr.records
      /\ a.processes = mgr.processes /\ a.pending = mgr.pending /\ a.queue = mgr.queue
      /\ a.dropped = mgr.dropped /\ a.killTimers = mgr.killTimers
  BY <1>2, <1>4, TouchInv
<1>7. new = n
  <2>1. m = Changed(mgr, mgr.records, processes, mgr.killTimers)
    BY <1>2, ManagerFields DEF Changed
  <2>2. m.records = mgr.records
    BY <1>2, ManagerFields
  <2>3. a \in Managers
    BY <1>6 DEF MgrInv
  <2> HIDE DEF m, processes
  <2>4. Touch(m, s) = Changed(a, mgr.records, processes, mgr.killTimers)
    BY <1>2, <2>1, <2>3, TouchOthers
  <2> HIDE DEF a, r
  <2>5. new = [Touch(m, s) EXCEPT !.records[s] = r]
    BY <2>2 DEF Update, r
  <2>6. processes = Append(a.processes, x)
    BY <1>6 DEF processes
  <2> HIDE DEF new, x
  <2>7. new = [Changed(a, a.records, processes, a.killTimers) EXCEPT !.records[s] = r]
    BY <1>6, <2>4, <2>5
  <2> HIDE DEF n
  <2>8. Rewritten(a, new, s, r, processes, a.killTimers)
    BY ONLY <2>3, <2>7, RewriteChanged
  <2> QED
    BY <2>6, <2>8 DEF Rewritten, n
<1>8. /\ r \in Records /\ r.terminal = mgr.records[s].terminal
      /\ r.history = mgr.records[s].history /\ r.process = p /\ r.status = "running"
  <2>1. p \in Nat
    BY <1>2, ManagerFields
  <2> HIDE DEF p
  <2> QED
    BY <1>4, <2>1 DEF Records
<1>9. /\ x \in Processes /\ x.session = s /\ x.state = "alive"
      /\ x.terminal = mgr.records[s].terminal
  BY <1>4 DEF Processes
<1> HIDE DEF a, n, r, x, new
<1>10. /\ Live(a, s) /\ a.records[s].process = 0
       /\ a.records[s].terminal = mgr.records[s].terminal
       /\ a.records[s].history = mgr.records[s].history
       /\ a.records[s].terminal \notin a.dropped => a.sessions[a.records[s].terminal] = s
       /\ p = Len(a.processes) + 1
  BY <1>3, <1>6 DEF Live
<1>11. /\ MgrInv(n, {})
       /\ \A t \in Terminals : t # mgr.records[s].terminal => Follows(a, n, t)
  <2>1. Spawned(a, n, s, r, x)
    BY DEF n, Spawned
  <2> HIDE DEF p, s
  <2>2. /\ r.terminal = a.records[s].terminal /\ r.history = a.records[s].history
        /\ r.process = Len(a.processes) + 1 /\ x.terminal = a.records[s].terminal
    BY <1>8, <1>9, <1>10
  <2>3. MgrInv(n, {})
    BY <1>6, <1>8, <1>9, <1>10, <2>1, <2>2, SpawnInv
  <2>4. \A t \in Terminals : t # a.records[s].terminal => Follows(a, n, t)
    BY <1>6, <1>8, <1>9, <1>10, <2>1, <2>2, SpawnInv
  <2> QED
    BY <1>10, <2>3, <2>4
<1>12. ASSUME NEW t \in Terminals, InUse(t), ThreadOf[t] # th PROVE Follows(mgr, n, t)
  <2>1. t # mgr.records[s].terminal
    BY <1>3, <1>12, InUseOfOther
  <2>2. Follows(mgr, a, t)
    BY <1>6 DEF Follows, Unsaved, Live
  <2> QED
    BY <1>11, <2>1, <2>2, FollowsAll
<1> QED
  BY <1>5, <1>7, <1>11, <1>12, ReturnStep

LEMMA SpawnFailsStep ==
    ASSUME IInv, NEW th \in Threads, SpawnFails(th)
    PROVE  IInv'
<1> DEFINE s == op[th].session
           r == Ended(mgr.records[s], "error")
           a == Touch(mgr, s)
           b == [a EXCEPT !.records[s] = r]
           n == evictInactiveSessionsIfNeeded(b)
<1>1. op[th] # Null /\ op[th].pc = "spawn" /\ Return(th, n)
  BY DEF SpawnFails, At, Update
<1>2. Working(mgr, op[th], th) /\ MgrInv(mgr, {}) /\ mgr \in Managers
  BY <1>1, CallTypes, Invariant
<1>3. Live(mgr, s) /\ mgr.records[s].process = 0
  BY <1>1, <1>2 DEF Working
<1> HIDE DEF s
<1>4. /\ s \in DOMAIN mgr.records /\ mgr.records[s] \in Records
      /\ mgr.records[s].status # "running"
  BY <1>2, <1>3, LiveFacts
<1>5. /\ MgrInv(a, {}) /\ a.sessions = mgr.sessions /\ a.records = mgr.records
      /\ a.pending = mgr.pending /\ a.queue = mgr.queue /\ a.dropped = mgr.dropped
  BY <1>2, <1>4, TouchInv
<1>6. /\ r \in Records /\ r.terminal = mgr.records[s].terminal /\ r.process = 0
      /\ r.status # "running" /\ r.history = mgr.records[s].history
  BY <1>4, EndedType
<1> HIDE DEF a, r
<1>7. Rewrites(a, b, {}, s, r)
  BY <1>3, <1>4, <1>5, <1>6 DEF Rewrites
<1>8. Live(a, s)
  BY <1>3, <1>5 DEF Live
<1>9. MgrInv(b, {})
  BY ONLY <1>5, <1>7, <1>8, RecordInv
<1>10. \A t : Follows(a, b, t)
  BY <1>5, <1>7, <1>8, RecordInv
<1> HIDE DEF b
<1>11. MgrInv(n, {}) /\ Evicts(b, n)
  BY <1>9, EvictInv
<1> HIDE DEF n
<1>12. ASSUME NEW t \in Terminals, InUse(t) PROVE Follows(mgr, n, t)
  <2>1. Follows(mgr, a, t)
    BY <1>5 DEF Follows, Unsaved, Live
  <2>2. Follows(a, b, t)
    BY <1>10
  <2>3. Follows(b, n, t)
    BY <1>11, <1>12, EvictsFollows
  <2> QED
    BY <2>1, <2>2, <2>3, FollowsAll
<1> QED
  BY <1>1, <1>11, <1>12, ReturnStep

LEMMA CapHistoryType ==
    ASSUME NEW h \in Histories, NEW p \in Nat
    PROVE  capHistory(Append(h, p)) \in Histories
<1>1. h \in Seq(Nat) /\ HISTORY_LIMIT \in Nat
  BY Constants DEF Histories
<1> DEFINE q == Append(h, p)
<1>2. q \in Seq(Nat) /\ Len(q) \in Nat
  BY <1>1
<1> HIDE DEF q
<1>3. CASE Len(q) <= HISTORY_LIMIT
  BY <1>2, <1>3 DEF capHistory, Histories, q
<1>4. CASE ~(Len(q) <= HISTORY_LIMIT)
  <2> DEFINE f == Len(q) - HISTORY_LIMIT + 1
  <2>1. f \in 1..(Len(q) + 1)
    BY <1>1, <1>2, <1>4
  <2>2. SubSeq(q, f, Len(q)) \in Seq(Nat) /\ Len(SubSeq(q, f, Len(q))) = HISTORY_LIMIT
    BY <1>1, <1>2, <2>1, SubSeqProperties, SMTT(30)
  <2> QED
    BY <1>1, <1>4, <2>2 DEF capHistory, Histories, q
<1> QED
  BY <1>3, <1>4

\* The process that runs is the one of the listed record.
LEMMA HeardIsListed ==
    ASSUME NEW m, MgrInv(m, {}), NEW p, p \in DOMAIN m.processes,
           m.processes[p].state = "alive",
           NEW t \in Terminals, t = m.processes[p].terminal, t \notin m.dropped,
           NEW s, m.processes[p].session = s
    PROVE  m.sessions[t] = s
<1>1. m.sessions[t] # 0 /\ m.records[m.sessions[t]].process = p
  BY DEF MgrInv, Alone
<1>2. Live(m, m.sessions[t])
  BY <1>1 DEF MgrInv, Lists
<1>3. p \in Nat /\ p # 0
  BY ProcessType DEF MgrInv
<1> QED
  BY <1>1, <1>2, <1>3 DEF MgrInv, Linked, Live

LEMMA onProcessDataStep ==
    ASSUME IInv, NEW p \in DOMAIN mgr.processes, onProcessData(p)
    PROVE  IInv'
<1> DEFINE s == mgr.processes[p].session
           t == mgr.records[s].terminal
           history == capHistory(Append(mgr.records[s].history, p))
<1>1. mgr.processes[p].state = "alive" /\ s # 0
  BY DEF onProcessData
<1>2. MgrInv(mgr, {}) /\ mgr \in Managers
  BY Invariant
<1>3. /\ Live(mgr, s) /\ mgr.records[s].process = p
      /\ t = mgr.processes[p].terminal /\ p \in Nat /\ p # 0
  BY <1>1, <1>2, ProcessType DEF MgrInv, Linked
<1>4. s \in DOMAIN mgr.records /\ mgr.records[s] \in Records /\ s \in Nat /\ t \in Terminals
  BY <1>2, <1>3, LiveFacts
<1>5. history \in Histories
  BY <1>3, <1>4, CapHistoryType DEF Records
<1>6. t \notin mgr.dropped => mgr.sessions[t] = s
  <2> HIDE DEF t, s
  <2>1. mgr.processes[p].session = s
    BY DEF s
  <2> QED
    BY <1>1, <1>2, <1>3, <1>4, <2>1, HeardIsListed
<1> DEFINE r == [mgr.records[s] EXCEPT !.history = history]
           a == Touch(mgr, s)
           b == [a EXCEPT !.records[s] = r]
           n == queuePersist(b, t, history)
<1> HIDE DEF s, t, history
<1>7. /\ MgrInv(a, {}) /\ a.sessions = mgr.sessions /\ a.records = mgr.records
      /\ a.pending = mgr.pending /\ a.queue = mgr.queue /\ a.dropped = mgr.dropped
  BY <1>2, <1>4, TouchInv
<1>8. /\ r \in Records /\ r.terminal = t /\ r.process = mgr.records[s].process
      /\ r.status = mgr.records[s].status /\ r.history = history
  BY <1>4, <1>5 DEF Records, t
<1> HIDE DEF a, r
<1>9. Rewrites(a, b, {t}, s, r)
  BY <1>7, <1>8 DEF Rewrites, t
<1>10. MgrInv(a, {t}) /\ Live(a, s)
  BY <1>3, <1>7, MoreExcepted DEF Live
<1> HIDE DEF b, n
<1>11. /\ MgrInv(b, {t}) /\ SameLists(a, b)
       /\ DOMAIN b.records = DOMAIN a.records /\ b.records[s] = r
  BY ONLY <1>9, <1>10, RecordInv
<1>12. \A u : Follows(a, b, u)
  BY <1>9, <1>10, RecordInv
<1> USE DEF n
<1>13. b \in Managers /\ b.records[s].history = history
  BY <1>8, <1>11 DEF MgrInv
<1> DEFINE pending == [b.pending EXCEPT ![t] = history]
           timers == b.timers \cup {t}
<1>14. n = [b EXCEPT !.pending = pending, !.timers = timers]
  BY <1>13, ManagerFields DEF queuePersist
<1>15. /\ pending \in [Terminals -> Histories \cup {Null}] /\ timers \in SUBSET Terminals
       /\ pending[t] = history /\ \A u \in Terminals : u # t => pending[u] = b.pending[u]
  BY <1>4, <1>5, <1>13, ManagerFields
<1> HIDE DEF n, pending, timers
<1>16. n = [sessions |-> b.sessions, records |-> b.records, recency |-> b.recency,
            processes |-> b.processes, killTimers |-> b.killTimers,
            pending |-> pending, timers |-> timers, queue |-> b.queue,
            detached |-> b.detached, dropped |-> b.dropped, deleted |-> b.deleted]
  <2>1. b = [sessions |-> b.sessions, records |-> b.records, recency |-> b.recency,
             processes |-> b.processes, killTimers |-> b.killTimers,
             pending |-> b.pending, timers |-> b.timers, queue |-> b.queue,
             detached |-> b.detached, dropped |-> b.dropped, deleted |-> b.deleted]
    BY <1>13, ManagerFields
  <2> QED
    BY <1>14, <2>1
<1>17. SameRecords(b, n) /\ n.pending = pending /\ n.queue = b.queue /\ n.timers = timers
  BY <1>16 DEF SameRecords
<1>18. n \in Managers
  BY <1>13, <1>15, <1>16, ManagerFields DEF Managers
<1>19. /\ Will(n, t, file[t]) = history
       /\ \A u \in Terminals : u # t => Will(n, u, file[u]) = Will(b, u, file[u])
  BY <1>5, <1>15, <1>17, Constants DEF Will
<1>20. t \notin b.dropped => b.sessions[t] = s
  BY <1>6, <1>7, <1>11 DEF SameLists
<1>21. MgrInv(n, {})
  <2>1. \A u \in Terminals \ (b.dropped \cup {}) : b.sessions[u] # 0 =>
           \/ u \notin {t} /\ Will(n, u, file[u]) = Will(b, u, file[u])
           \/ Will(n, u, file[u]) = b.records[b.sessions[u]].history
    BY <1>13, <1>19, <1>20
  <2>2. \A u \in b.deleted \ b.dropped : Will(n, u, file[u]) = Will(b, u, file[u])
    <3> TAKE u \in b.deleted \ b.dropped
    <3>1. u \in Terminals /\ b.sessions[u] = 0
      BY <1>11, <1>13, ManagerFields DEF MgrInv, Saved
    <3>2. u # t
      BY <1>4, <1>20, <3>1, <1>1 DEF s
    <3> QED
      BY <1>19, <3>1, <3>2
  <2> QED
    BY <1>11, <1>17, <1>18, <2>1, <2>2, WritesInv
<1>22. ASSUME NEW u \in Terminals PROVE Follows(mgr, n, u)
  <2>1. Follows(mgr, a, u)
    BY <1>7 DEF Follows, Unsaved, Live
  <2>2. Follows(b, n, u)
    <3>1. \A v : Live(n, v) <=> Live(b, v)
      BY <1>17 DEF Live, SameRecords
    <3>2. u \notin n.dropped => (Unsaved(n, u) => Unsaved(b, u) \/ b.sessions[u] # 0)
      <4>1. CASE u = t
        BY <1>1, <1>17, <1>20, <4>1 DEF SameRecords, s
      <4>2. CASE u # t
        BY <1>15, <1>17, <4>2, SMTT(30) DEF Unsaved
      <4> QED
        BY <4>1, <4>2
    <3> QED
      BY <1>17, <3>1, <3>2 DEF Follows, SameRecords
  <2> QED
    BY <1>12, <2>1, <2>2, FollowsAll
<1> HIDE DEF n
<1>23. mgr' = n /\ op' = op /\ file' = file
  BY DEF onProcessData, Update, n, b, a, r, history, t, s
<1>24. \A u \in Terminals : InUse(u) => Follows(mgr, n, u)
  BY <1>22
<1> QED
  BY ONLY IInv, <1>21, <1>23, <1>24, InternalStep

LEMMA onProcessExitStep ==
    ASSUME IInv, NEW p \in DOMAIN mgr.processes, onProcessExit(p)
    PROVE  IInv'
<1> DEFINE s == mgr.processes[p].session
           x == Unheard(mgr.processes[p], "dead")
           processes == [mgr.processes EXCEPT ![p] = x]
           m == [mgr EXCEPT !.processes = processes]
<1>1. MgrInv(mgr, {}) /\ mgr \in Managers
  BY Invariant
<1>2. mgr.processes[p] \in Processes /\ mgr.processes \in Seq(Processes)
  BY <1>1, ProcessType, ManagerFields
<1>3. /\ x \in Processes /\ x.session = 0 /\ x.state # "alive"
      /\ x.terminal = mgr.processes[p].terminal
  BY <1>2, UnheardType
<1>4. m = [mgr EXCEPT !.processes[p] = Unheard(@, "dead")]
  BY <1>1, ManagerFields
<1>5. CASE s = 0
  <2>1. mgr' = m /\ op' = op /\ file' = file
    BY <1>4, <1>5 DEF onProcessExit, Internal
  <2>2. Died(mgr, m, p, x, mgr.killTimers)
    BY <1>1, ManagerFields DEF Changed, Died
  <2> HIDE DEF x, m
  <2>3. MgrInv(m, {})
    BY <1>1, <1>3, <1>5, <2>2, DeathInv
  <2>4. \A t : Follows(mgr, m, t)
    BY <1>1, <1>3, <1>5, <2>2, DeathInv
  <2> QED
    BY <2>1, <2>3, <2>4, InternalStep
<1>6. CASE s # 0
  <2> DEFINE killTimers == mgr.killTimers \ {p}
             k == [m EXCEPT !.killTimers = m.killTimers \ {p}]
             r == Ended(mgr.records[s], "exited")
             a == Touch(mgr, s)
             c == [Touch(k, s) EXCEPT !.records[s] = r]
             n == evictInactiveSessionsIfNeeded(c)
  <2>1. /\ Live(mgr, s) /\ mgr.records[s].process = p /\ p # 0
        /\ mgr.records[s].terminal = mgr.processes[p].terminal
    BY <1>1, <1>6, ProcessType DEF MgrInv, Linked
  <2>2. s \in DOMAIN mgr.records /\ mgr.records[s] \in Records
    BY <1>1, <2>1, LiveFacts
  <2>3. m.records = mgr.records /\ m.killTimers = mgr.killTimers
    BY <1>1, ManagerFields
  <2>4. mgr' = n /\ op' = op /\ file' = file
    BY <1>4, <1>6, <2>3 DEF onProcessExit, Internal, Update
  <2>5. /\ MgrInv(a, {}) /\ a.sessions = mgr.sessions /\ a.records = mgr.records
        /\ a.processes = mgr.processes /\ a.pending = mgr.pending /\ a.queue = mgr.queue
        /\ a.dropped = mgr.dropped /\ a.deleted = mgr.deleted /\ a.killTimers = mgr.killTimers
    BY <1>1, <2>2, TouchInv
  <2>6. /\ r \in Records /\ r.process = 0 /\ r.status # "running"
        /\ r.terminal = mgr.records[s].terminal /\ r.history = mgr.records[s].history
    BY <2>2, EndedType
  <2>7. k = Changed(mgr, mgr.records, processes, killTimers)
    BY <1>1, ManagerFields DEF Changed
  <2> HIDE DEF k, a, r, x, processes, killTimers, s
  <2>10. a \in Managers
    BY <2>5 DEF MgrInv
  <2>8. Touch(k, s) = Changed(a, mgr.records, processes, killTimers)
    BY <1>1, <2>7, <2>10, TouchOthers DEF a
  <2>15. c = [Changed(a, a.records, processes, killTimers) EXCEPT !.records[s] = r]
    BY <2>5, <2>8
  <2> HIDE DEF c, n
  <2>16. Rewritten(a, c, s, r, processes, killTimers)
    BY ONLY <2>10, <2>15, RewriteChanged
  <2>9. c = Changed(a, [a.records EXCEPT ![s] = r], processes, killTimers)
    BY <2>16 DEF Rewritten
  <2> USE DEF n
  <2>11. /\ c.records = [a.records EXCEPT ![s] = r] /\ c.processes = processes
         /\ c.killTimers = killTimers /\ SameLists(a, c) /\ c \in Managers
    <3>1. [a.records EXCEPT ![s] = r] \in Seq(Records \cup {Closed})
      BY <2>2, <2>5, <2>6, <2>10, ManagerFields, ExceptFacts
    <3>2. processes \in Seq(Processes)
      BY <1>2, <1>3, ExceptFacts DEF processes
    <3>3. killTimers \in SUBSET Nat
      BY <1>1, ManagerFields DEF killTimers
    <3> QED
      BY <2>9, <2>10, <3>1, <3>2, <3>3, ChangedFields, SMTT(30)
  <2>12. MgrInv(c, {})
    <3>1. Live(a, s) /\ a.records[s] = mgr.records[s]
      BY <2>1, <2>5 DEF Live
    <3>2. /\ a.records[s].process # 0 /\ r.terminal = a.records[s].terminal
          /\ r.history = a.records[s].history /\ a.records[s].process = p
          /\ x.terminal = a.processes[p].terminal
      BY <1>3, <2>1, <2>5, <2>6, <3>1
    <3>3. Ends(a, c, s, r, x)
      <4>1. /\ c.processes = [a.processes EXCEPT ![p] = x]
            /\ c.killTimers \subseteq a.killTimers \cup {p}
        BY <2>5, <2>11 DEF processes, killTimers
      <4> QED
        BY <2>11, <3>2, <4>1 DEF Ends
    <3> QED
      BY <1>3, <2>5, <2>6, <2>11, <3>1, <3>2, <3>3, EndInv
  <2>13. MgrInv(n, {}) /\ Evicts(c, n)
    BY <2>12, EvictInv
  <2> HIDE DEF n
  <2>14. ASSUME NEW t \in Terminals, InUse(t) PROVE Follows(mgr, n, t)
    <3>1. ASSUME NEW u \in DOMAIN mgr.records, Live(mgr, u), mgr.records[u].terminal = t
          PROVE  /\ Live(c, u) /\ c.records[u].terminal = t
                 /\ mgr.records[u].process = 0 => c.records[u].process = 0
      <4>1. mgr.records \in Seq(Records \cup {Closed})
        BY <1>1, ManagerFields
      <4>2. /\ DOMAIN c.records = DOMAIN mgr.records /\ c.records[s] = r
            /\ \A v \in DOMAIN mgr.records : v # s => c.records[v] = mgr.records[v]
        BY <2>2, <2>5, <2>6, <2>11, <4>1, ExceptFacts
      <4>3. CASE u = s
        BY <2>6, <3>1, <4>2, <4>3 DEF Live
      <4>4. CASE u # s
        BY <3>1, <4>2, <4>4 DEF Live
      <4> QED
        BY <4>3, <4>4
    <3>2. Follows(mgr, c, t)
      BY <2>5, <2>11, <3>1 DEF Follows, Unsaved, SameLists
    <3>3. Follows(c, n, t)
      BY <2>13, <2>14, EvictsFollows
    <3> QED
      BY <3>2, <3>3, FollowsAll
  <2> QED
    BY <2>4, <2>13, <2>14, InternalStep
<1> QED
  BY <1>5, <1>6

-----------------------------------------------------------------------------
(* Timers and writes *)

LEMMA KillTimerStep ==
    ASSUME IInv, NEW p, KillTimerFires(p)
    PROVE  IInv'
<1> DEFINE x == IF mgr.processes[p].refuses = "SIGKILL" THEN mgr.processes[p]
                ELSE [mgr.processes[p] EXCEPT !.state = "dead"]
           n == Changed(mgr, mgr.records, [mgr.processes EXCEPT ![p] = x], mgr.killTimers \ {p})
<1>1. MgrInv(mgr, {}) /\ mgr \in Managers /\ p \in mgr.killTimers
  BY Invariant DEF KillTimerFires
<1>2. p \in DOMAIN mgr.processes /\ mgr.processes[p].session = 0
  BY <1>1 DEF MgrInv, Linked
<1>3. mgr.processes[p] \in Processes
  BY <1>1, <1>2, ProcessType
<1>4. /\ x \in Processes /\ x.session = 0 /\ x.state # "alive"
      /\ x.terminal = mgr.processes[p].terminal
  <2>1. mgr.processes[p].state # "alive"
    BY <1>1, <1>2 DEF MgrInv, Linked
  <2> QED
    BY <1>2, <1>3, <2>1 DEF Processes
<1>5. mgr' = n /\ op' = op /\ file' = file
  <2>1. CASE mgr.processes[p].refuses = "SIGKILL"
    <3>1. [mgr.processes EXCEPT ![p] = x] = mgr.processes
      BY <1>1, <1>2, <2>1, ManagerFields
    <3>2. n = [mgr EXCEPT !.killTimers = @ \ {p}]
      BY <1>1, <3>1, ManagerFields DEF Changed
    <3> QED
      BY <2>1, <3>2 DEF KillTimerFires, Internal
  <2>2. CASE mgr.processes[p].refuses # "SIGKILL"
    BY <1>1, <1>2, <2>2, ManagerFields DEF KillTimerFires, Internal, Changed
  <2> QED
    BY <2>1, <2>2
<1> DEFINE killTimers == mgr.killTimers \ {p}
<1> HIDE DEF x
<1>6. killTimers \subseteq mgr.killTimers
  OBVIOUS
<1>7. Died(mgr, n, p, x, killTimers)
  BY DEF Died
<1> HIDE DEF n, killTimers
<1>8. MgrInv(n, {})
  BY <1>1, <1>2, <1>4, <1>6, <1>7, DeathInv
<1>9. \A t : Follows(mgr, n, t)
  BY <1>1, <1>2, <1>4, <1>6, <1>7, DeathInv
<1> QED
  BY <1>5, <1>8, <1>9, InternalStep

LEMMA PersistTimerStep ==
    ASSUME IInv, NEW t \in Terminals, PersistTimerFires(t)
    PROVE  IInv'
<1> DEFINE timers == mgr.timers \ {t}
           m == [mgr EXCEPT !.timers = timers]
<1>1. MgrInv(mgr, {}) /\ mgr \in Managers /\ timers \in SUBSET Terminals
  BY Invariant, ManagerFields
<1>2. CASE mgr.pending[t] = Null
  <2>1. mgr' = m /\ op' = op /\ file' = file
    BY <1>2 DEF PersistTimerFires, Internal
  <2> HIDE DEF timers
  <2>2. MgrInv(m, {}) /\ \A u : Follows(mgr, m, u)
    BY <1>1, TimersInv
  <2> HIDE DEF m
  <2> QED
    BY <2>1, <2>2, InternalStep
<1>3. CASE mgr.pending[t] # Null
  <2> DEFINE n == [mgr EXCEPT !.timers = timers, !.pending = [mgr.pending EXCEPT ![t] = Null],
                     !.queue = [mgr.queue EXCEPT ![t] = Append(mgr.queue[t], mgr.pending[t])]]
  <2>1. enqueuePersistWrite([m EXCEPT !.pending[t] = Null], t, mgr.pending[t]) = n
    BY <1>1, ManagerFields DEF enqueuePersistWrite
  <2>2. mgr' = n /\ op' = op /\ file' = file
    BY <1>3, <2>1 DEF PersistTimerFires, Internal
  <2> HIDE DEF timers
  <2>3. MgrInv(n, {}) /\ \A u \in Terminals : Follows(mgr, n, u)
    BY <1>1, <1>3, FlushInv
  <2> HIDE DEF n
  <2> QED
    BY <2>2, <2>3, InternalStep
<1> QED
  BY <1>2, <1>3

\* The invariant after a step that writes a file, and changes at most what is on
\* its way there and which transcripts are deleted.
LEMMA AfterWrite ==
    ASSUME IInv, mgr' \in Managers, file' \in [Terminals -> Histories \cup {Null}],
           op' \in [Threads -> Calls \cup {Null}],
           mgr'.sessions = mgr.sessions, mgr'.records = mgr.records, mgr'.recency = mgr.recency,
           mgr'.processes = mgr.processes, mgr'.killTimers = mgr.killTimers,
           mgr'.dropped = mgr.dropped,
           \A chain \in mgr'.detached : chain[1] \in mgr.dropped /\ chain[2] # <<>>,
           \A t \in Terminals \ mgr.dropped :
              \/ Will(mgr', t, file'[t]) = Will(mgr, t, file[t])
              \/ Will(mgr', t, file'[t]) = <<>> /\ mgr.sessions[t] = 0,
           \A t \in mgr'.deleted \ mgr.deleted :
              mgr.sessions[t] = 0 /\ (t \notin mgr.dropped => Will(mgr', t, file'[t]) = <<>>),
           \A t \in Terminals : Unsaved(mgr', t) => Unsaved(mgr, t),
           \A th \in Threads : op'[th] # Null => op'[th] = op[th]
    PROVE  IInv'
<1>1. /\ mgr \in Managers /\ Linked(mgr) /\ Lists(mgr) /\ Alone(mgr) /\ Saved(mgr, {})
      /\ mgr.deleted \subseteq Terminals /\ mgr'.deleted \subseteq Terminals
  BY ManagerFields DEF IInv, MgrInv
<1>2. Linked(mgr)' /\ Lists(mgr)' /\ Alone(mgr)'
  <2>1. Linked(mgr)'
    BY <1>1 DEF Linked, Live
  <2>2. Lists(mgr)'
    BY <1>1, SMTT(30) DEF Lists, Live, Listed
  <2>3. Alone(mgr)'
    BY <1>1 DEF Alone
  <2> QED
    BY <2>1, <2>2, <2>3, SMTT(30)
<1>3. ASSUME NEW t \in Terminals \ mgr'.dropped, mgr'.sessions[t] # 0
      PROVE  Will(mgr', t, file'[t]) = mgr'.records[mgr'.sessions[t]].history
  BY <1>1, <1>3 DEF Saved
<1>4. ASSUME NEW t \in mgr'.deleted
      PROVE  mgr'.sessions[t] = 0 /\ (t \notin mgr'.dropped => Will(mgr', t, file'[t]) = <<>>)
  <2>1. t \in Terminals
    BY <1>1
  <2>2. CASE t \in mgr.deleted
    BY <1>1, <2>1, <2>2 DEF Saved
  <2>3. CASE t \notin mgr.deleted
    BY <1>4, <2>3
  <2> QED
    BY <2>2, <2>3
<1>5. /\ \A t \in Terminals \ (mgr'.dropped \cup {}) : mgr'.sessions[t] # 0 =>
            Will(mgr', t, file'[t]) = mgr'.records[mgr'.sessions[t]].history
      /\ \A chain \in mgr'.detached : chain[1] \in mgr'.dropped /\ chain[2] # <<>>
  BY <1>3
<1>6. Saved(mgr, {})'
  BY <1>4, <1>5 DEF Saved, Will
<1>7. MgrInv(mgr, {})'
  BY <1>2, <1>6, SMTT(30) DEF MgrInv
<1>8. ASSUME NEW th \in Threads, op'[th] # Null PROVE Working(mgr, op[th], th)'
  <2>1. Working(mgr, op[th], th) /\ op'[th] = op[th] /\ op[th].terminals \subseteq Terminals
    BY <1>8, CallTypes
  <2>2. \A t \in Terminals : Follows(mgr, mgr', t)
    BY DEF Follows, Live
  <2>3. Working(mgr', op[th], th)
    BY <2>1, <2>2, WorkingFollows
  <2> QED
    BY <2>1, <2>3 DEF Working, Live, Unsaved
<1>9. TypeOK'
  BY DEF TypeOK
<1> QED
  BY <1>7, <1>8, <1>9 DEF IInv

LEMMA Types ==
    IInv => /\ mgr \in Managers /\ file \in [Terminals -> Histories \cup {Null}]
            /\ op \in [Threads -> Calls \cup {Null}]
            /\ \A chain \in mgr.detached : chain[1] \in mgr.dropped /\ chain[2] # <<>>
BY DEF IInv, TypeOK, MgrInv, Saved

LEMMA ChainTailFacts ==
    ASSUME NEW S, NEW q \in Seq(S), q # <<>>
    PROVE  /\ Tail(q) \in Seq(S) /\ Head(q) \in S
           /\ Tail(q) # <<>> => Tail(q)[Len(Tail(q))] = q[Len(q)]
           /\ Tail(q) = <<>> => Head(q) = q[Len(q)]
<1>1. Len(q) \in Nat /\ Len(q) # 0 /\ Head(q) = q[1] /\ q[1] \in S
  OBVIOUS
<1>2. /\ Tail(q) \in Seq(S) /\ Len(Tail(q)) = Len(q) - 1
      /\ \A i \in 1..(Len(q) - 1) : Tail(q)[i] = q[i + 1]
  OBVIOUS
<1>3. Tail(q) = <<>> <=> Len(q) = 1
  <2>1. Tail(q) = <<>> <=> Len(Tail(q)) = 0
    BY <1>2, EmptySeq
  <2> QED
    BY <1>1, <1>2, <2>1
<1>4. ASSUME Len(q) # 1 PROVE Tail(q)[Len(Tail(q))] = q[Len(q)]
  <2> DEFINE k == Len(q)
  <2> HIDE DEF k
  <2>2. k \in Nat /\ k # 0 /\ k # 1
    BY <1>1, <1>4 DEF k
  <2>3. k - 1 \in 1..(k - 1) /\ (k - 1) + 1 = k
    BY <2>2
  <2>1. Len(q) - 1 \in 1..(Len(q) - 1) /\ (Len(q) - 1) + 1 = Len(q)
    BY <2>3 DEF k
  <2> QED
    BY <1>2, <2>1
<1> QED
  BY <1>1, <1>2, <1>3, <1>4

LEMMA WriteEndsStep ==
    ASSUME IInv, NEW t \in Terminals, WriteEnds(t)
    PROVE  IInv'
<1> DEFINE q == mgr.queue[t]
           queue == [mgr.queue EXCEPT ![t] = Tail(q)]
           timers == IF mgr.pending[t] # Null THEN mgr.timers \cup {t} ELSE mgr.timers
           n == [mgr EXCEPT !.queue = queue, !.timers = timers]
<1>1. /\ mgr \in Managers /\ file \in [Terminals -> Histories \cup {Null}]
      /\ op \in [Threads -> Calls \cup {Null}]
      /\ \A chain \in mgr.detached : chain[1] \in mgr.dropped /\ chain[2] # <<>>
  BY Types
<1>2. q # <<>> /\ q \in Seq(Histories)
  BY <1>1, ManagerFields DEF WriteEnds
<1>3. op' = op /\ file' = [file EXCEPT ![t] = Head(q)] /\ mgr' = n
  BY <1>1, ManagerFields DEF WriteEnds
<1> HIDE DEF q
<1>4. /\ Tail(q) \in Seq(Histories) /\ Head(q) \in Histories
      /\ Tail(q) # <<>> => Tail(q)[Len(Tail(q))] = q[Len(q)]
      /\ Tail(q) = <<>> => Head(q) = q[Len(q)]
  BY <1>2, ChainTailFacts
<1>5. /\ queue \in [Terminals -> Seq(Histories)] /\ queue[t] = Tail(q)
      /\ \A u \in Terminals : u # t => queue[u] = mgr.queue[u]
  BY <1>1, <1>4, ManagerFields
<1>6. timers \in SUBSET Terminals
  BY <1>1, ManagerFields
<1>7. mgr = [sessions |-> mgr.sessions, records |-> mgr.records, recency |-> mgr.recency,
             processes |-> mgr.processes, killTimers |-> mgr.killTimers,
             pending |-> mgr.pending, timers |-> mgr.timers, queue |-> mgr.queue,
             detached |-> mgr.detached, dropped |-> mgr.dropped, deleted |-> mgr.deleted]
  BY <1>1, ManagerFields
<1> HIDE DEF queue, timers
<1>14. n = [mgr EXCEPT !.queue = queue, !.timers = timers]
  OBVIOUS
<1> HIDE DEF n
<1>8. n = [sessions |-> mgr.sessions, records |-> mgr.records, recency |-> mgr.recency,
           processes |-> mgr.processes, killTimers |-> mgr.killTimers,
           pending |-> mgr.pending, timers |-> timers, queue |-> queue,
           detached |-> mgr.detached, dropped |-> mgr.dropped, deleted |-> mgr.deleted]
  BY <1>7, <1>14
<1>9. /\ n.sessions = mgr.sessions /\ n.records = mgr.records /\ n.recency = mgr.recency
      /\ n.processes = mgr.processes /\ n.killTimers = mgr.killTimers
      /\ n.dropped = mgr.dropped /\ n.detached = mgr.detached /\ n.deleted = mgr.deleted
      /\ n.pending = mgr.pending /\ n.queue = queue
  BY <1>8
<1>10. n \in Managers
  BY <1>1, <1>5, <1>6, <1>8, ManagerFields DEF Managers
<1>11. /\ file' \in [Terminals -> Histories \cup {Null}] /\ file'[t] = Head(q)
       /\ \A u \in Terminals : u # t => file'[u] = file[u]
  BY <1>1, <1>3, <1>4
<1>12. ASSUME NEW u \in Terminals PROVE Will(n, u, file'[u]) = Will(mgr, u, file[u])
  <2>1. CASE u = t
    <3>1. mgr.queue[t] = q /\ n.queue[t] = Tail(q) /\ n.pending[t] = mgr.pending[t]
      BY <1>5, <1>9 DEF q
    <3>2. Head(q) # Null
      BY <1>4, Constants
    <3> QED
      BY <1>2, <1>4, <1>11, <2>1, <3>1, <3>2 DEF Will
  <2>2. CASE u # t
    BY <1>5, <1>9, <1>11, <2>2 DEF Will
  <2> QED
    BY <2>1, <2>2
<1>13. ASSUME NEW u \in Terminals PROVE Unsaved(n, u) => Unsaved(mgr, u)
  <2>1. CASE u = t
    BY <1>2, <2>1 DEF Unsaved, q
  <2>2. CASE u # t
    BY <1>5, <1>9, <2>2 DEF Unsaved
  <2> QED
    BY <2>1, <2>2
<1> QED
  BY <1>1, <1>3, <1>9, <1>10, <1>11, <1>12, <1>13, AfterWrite

LEMMA DetachedWriteEndsStep ==
    ASSUME IInv, NEW chain, DetachedWriteEnds(chain)
    PROVE  IInv'
<1> DEFINE t == chain[1]
           q == chain[2]
           rest == Tail(q)
           detached == (mgr.detached \ {chain}) \cup (IF rest = <<>> THEN {} ELSE {<<t, rest>>})
           n == [mgr EXCEPT !.detached = detached]
<1>1. /\ mgr \in Managers /\ file \in [Terminals -> Histories \cup {Null}]
      /\ op \in [Threads -> Calls \cup {Null}] /\ chain \in mgr.detached
      /\ \A c \in mgr.detached : c[1] \in mgr.dropped /\ c[2] # <<>>
  BY Types DEF DetachedWriteEnds
<1>2. /\ mgr' = n /\ op' = op /\ file' = [file EXCEPT ![t] = Head(q)]
  BY DEF DetachedWriteEnds
<1>3. t \in Terminals /\ t \in mgr.dropped /\ q \in Seq(Histories) /\ q # <<>>
  BY <1>1, ManagerFields
<1> HIDE DEF t, q
<1>4. Tail(q) \in Seq(Histories) /\ Head(q) \in Histories
  BY <1>3, ChainTailFacts
<1>5. /\ detached \in SUBSET (Terminals \X Seq(Histories))
      /\ \A c \in detached : c[1] \in mgr.dropped /\ c[2] # <<>>
  <2>1. mgr.detached \subseteq Terminals \X Seq(Histories)
    BY <1>1, ManagerFields
  <2> DEFINE d == <<t, rest>>
  <2>2. d \in Terminals \X Seq(Histories) /\ d[1] \in mgr.dropped /\ d[2] = rest
    BY <1>3, <1>4
  <2>3. \A c \in detached : c \in mgr.detached \/ (c = d /\ rest # <<>>)
    OBVIOUS
  <2> HIDE DEF d, rest, detached
  <2> QED
    BY <1>1, <2>1, <2>2, <2>3
<1>6. mgr = [sessions |-> mgr.sessions, records |-> mgr.records, recency |-> mgr.recency,
             processes |-> mgr.processes, killTimers |-> mgr.killTimers,
             pending |-> mgr.pending, timers |-> mgr.timers, queue |-> mgr.queue,
             detached |-> mgr.detached, dropped |-> mgr.dropped, deleted |-> mgr.deleted]
  BY <1>1, ManagerFields
<1> HIDE DEF detached
<1>7. n = [sessions |-> mgr.sessions, records |-> mgr.records, recency |-> mgr.recency,
           processes |-> mgr.processes, killTimers |-> mgr.killTimers,
           pending |-> mgr.pending, timers |-> mgr.timers, queue |-> mgr.queue,
           detached |-> detached, dropped |-> mgr.dropped, deleted |-> mgr.deleted]
  BY <1>6
<1> HIDE DEF n
<1>8. /\ n.sessions = mgr.sessions /\ n.records = mgr.records /\ n.recency = mgr.recency
      /\ n.processes = mgr.processes /\ n.killTimers = mgr.killTimers
      /\ n.dropped = mgr.dropped /\ n.detached = detached /\ n.deleted = mgr.deleted
      /\ n.pending = mgr.pending /\ n.queue = mgr.queue
  BY <1>7
<1>9. n \in Managers
  BY <1>1, <1>5, <1>7, ManagerFields DEF Managers
<1>10. /\ file' \in [Terminals -> Histories \cup {Null}]
       /\ \A u \in Terminals : u # t => file'[u] = file[u]
  BY <1>1, <1>2, <1>4
<1>11. \A u \in Terminals \ mgr.dropped : Will(n, u, file'[u]) = Will(mgr, u, file[u])
  BY <1>3, <1>8, <1>10 DEF Will
<1>12. \A u \in Terminals : Unsaved(n, u) => Unsaved(mgr, u)
  BY <1>8 DEF Unsaved
<1> QED
  BY <1>1, <1>2, <1>5, <1>8, <1>9, <1>10, <1>11, <1>12, AfterWrite

LEMMA DeleteHistoryStep ==
    ASSUME IInv, NEW th \in Threads, DeleteHistory(th)
    PROVE  IInv'
<1> DEFINE ts == op[th].terminals
           deleted == mgr.deleted \cup ts
           n == [mgr EXCEPT !.deleted = deleted]
<1>1. /\ mgr \in Managers /\ file \in [Terminals -> Histories \cup {Null}]
      /\ op \in [Threads -> Calls \cup {Null}]
      /\ \A chain \in mgr.detached : chain[1] \in mgr.dropped /\ chain[2] # <<>>
  BY Types
<1>2. op[th] # Null /\ op[th].pc = "delete"
  BY DEF DeleteHistory, At
<1>3. Working(mgr, op[th], th) /\ ts \subseteq Terminals
  BY <1>2, CallTypes
<1>4. /\ \A t \in ts : mgr.sessions[t] = 0
      /\ \A t \in ts \ mgr.dropped : ~Unsaved(mgr, t)
  BY <1>2, <1>3 DEF Working
<1>5. /\ mgr' = n /\ op' = [op EXCEPT ![th] = Null]
      /\ file' = [t \in Terminals |-> IF t \in ts THEN Null ELSE file[t]]
  BY DEF DeleteHistory
<1> HIDE DEF ts
<1>6. deleted \in SUBSET Terminals
  BY <1>1, <1>3, ManagerFields
<1>7. mgr = [sessions |-> mgr.sessions, records |-> mgr.records, recency |-> mgr.recency,
             processes |-> mgr.processes, killTimers |-> mgr.killTimers,
             pending |-> mgr.pending, timers |-> mgr.timers, queue |-> mgr.queue,
             detached |-> mgr.detached, dropped |-> mgr.dropped, deleted |-> mgr.deleted]
  BY <1>1, ManagerFields
<1> HIDE DEF deleted
<1>8. n = [sessions |-> mgr.sessions, records |-> mgr.records, recency |-> mgr.recency,
           processes |-> mgr.processes, killTimers |-> mgr.killTimers,
           pending |-> mgr.pending, timers |-> mgr.timers, queue |-> mgr.queue,
           detached |-> mgr.detached, dropped |-> mgr.dropped, deleted |-> deleted]
  BY <1>7
<1> HIDE DEF n
<1>9. /\ n.sessions = mgr.sessions /\ n.records = mgr.records /\ n.recency = mgr.recency
      /\ n.processes = mgr.processes /\ n.killTimers = mgr.killTimers
      /\ n.dropped = mgr.dropped /\ n.detached = mgr.detached /\ n.deleted = deleted
      /\ n.pending = mgr.pending /\ n.queue = mgr.queue
  BY <1>8
<1>10. n \in Managers
  BY <1>1, <1>6, <1>8, ManagerFields DEF Managers
<1>11. /\ file' \in [Terminals -> Histories \cup {Null}]
       /\ \A t \in ts : file'[t] = Null
       /\ \A t \in Terminals : t \notin ts => file'[t] = file[t]
  BY <1>1, <1>3, <1>5
<1>12. /\ op' \in [Threads -> Calls \cup {Null}]
       /\ \A other \in Threads : op'[other] # Null => op'[other] = op[other]
  BY <1>1, <1>5
<1>13. \A t \in ts \ mgr.dropped : Will(n, t, file'[t]) = <<>>
  BY <1>4, <1>9, <1>11 DEF Will, Unsaved
<1>14. ASSUME NEW t \in Terminals \ mgr.dropped
       PROVE  \/ Will(n, t, file'[t]) = Will(mgr, t, file[t])
              \/ Will(n, t, file'[t]) = <<>> /\ mgr.sessions[t] = 0
  <2>1. CASE t \in ts
    BY <1>4, <1>13, <1>14, <2>1
  <2>2. CASE t \notin ts
    BY <1>9, <1>11, <1>14, <2>2 DEF Will
  <2> QED
    BY <2>1, <2>2
<1>15. \A t \in n.deleted \ mgr.deleted :
          mgr.sessions[t] = 0 /\ (t \notin mgr.dropped => Will(n, t, file'[t]) = <<>>)
  BY <1>4, <1>9, <1>13 DEF deleted
<1>16. \A t \in Terminals : Unsaved(n, t) => Unsaved(mgr, t)
  BY <1>9 DEF Unsaved
<1> QED
  BY <1>1, <1>5, <1>9, <1>10, <1>11, <1>12, <1>14, <1>15, <1>16, AfterWrite

-----------------------------------------------------------------------------
(* The layer is released *)

LEMMA disposeStep ==
    ASSUME IInv, dispose
    PROVE  IInv'
<1> DEFINE stopped == {s \in Listed(mgr) : mgr.records[s].process # 0}
           asked == {mgr.records[s].process : s \in stopped}
           records == [s \in DOMAIN mgr.records |->
                         IF s \in stopped THEN Ended(mgr.records[s], "exited") ELSE mgr.records[s]]
           processes == [p \in DOMAIN mgr.processes |->
                           IF p \in asked THEN Asked(mgr.processes[p])
                           ELSE mgr.processes[p]]
           none == [t \in Terminals |-> 0]
           noPending == [t \in Terminals |-> Null]
           noQueue == [t \in Terminals |-> <<>>]
           detached == mgr.detached \cup {<<t, mgr.queue[t]>> :
                                            t \in {u \in Terminals : mgr.queue[u] # <<>>}}
           dropped == mgr.dropped \cup {t \in Terminals : InUse(t) \/ Unsaved(mgr, t)}
           n == [mgr EXCEPT !.records = records, !.processes = processes, !.sessions = none,
                            !.recency = <<>>, !.timers = {}, !.killTimers = {},
                            !.pending = noPending, !.queue = noQueue, !.detached = detached,
                            !.dropped = dropped]
<1>1. MgrInv(mgr, {}) /\ mgr \in Managers
  BY Invariant
<1>2. Linked(mgr) /\ Lists(mgr) /\ Alone(mgr) /\ Saved(mgr, {})
  BY <1>1 DEF MgrInv
<1>3. mgr' = n /\ op' = op /\ file' = file
  BY DEF dispose
<1>4. /\ mgr.records \in Seq(Records \cup {Closed}) /\ mgr.processes \in Seq(Processes)
      /\ mgr.queue \in [Terminals -> Seq(Histories)] /\ mgr.dropped \in SUBSET Terminals
      /\ mgr.detached \in SUBSET (Terminals \X Seq(Histories))
      /\ mgr.deleted \in SUBSET Terminals
  BY <1>1, ManagerFields
<1>5. \A s \in stopped :
         /\ s \in Nat /\ s # 0 /\ Live(mgr, s) /\ s \in DOMAIN mgr.records
         /\ mgr.records[s] \in Records /\ mgr.records[s].process # 0
         /\ mgr.records[s].process \in DOMAIN mgr.processes
         /\ mgr.processes[mgr.records[s].process].session = s
         /\ mgr.records[s].terminal \in Terminals
         /\ mgr.sessions[mgr.records[s].terminal] = s
  <2> TAKE s \in stopped
  <2>1. s \in Listed(mgr) /\ mgr.records[s].process # 0
    OBVIOUS
  <2>2. /\ s \in Nat /\ s # 0 /\ Live(mgr, s) /\ mgr.records[s].terminal \in Terminals
        /\ mgr.sessions[mgr.records[s].terminal] = s
    BY <1>1, <1>2, <2>1, ListedFacts
  <2> QED
    BY <1>1, <2>1, <2>2, LiveFacts
<1>6. /\ records \in Seq(Records \cup {Closed}) /\ DOMAIN records = DOMAIN mgr.records
      /\ \A s \in stopped : /\ records[s] \in Records /\ records[s].process = 0
                            /\ records[s].status = "exited"
                            /\ records[s].terminal = mgr.records[s].terminal
      /\ \A s \in DOMAIN mgr.records : s \notin stopped => records[s] = mgr.records[s]
  <2>1. \A s \in stopped :
           /\ Ended(mgr.records[s], "exited") \in Records
           /\ Ended(mgr.records[s], "exited").process = 0
           /\ Ended(mgr.records[s], "exited").status = "exited"
           /\ Ended(mgr.records[s], "exited").terminal = mgr.records[s].terminal
    BY <1>5, EndedType
  <2> HIDE DEF stopped
  <2>2. /\ DOMAIN mgr.records = 1..Len(mgr.records) /\ Len(mgr.records) \in Nat
        /\ \A s \in DOMAIN mgr.records : mgr.records[s] \in Records \cup {Closed}
    BY <1>4
  <2>3. records \in [1..Len(mgr.records) -> Records \cup {Closed}]
    BY <2>1, <2>2
  <2>4. records \in Seq(Records \cup {Closed})
    BY <2>2, <2>3
  <2> QED
    BY <1>5, <2>1, <2>4 DEF stopped
<1>7. /\ processes \in Seq(Processes) /\ DOMAIN processes = DOMAIN mgr.processes
      /\ \A p \in asked : /\ p \in DOMAIN mgr.processes
                          /\ processes[p].session = 0 /\ processes[p].state # "alive"
      /\ \A p \in DOMAIN mgr.processes : p \notin asked => processes[p] = mgr.processes[p]
  <2>1. asked \subseteq DOMAIN mgr.processes
    BY <1>5
  <2> HIDE DEF stopped, asked
  <2>2. /\ DOMAIN mgr.processes = 1..Len(mgr.processes) /\ Len(mgr.processes) \in Nat
        /\ \A p \in DOMAIN mgr.processes : mgr.processes[p] \in Processes
    BY <1>4
  <2>3. \A p \in asked : /\ Asked(mgr.processes[p]) \in Processes
                         /\ Asked(mgr.processes[p]).session = 0
                         /\ Asked(mgr.processes[p]).state # "alive"
    BY <2>1, <2>2, AskedType
  <2>4. processes \in [1..Len(mgr.processes) -> Processes]
    BY <2>2, <2>3
  <2>5. processes \in Seq(Processes)
    BY <2>2, <2>4
  <2> QED
    BY <2>1, <2>3, <2>5
<1>8. /\ none \in [Terminals -> Nat] /\ noPending \in [Terminals -> Histories \cup {Null}]
      /\ noQueue \in [Terminals -> Seq(Histories)]
  OBVIOUS
<1>9. /\ detached \in SUBSET (Terminals \X Seq(Histories)) /\ dropped \in SUBSET Terminals
      /\ mgr.dropped \subseteq dropped
      /\ \A chain \in detached : chain[1] \in dropped /\ chain[2] # <<>>
  BY <1>2, <1>4 DEF Saved, Unsaved
<1>10. \A s \in DOMAIN mgr.records : s \notin stopped /\ s \in Listed(mgr) => mgr.records[s].process = 0
  OBVIOUS
<1>11. \A p \in DOMAIN mgr.processes : p \notin asked =>
         \A s \in stopped : mgr.records[s].process # p
  OBVIOUS
<1>12. \A p \in asked : \E s \in stopped : p = mgr.records[s].process
  OBVIOUS
<1>13. \A t \in Terminals : ~(InUse(t) \/ Unsaved(mgr, t)) \/ t \in dropped
  OBVIOUS
<1>14. \A t \in Terminals : none[t] = 0 /\ noPending[t] = Null /\ noQueue[t] = <<>>
  OBVIOUS
<1> DEFINE rec == [sessions |-> none, records |-> records, recency |-> <<>>,
                   processes |-> processes, killTimers |-> {}, pending |-> noPending,
                   timers |-> {}, queue |-> noQueue, detached |-> detached,
                   dropped |-> dropped, deleted |-> mgr.deleted]
<1> HIDE DEF records, processes, none, noPending, noQueue, detached, dropped, asked
<1>15. n = rec
  <2>2. n = [mgr EXCEPT !.records = records, !.processes = processes, !.sessions = none,
                        !.recency = <<>>, !.timers = {}, !.killTimers = {},
                        !.pending = noPending, !.queue = noQueue, !.detached = detached,
                        !.dropped = dropped]
    OBVIOUS
  <2> HIDE DEF n
  <2>1. mgr = [sessions |-> mgr.sessions, records |-> mgr.records, recency |-> mgr.recency,
               processes |-> mgr.processes, killTimers |-> mgr.killTimers,
               pending |-> mgr.pending, timers |-> mgr.timers, queue |-> mgr.queue,
               detached |-> mgr.detached, dropped |-> mgr.dropped, deleted |-> mgr.deleted]
    BY <1>1, ManagerFields
  <2> QED
    BY <2>1, <2>2
<1>16. n \in Managers
  <2>1. /\ none \in [Terminals -> Nat] /\ <<>> \in Seq(Nat)
        /\ {} \in SUBSET Nat /\ {} \in SUBSET Terminals
    BY <1>8
  <2> HIDE DEF n
  <2> QED
    BY <1>4, <1>6, <1>7, <1>8, <1>9, <1>15, <2>1 DEF Managers
<1> HIDE DEF n
<1>17. /\ n.sessions = none /\ n.records = records /\ n.recency = <<>> /\ n.processes = processes
       /\ n.killTimers = {} /\ n.pending = noPending /\ n.queue = noQueue
       /\ n.detached = detached /\ n.dropped = dropped /\ n.deleted = mgr.deleted
  BY <1>15
<1>18. \A s : Live(n, s) <=> Live(mgr, s)
  <2> TAKE s
  <2>1. CASE s \in stopped
    BY <1>5, <1>6, <1>17, <2>1 DEF Live
  <2>2. CASE s \notin stopped
    BY <1>6, <1>17, <2>2 DEF Live
  <2> QED
    BY <2>1, <2>2
<1> HIDE DEF stopped
<1>19. Linked(n)
  <2>1. ASSUME NEW s \in DOMAIN n.records, Live(n, s)
        PROVE  /\ n.records[s].status = "running" <=> n.records[s].process # 0
               /\ n.records[s].process # 0 =>
                    /\ n.records[s].process \in DOMAIN n.processes
                    /\ n.processes[n.records[s].process].session = s
    <3>1. CASE s \in stopped
      BY <1>6, <1>17, <3>1
    <3>2. CASE s \notin stopped
      <4>1. /\ n.records[s] = mgr.records[s] /\ Live(mgr, s) /\ s \in DOMAIN mgr.records
        BY <1>6, <1>17, <1>18, <2>1, <3>2
      <4>2. /\ mgr.records[s].status = "running" <=> mgr.records[s].process # 0
            /\ mgr.records[s].process # 0 =>
                 /\ mgr.records[s].process \in DOMAIN mgr.processes
                 /\ mgr.processes[mgr.records[s].process].session = s
        BY <1>1, <4>1, LiveFacts
      <4>3. mgr.records[s].process # 0 => mgr.records[s].process \notin asked
        BY <1>5, <1>12, <3>2, <4>2
      <4> QED
        BY <1>7, <1>17, <4>1, <4>2, <4>3
    <3> QED
      BY <3>1, <3>2
  <2>2. ASSUME NEW p \in DOMAIN n.processes
        PROVE  LET s == n.processes[p].session
               IN  /\ n.processes[p].state = "alive" <=> s # 0
                   /\ s # 0 => /\ Live(n, s)
                               /\ n.records[s].process = p
                               /\ n.records[s].terminal = n.processes[p].terminal
    <3>1. CASE p \in asked
      BY <1>7, <1>17, <3>1
    <3>2. CASE p \notin asked
      <4>1. n.processes[p] = mgr.processes[p] /\ p \in DOMAIN mgr.processes
        BY <1>7, <1>17, <3>2
      <4> DEFINE s == mgr.processes[p].session
      <4>2. /\ mgr.processes[p].state = "alive" <=> s # 0
            /\ s # 0 => /\ Live(mgr, s) /\ mgr.records[s].process = p
                        /\ mgr.records[s].terminal = mgr.processes[p].terminal
        BY <1>2, <4>1 DEF Linked
      <4>3. s # 0 => s \notin stopped /\ s \in DOMAIN mgr.records
        BY <1>11, <3>2, <4>1, <4>2 DEF Live
      <4> QED
        BY <1>6, <1>17, <1>18, <4>1, <4>2, <4>3
    <3> QED
      BY <3>1, <3>2
  <2> QED
    BY <1>17, <2>1, <2>2 DEF Linked
<1>20. Lists(n)
  BY <1>14, <1>17 DEF Lists, Listed
<1>21. Alone(n)
  <2> SUFFICES ASSUME NEW p \in DOMAIN n.processes, n.processes[p].state = "alive",
                      n.processes[p].terminal \notin n.dropped
               PROVE  FALSE
    BY DEF Alone
  <2>1. p \in DOMAIN mgr.processes /\ p \notin asked /\ n.processes[p] = mgr.processes[p]
    BY <1>7, <1>17, SMTT(30)
  <2> DEFINE t == mgr.processes[p].terminal
             s == mgr.sessions[t]
  <2>2. s # 0 /\ mgr.records[s].process = p /\ t \in Terminals /\ p # 0
    BY <1>1, <1>2, <1>9, <1>17, <2>1, ProcessType DEF Alone
  <2>3. s \in stopped
    BY <2>2 DEF stopped, Listed
  <2> QED
    BY <1>11, <2>1, <2>2, <2>3
<1>22. Saved(n, {})
  <2>1. ASSUME NEW t \in mgr.deleted, t \notin n.dropped PROVE Will(n, t, file[t]) = <<>>
    <3>1. t \in Terminals /\ t \notin mgr.dropped /\ ~Unsaved(mgr, t)
      BY <1>4, <1>9, <1>13, <1>17, <2>1
    <3>2. Will(mgr, t, file[t]) = <<>>
      BY <1>2, <2>1, <3>1 DEF Saved
    <3> QED
      BY <1>14, <1>17, <3>1, <3>2 DEF Will, Unsaved
  <2> QED
    BY <1>4, <1>9, <1>14, <1>17, <2>1 DEF Saved
<1>23. ASSUME NEW t \in Terminals, InUse(t) PROVE Follows(mgr, n, t)
  <2>1. t \in n.dropped
    BY <1>13, <1>17, <1>23
  <2>2. ASSUME NEW s \in DOMAIN mgr.records, Live(mgr, s), mgr.records[s].terminal = t
        PROVE  /\ Live(n, s) /\ n.records[s].terminal = t
               /\ mgr.records[s].process = 0 => n.records[s].process = 0
    <3>1. CASE s \in stopped
      BY <1>6, <1>17, <1>18, <2>2, <3>1
    <3>2. CASE s \notin stopped
      BY <1>6, <1>17, <1>18, <2>2, <3>2
    <3> QED
      BY <3>1, <3>2
  <2> QED
    BY <1>14, <1>17, <2>1, <2>2 DEF Follows
<1>24. MgrInv(n, {})
  BY <1>16, <1>19, <1>20, <1>21, <1>22 DEF MgrInv
<1> QED
  BY <1>3, <1>23, <1>24, InternalStep

-----------------------------------------------------------------------------
(* The theorems *)

LEMMA InitInv == Init => IInv
<1> SUFFICES ASSUME Init PROVE IInv
  OBVIOUS
<1>1. /\ mgr.sessions = [t \in Terminals |-> 0] /\ mgr.records = <<>> /\ mgr.recency = <<>>
      /\ mgr.processes = <<>> /\ mgr.killTimers = {} /\ mgr.pending = [t \in Terminals |-> Null]
      /\ mgr.queue = [t \in Terminals |-> <<>>] /\ mgr.detached = {} /\ mgr.dropped = {}
      /\ mgr.deleted = {}
  BY DEF Init
<1>2. mgr \in Managers
  BY DEF Init, Managers
<1>3. Linked(mgr) /\ Lists(mgr) /\ Alone(mgr) /\ Saved(mgr, {})
  BY <1>1 DEF Linked, Lists, Alone, Saved, Listed, Live
<1>4. TypeOK /\ \A th \in Threads : op[th] = Null
  BY <1>2 DEF Init, TypeOK
<1> QED
  BY <1>2, <1>3, <1>4 DEF IInv, MgrInv

LEMMA NextInv == IInv /\ [Next]_vars => IInv'
<1> SUFFICES ASSUME IInv, [Next]_vars PROVE IInv'
  OBVIOUS
<1>1. CASE UNCHANGED vars
  <2>1. mgr' = mgr /\ op' = op /\ file' = file
    BY <1>1 DEF vars
  <2>2. \A t : Follows(mgr, mgr, t)
    BY DEF Follows
  <2> QED
    BY <2>1, <2>2, Invariant, InternalStep
<1>2. CASE CallBegins
  <2>1. CASE \E t \in Terminals, c \in Configs : OpenExisting(t, c) \/ OpenNew(t, c) \/ restart(t, c)
    BY <2>1, OpenExistingStep, OpenNewStep, RestartStep
  <2>2. CASE \E t \in Terminals : clear(t)
    BY <2>2, ClearStep
  <2>3. ASSUME NEW th \in Threads, NEW delete \in BOOLEAN,
               NEW ts \in {{t} : t \in TerminalsOf(th)} \cup {TerminalsOf(th)}, close(ts, delete)
        PROVE  IInv'
    <3>1. TerminalsOf(th) # {}
      BY DEF Threads, TerminalsOf
    <3>2. ts # {} /\ ts \subseteq TerminalsOf(th)
      BY <3>1
    <3> QED
      BY <2>3, <3>2, CloseStep
  <2> QED
    BY <1>2, <2>1, <2>2, <2>3 DEF CallBegins
<1>3. ASSUME NEW th \in Threads, CallStep(th) PROVE IInv'
  BY <1>3, PersistedStep, FlushPendingStep, FlushedStep, OpenWithHistoryStep, DeleteHistoryStep,
     SpawnSucceedsStep, SpawnFailsStep DEF CallStep
<1>4. CASE Environment
  BY <1>4, onProcessDataStep, onProcessExitStep, disposeStep DEF Environment
<1>5. CASE TimerStep
  BY <1>5, KillTimerStep, PersistTimerStep, WriteEndsStep, DetachedWriteEndsStep DEF TimerStep
<1> QED
  BY <1>1, <1>2, <1>3, <1>4, <1>5 DEF Next

LEMMA SpecInv == Spec => []IInv
BY InitInv, NextInv, PTL DEF Spec

\* What a terminal shows is what is on disk or on its way there, whatever the
\* debounce timers, chained writes, calls of other threads and evictions do
\* between two awaits of a call (persistHistory, flushPersistQueue,
\* evictInactiveSessionsIfNeeded of terminal/Layers/Manager.ts).
THEOREM TranscriptsAreSaved == Spec => []TranscriptIsSaved
<1>1. IInv => TranscriptIsSaved
  BY SMTT(30) DEF IInv, MgrInv, Saved, Will, TranscriptIsSaved, WillBeSaved
<1> QED
  BY <1>1, SpecInv, PTL

\* No restart, reopening, close or eviction leaves a shell behind that runs beside
\* the one of the listed record, but one for which SIGTERM threw (stopProcess,
\* killProcessWithEscalation and startSession of the same file).
THEOREM ProcessesAreAlone == Spec => []OneProcessPerTerminal
<1>1. IInv => OneProcessPerTerminal
  <2> SUFFICES ASSUME IInv, NEW p \in DOMAIN mgr.processes,
                      mgr.processes[p].state \in {"alive", "stray"},
                      mgr.processes[p].terminal \notin mgr.dropped
               PROVE  LET process == mgr.processes[p]
                          t == process.terminal
                      IN  \/ mgr.sessions[t] # 0 /\ mgr.records[mgr.sessions[t]].process = p
                          \/ process.session = 0 /\ process.refuses = "SIGTERM"
    BY DEF OneProcessPerTerminal
  <2>1. Linked(mgr) /\ Alone(mgr) /\ mgr \in Managers
    BY DEF IInv, MgrInv
  <2>2. CASE mgr.processes[p].state = "alive"
    BY <2>1, <2>2 DEF Alone
  <2>3. CASE mgr.processes[p].state = "stray"
    BY <2>1, <2>3, ProcessType DEF Linked, Processes
  <2> QED
    BY <2>2, <2>3
<1> QED
  BY <1>1, SpecInv, PTL
=============================================================================
