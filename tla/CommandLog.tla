------------------------------- MODULE CommandLog -------------------------------
(***************************************************************************)
(* What the orchestration engine promises of dispatch                      *)
(* (apps/server/src/orchestration/Services/OrchestrationEngine.ts): an     *)
(* append-only log in which every command is decided at most once and in   *)
(* one step, and answers that tell the decision.  Queues, transactions,    *)
(* failures and restarts are not visible here.                             *)
(***************************************************************************)
EXTENDS Integers, Sequences

CONSTANTS
    CommandIds,
    Calls,
    IdOf,                  \* the command of each call, [Calls -> CommandIds]
    MaxEventsPerCommand    \* at least one

VARIABLES
    log,       \* for each event, the command it belongs to
    decision,  \* per command, what was decided and at which sequence
    answer     \* per call, what its caller knows

vars == <<log, decision, answer>>

Undecided   == [status |-> "undecided", sequence |-> 0]
Rejection   == [status |-> "rejected", sequence |-> 0]
NotAnswered == [status |-> "none", sequence |-> 0]
Waiting     == [status |-> "waiting", sequence |-> 0]

Init ==
    /\ log = <<>>
    /\ decision = [id \in CommandIds |-> Undecided]
    /\ answer = [c \in Calls |-> NotAnswered]

Ask(c) ==
    /\ answer[c] = NotAnswered
    /\ answer' = [answer EXCEPT ![c] = Waiting]
    /\ UNCHANGED <<log, decision>>

\* All events of the command, and the decision, at once.
Accept(id) ==
    /\ decision[id] = Undecided
    /\ \E k \in 1..MaxEventsPerCommand : log' = log \o [i \in 1..k |-> id]
    /\ decision' = [decision EXCEPT ![id] = [status |-> "accepted", sequence |-> Len(log')]]
    /\ UNCHANGED answer

\* The caller hears of the rejection; it may be recorded for later calls.
Reject(c) ==
    /\ answer[c] = Waiting
    /\ decision[IdOf[c]] = Undecided
    /\ decision' \in {decision, [decision EXCEPT ![IdOf[c]] = Rejection]}
    /\ answer' = [answer EXCEPT ![c] = [status |-> "rejected", sequence |-> 0]]
    /\ UNCHANGED log

\* The caller hears the decision, or that the engine failed to make or find it.
Tell(c) ==
    /\ answer[c] = Waiting
    /\ \/ /\ decision[IdOf[c]].status = "accepted"
          /\ answer' = [answer EXCEPT ![c] = [status |-> "ok",
                                              sequence |-> decision[IdOf[c]].sequence]]
       \/ /\ decision[IdOf[c]] = Rejection
          /\ answer' = [answer EXCEPT ![c] = [status |-> "previouslyRejected", sequence |-> 0]]
       \/ answer' = [answer EXCEPT ![c] = [status |-> "failed", sequence |-> 0]]
    /\ UNCHANGED <<log, decision>>

\* A crash loses the calls that wait, never a decision.
Lose ==
    /\ answer' = [c \in Calls |-> IF answer[c] = Waiting
                                    THEN [status |-> "lost", sequence |-> 0] ELSE answer[c]]
    /\ UNCHANGED <<log, decision>>

Next ==
    \/ \E c \in Calls : Ask(c) \/ Reject(c) \/ Tell(c)
    \/ \E id \in CommandIds : Accept(id)
    \/ Lose

Spec == Init /\ [][Next]_vars
=============================================================================
