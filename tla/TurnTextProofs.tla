------------------------------ MODULE TurnTextProofs ------------------------------
(***************************************************************************)
(* With the Codex adapter, and as long as a thread keeps all of its        *)
(* messages, what the assistant said in a completed turn is in its message *)
(* (TextIsCompleteHolds), for every number of turns, chunks, commands and  *)
(* faults, and every size of the buffer.                                   *)
(*                                                                         *)
(* The text travels from the provider, through the queue of runtime        *)
(* events, into the buffer of the ingestion and the message.  The          *)
(* invariant relates the two ends: the events in flight (Flight) and, for  *)
(* each turn, what is seen of it (Viewed): what was said, the message's    *)
(* text, the buffer, the delivery modes its chunks met, whether it waits   *)
(* to be finished, ended or was finished.  A turn is                       *)
(*   - Fresh as long as it was not sent,                                   *)
(*   - Open from then on: the chunks that have not arrived are in flight,  *)
(*     in order (Deltas), or the item.completed that has them all is;      *)
(*     nothing follows its turn.completed (Ends); a session.exited comes   *)
(*     after that, or before anything of the turn (Exits), so that the     *)
(*     cleanup of a session never drops text; what arrived is in the       *)
(*     message and the buffer, each chunk once (Content),                  *)
(*   - Final once its end was processed: the message has it all.           *)
(* A turn that a session took with it before its end is none of these:     *)
(* nothing is claimed of it.  TurnsAre puts the turns together, and        *)
(* TextInv adds what its steps need: turn starts have distinct ids and are *)
(* sent once (OrderInv), a turn runs only in a session that is in the      *)
(* adapter's map (MapInv, SInv), messages have distinct ids (IsTold).      *)
(*                                                                         *)
(* The second half is about the session that the thread shows: once all is *)
(* processed it has the turn that runs (SettledThreadAgreesHolds).  Its    *)
(* invariant, SessionInv, relates the same events in flight to the         *)
(* thread's session and the adapter's turn, and needs no bound on what a   *)
(* thread keeps.                                                           *)
(***************************************************************************)
EXTENDS TurnLifecycleProofs

(***************************************************************************)
(* What is in flight, and what is seen of one turn                         *)
(***************************************************************************)

\* What the Codex adapter emits.
Signals ==
    [type : {"delta", "item.completed", "turn.completed", "turn.started"}, turn : Turns,
     text : Seq(Nat)]
       \cup [type : {"starting", "ready", "session.exited"}, turn : {Null}, text : {<<>>}]

\* The i-th event in flight is one of turn t.
Carries(F, i, type, t) == F[i].type = type /\ F[i].turn = t
Tells(F, i, t) == Carries(F, i, "delta", t) \/ Carries(F, i, "item.completed", t)
Concerns(e, t) == e.turn = t /\ e.type \in {"delta", "item.completed", "turn.completed"}

\* What is seen of a turn: pending is a message to be finished, finished one that is not
\* streaming any more.
Views == [said : Seq(Nat), text : Seq(Nat), buffer : Seq(Nat), modes : SUBSET DeliveryModes,
          pending : BOOLEAN, ended : BOOLEAN, finished : BOOLEAN]

Upto(n) == [i \in 1..n |-> i]
\* How many chunks arrived.
Done(v) == Len(v.text) + Len(v.buffer)

\* The chunks that were said and did not arrive are in flight, in order, or all of them
\* in the completed item.
Deltas(F, v, t) ==
    /\ \A i \in DOMAIN F : Carries(F, i, "delta", t) =>
          Len(F[i].text) = 1 /\ F[i].text[1] \in (Done(v) + 1)..Len(v.said)
    /\ \A i, j \in DOMAIN F : Carries(F, i, "delta", t) /\ Carries(F, j, "delta", t) /\ i < j
          => F[i].text[1] < F[j].text[1]
    /\ \/ \A c \in (Done(v) + 1)..Len(v.said) :
             \E i \in DOMAIN F : Carries(F, i, "delta", t) /\ F[i].text[1] = c
       \/ /\ Done(v) = 0
          /\ \A i \in DOMAIN F : ~Carries(F, i, "delta", t)
          /\ \E i \in DOMAIN F : Carries(F, i, "item.completed", t)

\* The end of a turn that ended is in flight, and behind all of its text; a completed item
\* is behind the chunks and has all of the text.
Ends(F, v, t) ==
    /\ v.ended <=> \E i \in DOMAIN F : Carries(F, i, "turn.completed", t)
    /\ \A i \in DOMAIN F : Carries(F, i, "item.completed", t) =>
          /\ v.ended
          /\ F[i].text = v.said
          /\ \A j \in DOMAIN F : Carries(F, j, "delta", t) => j < i
          /\ \A j \in DOMAIN F : Carries(F, j, "item.completed", t) => j = i
    /\ \A i, j \in DOMAIN F : Carries(F, i, "turn.completed", t) /\ Tells(F, j, t) => j < i

\* A session exits after the end of the turn, or before anything of it arrived.
Exits(F, v, t) ==
    \A i \in DOMAIN F : F[i].type = "session.exited" =>
        \/ \E j \in DOMAIN F : j < i /\ Carries(F, j, "turn.completed", t)
        \/ Done(v) = 0 /\ \A j \in DOMAIN F : Tells(F, j, t) => i < j

\* The delivery mode was one for all chunks that arrived.
Alike(v) == Cardinality(v.modes) <= 1

\* The chunks that arrived are in the message and the buffer.
Content(v) ==
    /\ v.said = Upto(Len(v.said)) /\ Done(v) <= Len(v.said)
    /\ v.pending <=> Done(v) > 0
    /\ ToSet(v.text) \cup ToSet(v.buffer) = 1..Done(v)
    /\ v.modes \subseteq {"streaming"} => v.buffer = <<>>
    /\ Alike(v) => v.text \o v.buffer = Upto(Done(v))

Open(F, v, t) == Deltas(F, v, t) /\ Ends(F, v, t) /\ Exits(F, v, t) /\ Content(v)

Final(F, v, t) ==
    /\ v.ended /\ ~v.pending
    /\ \A i \in DOMAIN F : ~Tells(F, i, t)
    /\ v.said # <<>> => /\ v.finished
                        /\ Len(v.text) = Len(v.said)
                        /\ ToSet(v.text) = ToSet(v.said)
                        /\ Alike(v) => v.text = v.said

Fresh(F, v, t) ==
    /\ ~v.ended /\ ~v.pending
    /\ v.said = <<>> /\ v.buffer = <<>> /\ v.text = <<>> /\ v.modes = {}
    /\ \A i \in DOMAIN F : ~Concerns(F[i], t)

-----------------------------------------------------------------------------

\* Where the elements of a concatenation come from.
LEMMA ConcatFacts ==
    ASSUME NEW S, NEW F \in Seq(S), NEW G \in Seq(S)
    PROVE  /\ F \o G \in Seq(S) /\ DOMAIN (F \o G) = 1..(Len(F) + Len(G))
           /\ Len(F) \in Nat /\ Len(G) \in Nat /\ DOMAIN F = 1..Len(F) /\ DOMAIN G = 1..Len(G)
           /\ \A i \in DOMAIN F : (F \o G)[i] = F[i]
           /\ \A i \in DOMAIN (F \o G) : i \in DOMAIN F \/ (i > Len(F) /\ i - Len(F) \in DOMAIN G /\ (F \o G)[i] = G[i - Len(F)])
           /\ \A i \in DOMAIN G : i + Len(F) \in DOMAIN (F \o G) /\ (F \o G)[i + Len(F)] = G[i]
OBVIOUS

\* Where the elements of a tail come from.
LEMMA TailFacts ==
    ASSUME NEW S, NEW F \in Seq(S), F # <<>>
    PROVE  /\ Tail(F) \in Seq(S) /\ DOMAIN Tail(F) = 1..(Len(F) - 1) /\ Head(F) = F[1]
           /\ Len(F) \in Nat /\ DOMAIN F = 1..Len(F) /\ 1 \in DOMAIN F
           /\ \A i \in DOMAIN Tail(F) : Tail(F)[i] = F[i + 1] /\ i + 1 \in DOMAIN F
           /\ \A i \in DOMAIN F : i = 1 \/ (i - 1 \in DOMAIN Tail(F) /\ Tail(F)[i - 1] = F[i])
OBVIOUS

LEMMA ZeroSum == \A a, b \in Nat : a + b = 0 => a = 0 /\ b = 0 /\ ~(a + b > 0)
OBVIOUS

LEMMA ChunksAre == \A q \in Seq(Nat) : q \in [1..Len(q) -> Nat]
OBVIOUS

\* All chunks up to the n-th one, in order.
LEMMA UptoFacts ==
    \A n \in Nat : Upto(n) \in Seq(Nat) /\ Len(Upto(n)) = n /\ ToSet(Upto(n)) = 1..n
BY DEF Upto, ToSet

LEMMA UptoNext ==
    ASSUME NEW n \in Nat
    PROVE  Append(Upto(n), n + 1) = Upto(n + 1) /\ Upto(n) \o <<n + 1>> = Upto(n + 1)
<1>1. Upto(n) \in Seq(Nat) /\ Len(Upto(n)) = n /\ \A i \in 1..n : Upto(n)[i] = i
  BY DEF Upto
<1>2. /\ Upto(n + 1) \in Seq(Nat) /\ Len(Upto(n + 1)) = n + 1
      /\ \A i \in 1..(n + 1) : Upto(n + 1)[i] = i
  BY DEF Upto
<1> HIDE DEF Upto
<1>3. Append(Upto(n), n + 1) = Upto(n + 1)
  BY <1>1, <1>2
<1>4. Upto(n) \o <<n + 1>> = Upto(n + 1)
  BY <1>1, <1>2, SMTT(30)
<1> QED
  BY <1>3, <1>4

LEMMA DoneType == \A v \in Views : Done(v) \in Nat /\ Len(v.text) \in Nat /\ Len(v.buffer) \in Nat /\ Len(v.said) \in Nat
BY DEF Done, Views

\* Events that do not concern a turn leave what is known of it as it is; an exit
\* comes after the turn's end.
LEMMA OpenThen ==
    ASSUME NEW F \in Seq(Signals), NEW G \in Seq(Signals), NEW v \in Views, NEW t,
           Open(F, v, t),
           \A i \in DOMAIN G : ~Concerns(G[i], t) /\ (G[i].type = "session.exited" => v.ended)
    PROVE  Open(F \o G, v, t)
<1> DEFINE H == F \o G
<1>1. /\ DOMAIN H = 1..(Len(F) + Len(G)) /\ Len(F) \in Nat /\ DOMAIN F = 1..Len(F) /\ Len(G) \in Nat
      /\ \A i \in DOMAIN F : H[i] = F[i] /\ i \in DOMAIN H
      /\ \A i \in DOMAIN H : i \in DOMAIN F \/ (i > Len(F) /\ i - Len(F) \in DOMAIN G /\ H[i] = G[i - Len(F)])
  BY ConcatFacts
<1> HIDE DEF H
<1>2. \A i \in DOMAIN H : i \in DOMAIN F \/ (i > Len(F) /\ ~Concerns(H[i], t) /\ (H[i].type = "session.exited" => v.ended))
  BY <1>1
<1>3. /\ \A i \in DOMAIN H : Carries(H, i, "delta", t) => i \in DOMAIN F /\ Carries(F, i, "delta", t)
      /\ \A i \in DOMAIN H : Carries(H, i, "item.completed", t) => i \in DOMAIN F /\ Carries(F, i, "item.completed", t)
      /\ \A i \in DOMAIN H : Carries(H, i, "turn.completed", t) => i \in DOMAIN F /\ Carries(F, i, "turn.completed", t)
      /\ \A i \in DOMAIN F : /\ Carries(F, i, "delta", t) => Carries(H, i, "delta", t)
                             /\ Carries(F, i, "item.completed", t) => Carries(H, i, "item.completed", t)
                             /\ Carries(F, i, "turn.completed", t) => Carries(H, i, "turn.completed", t)
  BY <1>1, <1>2 DEF Carries, Concerns
<1>4. Deltas(H, v, t)
  BY <1>1, <1>3 DEF Open, Deltas
<1>5. Ends(H, v, t)
  BY <1>1, <1>3 DEF Open, Ends, Tells
<1>6. Exits(H, v, t)
  <2> SUFFICES ASSUME NEW i \in DOMAIN H, H[i].type = "session.exited"
               PROVE  \/ \E j \in DOMAIN H : j < i /\ Carries(H, j, "turn.completed", t)
                      \/ Done(v) = 0 /\ \A j \in DOMAIN H : Tells(H, j, t) => i < j
    BY DEF Exits
  <2>1. CASE i \in DOMAIN F
    <3>1. \/ \E j \in DOMAIN F : j < i /\ Carries(F, j, "turn.completed", t)
          \/ Done(v) = 0 /\ \A j \in DOMAIN F : Tells(F, j, t) => i < j
      BY <1>1, <2>1 DEF Open, Exits
    <3> QED
      BY <1>1, <1>3, <3>1 DEF Tells
  <2>2. CASE i \notin DOMAIN F
    <3>1. v.ended /\ i > Len(F)
      BY <1>2, <2>2
    <3>2. PICK j \in DOMAIN F : Carries(F, j, "turn.completed", t)
      BY <3>1 DEF Open, Ends
    <3> QED
      BY <1>1, <1>3, <3>1, <3>2
  <2> QED
    BY <2>1, <2>2
<1> QED
  BY <1>4, <1>5, <1>6 DEF Open, H

LEMMA FinalThen ==
    ASSUME NEW F \in Seq(Signals), NEW G \in Seq(Signals), NEW v \in Views, NEW t,
           Final(F, v, t), \A i \in DOMAIN G : ~Concerns(G[i], t)
    PROVE  Final(F \o G, v, t)
<1> DEFINE H == F \o G
<1>1. /\ \A i \in DOMAIN F : H[i] = F[i]
      /\ \A i \in DOMAIN H : i \in DOMAIN F \/ (i - Len(F) \in DOMAIN G /\ H[i] = G[i - Len(F)])
  BY ConcatFacts
<1> HIDE DEF H
<1>2. \A i \in DOMAIN H : ~Tells(H, i, t)
  BY <1>1 DEF Final, Tells, Carries, Concerns
<1> QED
  BY <1>2 DEF Final, H

LEMMA FreshThen ==
    ASSUME NEW F \in Seq(Signals), NEW G \in Seq(Signals), NEW v, NEW t,
           Fresh(F, v, t), \A i \in DOMAIN G : ~Concerns(G[i], t)
    PROVE  Fresh(F \o G, v, t)
<1> DEFINE H == F \o G
<1>1. /\ \A i \in DOMAIN F : H[i] = F[i]
      /\ \A i \in DOMAIN H : i \in DOMAIN F \/ (i - Len(F) \in DOMAIN G /\ H[i] = G[i - Len(F)])
  BY ConcatFacts
<1> HIDE DEF H
<1>2. \A i \in DOMAIN H : ~Concerns(H[i], t)
  BY <1>1 DEF Fresh
<1> QED
  BY <1>2 DEF Fresh, H

\* A turn of which nothing was said yet may begin.
LEMMA FreshOpens ==
    ASSUME NEW F, NEW v \in Views, NEW t, Fresh(F, v, t)
    PROVE  Open(F, v, t)
<1>1. /\ v.said = <<>> /\ v.text = <<>> /\ v.buffer = <<>> /\ Done(v) = 0 /\ Len(v.said) = 0
      /\ v.modes = {} /\ ~v.ended /\ ~v.pending
  BY DEF Fresh, Done
<1>2. \A i \in DOMAIN F : /\ ~Carries(F, i, "delta", t) /\ ~Carries(F, i, "item.completed", t)
                          /\ ~Carries(F, i, "turn.completed", t) /\ ~Tells(F, i, t)
  BY DEF Fresh, Concerns, Carries, Tells
<1>3. Deltas(F, v, t)
  BY <1>1, <1>2 DEF Deltas
<1>4. Ends(F, v, t) /\ Exits(F, v, t)
  BY <1>1, <1>2 DEF Ends, Exits
<1>5. Content(v)
  <2>1. <<>> = Upto(0) /\ ToSet(<<>>) = {} /\ <<>> \o <<>> = <<>>
    BY DEF Upto, ToSet
  <2> QED
    BY <1>1, <2>1 DEF Content
<1> QED
  BY <1>3, <1>4, <1>5 DEF Open

-----------------------------------------------------------------------------
(* The first event is processed *)

\* An event that does not concern the turn is out of the way.
LEMMA OpenAfter ==
    ASSUME NEW F \in Seq(Signals), F # <<>>, NEW v \in Views, NEW t,
           Open(F, v, t), ~Concerns(Head(F), t)
    PROVE  Open(Tail(F), v, t)
<1> DEFINE H == Tail(F)
<1>1. /\ DOMAIN H = 1..(Len(F) - 1) /\ Head(F) = F[1] /\ Len(F) \in Nat /\ DOMAIN F = 1..Len(F)
      /\ \A i \in DOMAIN H : H[i] = F[i + 1] /\ i + 1 \in DOMAIN F
      /\ \A i \in DOMAIN F : i = 1 \/ (i - 1 \in DOMAIN H /\ H[i - 1] = F[i])
  BY TailFacts
<1> HIDE DEF H
<1>2. /\ ~Carries(F, 1, "delta", t) /\ ~Carries(F, 1, "item.completed", t)
      /\ ~Carries(F, 1, "turn.completed", t)
  BY <1>1 DEF Carries, Concerns
<1>3. \A i \in DOMAIN H : /\ Carries(H, i, "delta", t) <=> Carries(F, i + 1, "delta", t)
                          /\ Carries(H, i, "item.completed", t) <=> Carries(F, i + 1, "item.completed", t)
                          /\ Carries(H, i, "turn.completed", t) <=> Carries(F, i + 1, "turn.completed", t)
                          /\ i \in Nat
  BY <1>1 DEF Carries
<1>4. \A i \in DOMAIN F :
         /\ Carries(F, i, "delta", t) => i - 1 \in DOMAIN H /\ Carries(H, i - 1, "delta", t)
         /\ Carries(F, i, "item.completed", t) => i - 1 \in DOMAIN H /\ Carries(H, i - 1, "item.completed", t)
         /\ Carries(F, i, "turn.completed", t) => i - 1 \in DOMAIN H /\ Carries(H, i - 1, "turn.completed", t)
         /\ i \in Nat
  BY <1>1, <1>2 DEF Carries
<1>5. Deltas(H, v, t)
  <2>1. \A i \in DOMAIN H : Carries(H, i, "delta", t) =>
          Len(H[i].text) = 1 /\ H[i].text[1] \in (Done(v) + 1)..Len(v.said)
    BY <1>1, <1>3 DEF Open, Deltas
  <2>2. \A i, j \in DOMAIN H : Carries(H, i, "delta", t) /\ Carries(H, j, "delta", t) /\ i < j
          => H[i].text[1] < H[j].text[1]
    BY <1>1, <1>3 DEF Open, Deltas
  <2>3. CASE \A c \in (Done(v) + 1)..Len(v.said) :
             \E i \in DOMAIN F : Carries(F, i, "delta", t) /\ F[i].text[1] = c
    <3>1. ASSUME NEW c \in (Done(v) + 1)..Len(v.said)
          PROVE  \E i \in DOMAIN H : Carries(H, i, "delta", t) /\ H[i].text[1] = c
      <4>1. PICK i \in DOMAIN F : Carries(F, i, "delta", t) /\ F[i].text[1] = c
        BY <2>3
      <4>2. i - 1 \in DOMAIN H /\ Carries(H, i - 1, "delta", t)
        BY <4>1, <1>4
      <4>3. H[i - 1] = F[i]
        BY <4>1, <4>2, <1>1
      <4> QED
        BY <4>1, <4>2, <4>3
    <3> QED
      BY <2>1, <2>2, <3>1 DEF Deltas
  <2>4. CASE /\ Done(v) = 0
             /\ \A i \in DOMAIN F : ~Carries(F, i, "delta", t)
             /\ \E i \in DOMAIN F : Carries(F, i, "item.completed", t)
    <3>1. \A i \in DOMAIN H : ~Carries(H, i, "delta", t)
      BY <2>4, <1>1, <1>3
    <3>2. \E i \in DOMAIN H : Carries(H, i, "item.completed", t)
      BY <2>4, <1>4
    <3> QED
      BY <2>1, <2>2, <2>4, <3>1, <3>2 DEF Deltas
  <2> QED
    BY <2>3, <2>4 DEF Open, Deltas
<1>6. Ends(H, v, t)
  <2>1. v.ended <=> \E i \in DOMAIN H : Carries(H, i, "turn.completed", t)
    BY <1>1, <1>3, <1>4 DEF Open, Ends
  <2>2. ASSUME NEW i \in DOMAIN H, Carries(H, i, "item.completed", t)
        PROVE  /\ v.ended /\ H[i].text = v.said
               /\ \A j \in DOMAIN H : Carries(H, j, "delta", t) => j < i
               /\ \A j \in DOMAIN H : Carries(H, j, "item.completed", t) => j = i
    BY <1>1, <1>3, <2>2 DEF Open, Ends
  <2>3. \A i, j \in DOMAIN H : Carries(H, i, "turn.completed", t) /\ Tells(H, j, t) => j < i
    BY <1>1, <1>3 DEF Open, Ends, Tells
  <2> QED
    BY <2>1, <2>2, <2>3 DEF Ends
<1>7. Exits(H, v, t)
  <2> SUFFICES ASSUME NEW i \in DOMAIN H, H[i].type = "session.exited"
               PROVE  \/ \E j \in DOMAIN H : j < i /\ Carries(H, j, "turn.completed", t)
                      \/ Done(v) = 0 /\ \A j \in DOMAIN H : Tells(H, j, t) => i < j
    BY DEF Exits
  <2>1. i + 1 \in DOMAIN F /\ F[i + 1].type = "session.exited" /\ i \in Nat
    BY <1>1, <1>3
  <2>2. \/ \E j \in DOMAIN F : j < i + 1 /\ Carries(F, j, "turn.completed", t)
        \/ Done(v) = 0 /\ \A j \in DOMAIN F : Tells(F, j, t) => i + 1 < j
    BY <2>1 DEF Open, Exits
  <2>3. CASE \E j \in DOMAIN F : j < i + 1 /\ Carries(F, j, "turn.completed", t)
    BY <2>1, <2>3, <1>4
  <2>4. CASE Done(v) = 0 /\ \A j \in DOMAIN F : Tells(F, j, t) => i + 1 < j
    BY <2>1, <2>4, <1>1, <1>3 DEF Tells
  <2> QED
    BY <2>2, <2>3, <2>4
<1> QED
  BY <1>5, <1>6, <1>7 DEF Open, H

\* An exit finds nothing in the buffer of a turn that is not over.
LEMMA ExitFinds ==
    ASSUME NEW F \in Seq(Signals), F # <<>>, NEW v \in Views, NEW t,
           Open(F, v, t), Head(F).type = "session.exited"
    PROVE  Done(v) = 0 /\ ~v.pending /\ v.buffer = <<>>
<1>1. Head(F) = F[1] /\ 1 \in DOMAIN F /\ DOMAIN F = 1..Len(F) /\ Len(F) \in Nat
  BY TailFacts
<1>2. Done(v) = 0
  BY <1>1 DEF Open, Exits
<1>3. Done(v) = Len(v.text) + Len(v.buffer) /\ Len(v.text) \in Nat /\ Len(v.buffer) \in Nat
      /\ v.buffer \in Seq(Nat)
  BY DEF Done, Views
<1>4. Len(v.buffer) = 0 /\ ~(Done(v) > 0)
  BY <1>2, <1>3, ZeroSum
<1>6. v.buffer = <<>>
  BY <1>3, <1>4
<1>5. v.pending <=> Done(v) > 0
  BY Zenon DEF Open, Content
<1> QED
  BY <1>2, <1>4, <1>5, <1>6

LEMMA FinalAfter ==
    ASSUME NEW F \in Seq(Signals), F # <<>>, NEW v, NEW t, Final(F, v, t)
    PROVE  Final(Tail(F), v, t)
<1>1. \A i \in DOMAIN Tail(F) : Tail(F)[i] = F[i + 1] /\ i + 1 \in DOMAIN F
  BY TailFacts
<1> QED
  BY <1>1 DEF Final, Tells, Carries

LEMMA FreshAfter ==
    ASSUME NEW F \in Seq(Signals), F # <<>>, NEW v, NEW t, Fresh(F, v, t)
    PROVE  Fresh(Tail(F), v, t)
<1>1. \A i \in DOMAIN Tail(F) : Tail(F)[i] = F[i + 1] /\ i + 1 \in DOMAIN F
  BY TailFacts
<1> QED
  BY <1>1 DEF Fresh

-----------------------------------------------------------------------------
(* The provider goes on with the turn *)

\* What a view says of the message is what another one says.
SameText(v, w) ==
    /\ w.text = v.text /\ w.buffer = v.buffer /\ w.modes = v.modes /\ w.pending = v.pending
    /\ w.finished = v.finished

\* One more chunk is said, and on its way.
LEMMA SayOpen ==
    ASSUME NEW F \in Seq(Signals), NEW v \in Views, NEW w \in Views, NEW t, NEW e \in Signals,
           Open(F, v, t), ~v.ended, ~w.ended, SameText(v, w),
           w.said = Append(v.said, Len(v.said) + 1),
           e.type = "delta", e.turn = t, e.text = <<Len(v.said) + 1>>
    PROVE  Open(Append(F, e), w, t)
<1> DEFINE H == Append(F, e)
           n == Len(v.said)
<1>1. /\ DOMAIN H = 1..(Len(F) + 1) /\ Len(F) \in Nat /\ DOMAIN F = 1..Len(F)
      /\ \A i \in DOMAIN F : H[i] = F[i]
      /\ H[Len(F) + 1] = e
  OBVIOUS
<1>2. n \in Nat /\ Len(w.said) = n + 1 /\ v.said \in Seq(Nat) /\ Done(w) = Done(v) /\ Done(v) \in Nat
  <2>1. v.said \in Seq(Nat) /\ Done(v) \in Nat /\ n \in Nat
    BY DoneType DEF Views
  <2>2. Done(w) = Done(v)
    BY DEF Done, SameText
  <2> QED
    BY <2>1, <2>2
<1> HIDE DEF H, n
<1>3. \A i \in DOMAIN F : ~Carries(F, i, "item.completed", t) /\ ~Carries(F, i, "turn.completed", t)
  BY DEF Open, Ends
<1>4. e.text[1] = n + 1 /\ Len(e.text) = 1
  BY DEF n
<1>5. /\ \A i \in DOMAIN F : /\ Carries(H, i, "delta", t) <=> Carries(F, i, "delta", t)
                             /\ ~Carries(H, i, "item.completed", t) /\ ~Carries(H, i, "turn.completed", t)
      /\ Carries(H, Len(F) + 1, "delta", t)
      /\ ~Carries(H, Len(F) + 1, "item.completed", t) /\ ~Carries(H, Len(F) + 1, "turn.completed", t)
  BY <1>1, <1>3 DEF Carries
<1>6. Done(v) <= n
  BY DEF Open, Content, n
<1>7. Deltas(H, w, t)
  <2>1. \A i \in DOMAIN H : Carries(H, i, "delta", t) =>
          Len(H[i].text) = 1 /\ H[i].text[1] \in (Done(w) + 1)..Len(w.said)
    <3>1. \A i \in DOMAIN F : Carries(F, i, "delta", t) =>
             Len(F[i].text) = 1 /\ F[i].text[1] \in (Done(v) + 1)..n
      BY DEF Open, Deltas, n
    <3>2. \A i \in DOMAIN F : Carries(H, i, "delta", t) =>
             Len(H[i].text) = 1 /\ H[i].text[1] \in (Done(w) + 1)..Len(w.said)
      BY <1>1, <1>2, <1>5, <3>1
    <3>3. Len(H[Len(F) + 1].text) = 1 /\ H[Len(F) + 1].text[1] \in (Done(w) + 1)..Len(w.said)
      <4>1. n + 1 \in (Done(w) + 1)..Len(w.said)
        BY <1>2, <1>6
      <4> QED
        BY <4>1, <1>1, <1>4
    <3>4. \A i \in DOMAIN H : i \in DOMAIN F \/ i = Len(F) + 1
      BY <1>1
    <3> QED
      BY <3>2, <3>3, <3>4
  <2>2. \A i, j \in DOMAIN H : Carries(H, i, "delta", t) /\ Carries(H, j, "delta", t) /\ i < j
          => H[i].text[1] < H[j].text[1]
    <3>1. \A i, j \in DOMAIN F : Carries(F, i, "delta", t) /\ Carries(F, j, "delta", t) /\ i < j
             => F[i].text[1] < F[j].text[1]
      BY DEF Open, Deltas
    <3>2. \A i \in DOMAIN F : Carries(F, i, "delta", t) => F[i].text[1] \in Nat /\ F[i].text[1] <= n
      BY <1>2 DEF Open, Deltas, n
    <3>3. \A i \in DOMAIN H : i \in DOMAIN F \/ i = Len(F) + 1
      BY <1>1
    <3>4. H[Len(F) + 1].text[1] = n + 1
      BY <1>1, <1>4
    <3>5. \A i \in DOMAIN F : Carries(H, i, "delta", t) =>
             H[i].text[1] \in Nat /\ H[i].text[1] <= n /\ H[i].text[1] = F[i].text[1] /\ Carries(F, i, "delta", t)
      BY <1>1, <1>5, <3>2
    <3>6. \A i, j \in DOMAIN H : i < j => i \in DOMAIN F
      BY <1>1
    <3>7. \A i, j \in DOMAIN F : Carries(H, i, "delta", t) /\ Carries(H, j, "delta", t) /\ i < j
             => H[i].text[1] < H[j].text[1]
      BY <3>1, <3>5
    <3>8. \A i \in DOMAIN F : Carries(H, i, "delta", t) => H[i].text[1] < n + 1
      BY <3>5, <1>2, SMTT(30)
    <3> QED
      BY <3>3, <3>4, <3>6, <3>7, <3>8
  <2>3. \A c \in (Done(w) + 1)..Len(w.said) :
             \E i \in DOMAIN H : Carries(H, i, "delta", t) /\ H[i].text[1] = c
    <3> SUFFICES ASSUME NEW c \in (Done(w) + 1)..Len(w.said)
                 PROVE  \E i \in DOMAIN H : Carries(H, i, "delta", t) /\ H[i].text[1] = c
      OBVIOUS
    <3>1. CASE c = n + 1
      BY <1>1, <1>4, <1>5, <3>1
    <3>2. CASE c # n + 1
      <4>1. c \in (Done(v) + 1)..n
        BY <1>2, <3>2
      <4>2. PICK i \in DOMAIN F : Carries(F, i, "delta", t) /\ F[i].text[1] = c
        BY <4>1, <1>3 DEF Open, Deltas, n
      <4> QED
        BY <4>2, <1>1, <1>5
    <3> QED
      BY <3>1, <3>2
  <2> QED
    BY <2>1, <2>2, <2>3 DEF Deltas
<1>8. Ends(H, w, t)
  <2>1. \A i \in DOMAIN H : ~Carries(H, i, "item.completed", t) /\ ~Carries(H, i, "turn.completed", t)
    BY <1>1, <1>5
  <2> QED
    BY <2>1 DEF Ends
<1>9. Exits(H, w, t)
  <2> SUFFICES ASSUME NEW i \in DOMAIN H, H[i].type = "session.exited"
               PROVE  Done(w) = 0 /\ \A j \in DOMAIN H : Tells(H, j, t) => i < j
    BY DEF Exits
  <2>1. i \in DOMAIN F /\ F[i].type = "session.exited"
    BY <1>1
  <2>2. Done(v) = 0 /\ \A j \in DOMAIN F : Tells(F, j, t) => i < j
    BY <2>1, <1>3 DEF Open, Exits
  <2> QED
    BY <2>1, <2>2, <1>1, <1>2, <1>5 DEF Tells
<1>10. Content(w)
  <2>1. w.said = Upto(n + 1)
    <3>1. v.said = Upto(n)
      BY DEF Open, Content, n
    <3> QED
      BY <3>1, <1>2, UptoNext DEF n
  <2>2. Done(w) <= Len(w.said)
    BY <1>2, <1>6
  <2>3. w.pending <=> Done(w) > 0
    BY <1>2, Zenon DEF Open, Content, SameText
  <2>4. /\ ToSet(w.text) \cup ToSet(w.buffer) = 1..Done(w)
        /\ w.modes \subseteq {"streaming"} => w.buffer = <<>>
        /\ Alike(w) => w.text \o w.buffer = Upto(Done(w))
    BY <1>2, Zenon DEF Open, Content, SameText, Alike
  <2> QED
    BY <1>2, <2>1, <2>2, <2>3, <2>4 DEF Content
<1> QED
  BY <1>7, <1>8, <1>9, <1>10 DEF Open, H

\* The turn ends, with a message that has all that was said, or without one.
LEMMA EndOpen ==
    ASSUME NEW F \in Seq(Signals), NEW v \in Views, NEW w \in Views, NEW t,
           NEW e \in Signals,
           Open(F, v, t), ~v.ended, w.ended, SameText(v, w), w.said = v.said,
           e.type = "turn.completed", e.turn = t
    PROVE  Open(Append(F, e), w, t)
<1> DEFINE H == Append(F, e)
<1>1. /\ DOMAIN H = 1..(Len(F) + 1) /\ Len(F) \in Nat /\ DOMAIN F = 1..Len(F)
      /\ \A i \in DOMAIN F : H[i] = F[i]
      /\ H[Len(F) + 1] = e
  OBVIOUS
<1>2. Done(w) = Done(v) /\ Done(v) \in Nat
  BY DoneType DEF Done, SameText
<1> HIDE DEF H
<1>3. \A i \in DOMAIN F : ~Carries(F, i, "item.completed", t) /\ ~Carries(F, i, "turn.completed", t)
  BY DEF Open, Ends
<1>5. /\ \A i \in DOMAIN F : /\ Carries(H, i, "delta", t) <=> Carries(F, i, "delta", t)
                             /\ ~Carries(H, i, "item.completed", t) /\ ~Carries(H, i, "turn.completed", t)
      /\ Carries(H, Len(F) + 1, "turn.completed", t)
      /\ ~Carries(H, Len(F) + 1, "item.completed", t) /\ ~Carries(H, Len(F) + 1, "delta", t)
  BY <1>1, <1>3 DEF Carries
<1>7. Deltas(H, w, t)
  <2>1. \A i \in DOMAIN H : Carries(H, i, "delta", t) => i \in DOMAIN F /\ Carries(F, i, "delta", t) /\ H[i] = F[i]
    BY <1>1, <1>5
  <2>2. \A i \in DOMAIN F : Carries(F, i, "delta", t) => i \in DOMAIN H /\ Carries(H, i, "delta", t) /\ H[i] = F[i]
    BY <1>1, <1>5
  <2> QED
    BY <1>2, <1>3, <2>1, <2>2 DEF Deltas, Open
<1>8. Ends(H, w, t)
  <2>1. w.ended <=> \E i \in DOMAIN H : Carries(H, i, "turn.completed", t)
    BY <1>1, <1>5
  <2>2. \A i \in DOMAIN H : ~Carries(H, i, "item.completed", t)
    BY <1>1, <1>5
  <2>3. \A i, j \in DOMAIN H : Carries(H, i, "turn.completed", t) /\ Tells(H, j, t) => j < i
    BY <1>1, <1>5 DEF Tells
  <2> QED
    BY <2>1, <2>2, <2>3 DEF Ends
<1>9. Exits(H, w, t)
  <2> SUFFICES ASSUME NEW i \in DOMAIN H, H[i].type = "session.exited"
               PROVE  Done(w) = 0 /\ \A j \in DOMAIN H : Tells(H, j, t) => i < j
    BY DEF Exits
  <2>1. i \in DOMAIN F /\ F[i].type = "session.exited"
    BY <1>1
  <2>2. Done(v) = 0 /\ \A j \in DOMAIN F : Tells(F, j, t) => i < j
    BY <2>1, <1>3 DEF Open, Exits
  <2> QED
    BY <2>1, <2>2, <1>1, <1>2, <1>5 DEF Tells
<1>10. Content(w)
  <2>3. w.pending <=> Done(w) > 0
    BY <1>2, Zenon DEF Open, Content, SameText
  <2>4. /\ ToSet(w.text) \cup ToSet(w.buffer) = 1..Done(w)
        /\ w.modes \subseteq {"streaming"} => w.buffer = <<>>
        /\ Alike(w) => w.text \o w.buffer = Upto(Done(w))
        /\ w.said = Upto(Len(w.said)) /\ Done(w) <= Len(w.said)
    BY <1>2, Zenon DEF Open, Content, SameText, Alike
  <2> QED
    BY <1>2, <2>3, <2>4 DEF Content
<1> QED
  BY <1>7, <1>8, <1>9, <1>10 DEF Open, H

LEMMA ItemOpen ==
    ASSUME NEW F \in Seq(Signals), NEW v \in Views, NEW w \in Views, NEW t,
           NEW d \in Signals, NEW e \in Signals,
           Open(F, v, t), ~v.ended, w.ended, SameText(v, w),
           w.said = IF v.said = <<>> THEN << 1 >> ELSE v.said,
           d.type = "item.completed", d.turn = t, d.text = w.said,
           e.type = "turn.completed", e.turn = t
    PROVE  Open(F \o <<d, e>>, w, t)
<1> DEFINE H == F \o <<d, e>>
           k == Len(F)
<1>1. /\ DOMAIN H = 1..(k + 2) /\ k \in Nat /\ DOMAIN F = 1..k
      /\ \A i \in DOMAIN F : H[i] = F[i]
      /\ H[k + 1] = d /\ H[k + 2] = e
  OBVIOUS
<1>2. Done(w) = Done(v) /\ Done(v) \in Nat
  BY DoneType DEF Done, SameText
<1> HIDE DEF H, k
<1>3. \A i \in DOMAIN F : ~Carries(F, i, "item.completed", t) /\ ~Carries(F, i, "turn.completed", t)
  BY DEF Open, Ends
<1>4. \A i \in DOMAIN H : i \in DOMAIN F \/ i = k + 1 \/ i = k + 2
  BY <1>1
<1>5. /\ \A i \in DOMAIN F : /\ Carries(H, i, "delta", t) <=> Carries(F, i, "delta", t)
                             /\ ~Carries(H, i, "item.completed", t) /\ ~Carries(H, i, "turn.completed", t)
      /\ Carries(H, k + 2, "turn.completed", t)
      /\ ~Carries(H, k + 2, "item.completed", t) /\ ~Carries(H, k + 2, "delta", t)
      /\ Carries(H, k + 1, "item.completed", t)
      /\ ~Carries(H, k + 1, "turn.completed", t) /\ ~Carries(H, k + 1, "delta", t)
  BY <1>1, <1>3 DEF Carries
<1>7. Deltas(H, w, t) /\ w.said = Upto(Len(w.said)) /\ Done(w) <= Len(w.said)
  <2>1. CASE v.said = <<>>
    <3>1. w.said = <<1>> /\ Len(w.said) = 1 /\ Len(v.said) = 0
      BY <2>1
    <3>2. Done(v) = 0
      BY <1>2, <3>1 DEF Open, Content
    <3>3. \A i \in DOMAIN H : ~Carries(H, i, "delta", t)
      <4>1. \A i \in DOMAIN F : ~Carries(F, i, "delta", t)
        BY <3>1, <3>2 DEF Open, Deltas
      <4> QED
        BY <4>1, <1>4, <1>5
    <3>4. w.said = Upto(1)
      BY <3>1 DEF Upto
    <3>5. k + 1 \in DOMAIN H
      BY <1>1
    <3>6. Deltas(H, w, t)
      BY <1>2, <1>5, <3>2, <3>3, <3>5 DEF Deltas
    <3> QED
      BY <1>2, <3>1, <3>2, <3>4, <3>6
  <2>2. CASE v.said # <<>>
    <3>1. w.said = v.said
      BY <2>2
    <3>2. \A i \in DOMAIN H : Carries(H, i, "delta", t) => i \in DOMAIN F /\ Carries(F, i, "delta", t) /\ H[i] = F[i]
      BY <1>1, <1>4, <1>5
    <3>3. \A i \in DOMAIN F : Carries(F, i, "delta", t) => i \in DOMAIN H /\ Carries(H, i, "delta", t) /\ H[i] = F[i]
      BY <1>1, <1>5
    <3>4. Deltas(H, w, t)
      BY <1>2, <1>3, <3>1, <3>2, <3>3, SMTT(30) DEF Deltas, Open
    <3> QED
      BY <1>2, <3>1, <3>4 DEF Open, Content
  <2> QED
    BY <2>1, <2>2
<1>8. Ends(H, w, t)
  <2>1. w.ended <=> \E i \in DOMAIN H : Carries(H, i, "turn.completed", t)
    BY <1>1, <1>5
  <2>2. ASSUME NEW i \in DOMAIN H, Carries(H, i, "item.completed", t)
        PROVE  /\ w.ended /\ H[i].text = w.said
               /\ \A j \in DOMAIN H : Carries(H, j, "delta", t) => j < i
               /\ \A j \in DOMAIN H : Carries(H, j, "item.completed", t) => j = i
    BY <1>1, <1>4, <1>5, <2>2
  <2>3. \A i, j \in DOMAIN H : Carries(H, i, "turn.completed", t) /\ Tells(H, j, t) => j < i
    BY <1>1, <1>4, <1>5 DEF Tells
  <2> QED
    BY <2>1, <2>2, <2>3 DEF Ends
<1>9. Exits(H, w, t)
  <2> SUFFICES ASSUME NEW i \in DOMAIN H, H[i].type = "session.exited"
               PROVE  Done(w) = 0 /\ \A j \in DOMAIN H : Tells(H, j, t) => i < j
    BY DEF Exits
  <2>1. i \in DOMAIN F /\ F[i].type = "session.exited"
    BY <1>1, <1>4
  <2>2. Done(v) = 0 /\ \A j \in DOMAIN F : Tells(F, j, t) => i < j
    BY <2>1, <1>3 DEF Open, Exits
  <2> QED
    BY <2>1, <2>2, <1>1, <1>2, <1>4, <1>5 DEF Tells
<1>10. Content(w)
  <2>3. w.pending <=> Done(w) > 0
    BY <1>2, Zenon DEF Open, Content, SameText
  <2>4. /\ ToSet(w.text) \cup ToSet(w.buffer) = 1..Done(w)
        /\ w.modes \subseteq {"streaming"} => w.buffer = <<>>
        /\ Alike(w) => w.text \o w.buffer = Upto(Done(w))
    BY <1>2, Zenon DEF Open, Content, SameText, Alike
  <2> QED
    BY <1>7, <2>3, <2>4 DEF Content
<1> QED
  BY <1>7, <1>8, <1>9, <1>10 DEF Open, H

-----------------------------------------------------------------------------
(* What the ingestion does with the turn's events *)

\* Where the next chunk goes.
IsStreamed(v, w, text) ==
    /\ w.text = v.text \o text /\ w.buffer = v.buffer /\ w.modes = v.modes \cup {"streaming"}
IsSpilled(v, w, text) ==
    /\ w.text = v.text \o (v.buffer \o text) /\ w.buffer = <<>>
    /\ w.modes = v.modes \cup {"buffered"}
IsBuffered(v, w, text) ==
    /\ w.text = v.text /\ w.buffer = v.buffer \o text /\ w.modes = v.modes \cup {"buffered"}

\* Chunks that met one delivery mode met no other one.
LEMMA AlikeFacts ==
    ASSUME NEW S \in SUBSET DeliveryModes, NEW mode \in DeliveryModes,
           Cardinality(S \cup {mode}) <= 1
    PROVE  S \subseteq {mode} /\ Cardinality(S) <= 1
<1>1. IsFiniteSet({mode}) /\ Cardinality({mode}) = 1
  BY FS_Singleton
<1>2. IsFiniteSet(DeliveryModes)
  <2>1. IsFiniteSet({"buffered"})
    BY FS_Singleton
  <2>2. DeliveryModes = {"buffered"} \cup {"streaming"}
    BY DEF DeliveryModes
  <2> QED
    BY <2>1, <2>2, FS_AddElement
<1>3. S \cup {mode} \in SUBSET DeliveryModes
  OBVIOUS
<1>4. IsFiniteSet(S \cup {mode}) /\ Cardinality(S \cup {mode}) \in Nat
  BY <1>2, <1>3, FS_Subset, FS_CardinalityType
<1>5. {mode} \in SUBSET (S \cup {mode})
  OBVIOUS
<1>6. Cardinality({mode}) <= Cardinality(S \cup {mode})
      /\ (Cardinality({mode}) = Cardinality(S \cup {mode}) => {mode} = S \cup {mode})
  BY <1>4, <1>5, FS_Subset
<1>7. {mode} = S \cup {mode}
  BY <1>1, <1>4, <1>6
<1>8. S \in SUBSET {mode}
  BY <1>7
<1>9. Cardinality(S) <= Cardinality({mode})
  BY <1>1, <1>8, FS_Subset
<1> QED
  BY <1>1, <1>8, <1>9

LEMMA ConcatSet ==
    ASSUME NEW p \in Seq(Nat), NEW q \in Seq(Nat)
    PROVE  ToSet(p \o q) = ToSet(p) \cup ToSet(q)
<1>1. /\ DOMAIN (p \o q) = 1..(Len(p) + Len(q)) /\ DOMAIN p = 1..Len(p) /\ DOMAIN q = 1..Len(q)
      /\ Len(p) \in Nat /\ Len(q) \in Nat
      /\ \A i \in DOMAIN p : (p \o q)[i] = p[i] /\ i \in DOMAIN (p \o q)
      /\ \A i \in DOMAIN q : (p \o q)[i + Len(p)] = q[i] /\ i + Len(p) \in DOMAIN (p \o q)
      /\ \A i \in DOMAIN (p \o q) : i \in DOMAIN p \/ (i - Len(p) \in DOMAIN q /\ (p \o q)[i] = q[i - Len(p)])
  BY SMTT(30)
<1> DEFINE r == p \o q
<1> HIDE DEF r
<1>2. ASSUME NEW x \in ToSet(r) PROVE x \in ToSet(p) \cup ToSet(q)
  <2>1. PICK i \in DOMAIN r : x = r[i]
    BY DEF ToSet
  <2> QED
    BY <1>1, <2>1 DEF ToSet, r
<1>3. ASSUME NEW x \in ToSet(p) PROVE x \in ToSet(r)
  <2>1. PICK i \in DOMAIN p : x = p[i]
    BY <1>3 DEF ToSet
  <2>2. r[i] = x /\ i \in DOMAIN r
    BY <1>1, <2>1 DEF r
  <2> QED
    BY <2>2 DEF ToSet
<1>4. ASSUME NEW x \in ToSet(q) PROVE x \in ToSet(r)
  <2>1. PICK i \in DOMAIN q : x = q[i]
    BY <1>4 DEF ToSet
  <2>2. r[i + Len(p)] = x /\ i + Len(p) \in DOMAIN r
    BY <1>1, <2>1 DEF r
  <2> QED
    BY <2>2 DEF ToSet
<1> QED
  BY <1>2, <1>3, <1>4 DEF r

\* n chunks, some of them in a message and the others in its buffer.
Shown(p, q, n) ==
    /\ p \in Seq(Nat) /\ q \in Seq(Nat) /\ n \in Nat
    /\ Len(p) + Len(q) = n
    /\ ToSet(p) \cup ToSet(q) = 1..n

IsChunk(c, n) == c \in Seq(Nat) /\ Len(c) = 1 /\ ToSet(c) = {n + 1} /\ Upto(n) \o c = Upto(n + 1)

LEMMA ChunkFacts == \A n \in Nat : IsChunk(<<n + 1>>, n)
<1> SUFFICES ASSUME NEW n \in Nat PROVE IsChunk(<<n + 1>>, n)
  OBVIOUS
<1>1. <<n + 1>> \in Seq(Nat) /\ Len(<<n + 1>>) = 1
  OBVIOUS
<1>2. ToSet(<<n + 1>>) = {n + 1}
  BY DEF ToSet
<1> QED
  BY <1>1, <1>2, UptoNext DEF IsChunk

LEMMA ConcatTypes ==
    ASSUME NEW p \in Seq(Nat), NEW q \in Seq(Nat)
    PROVE  p \o q \in Seq(Nat) /\ Len(p \o q) = Len(p) + Len(q)
BY ConcatProperties

LEMMA ConcatThree ==
    ASSUME NEW p \in Seq(Nat), NEW q \in Seq(Nat), NEW c \in Seq(Nat)
    PROVE  p \o (q \o c) = (p \o q) \o c
BY ConcatAssociative, SMTT(30)

LEMMA OneMore == \A a, b, n \in Nat : a + b = n => a + 1 + b = n + 1 /\ n + 1 \in Nat
OBVIOUS

IsNext(p, q, c, n) ==
    /\ Shown(p \o c, q, n + 1)
    /\ Shown(p \o (q \o c), <<>>, n + 1)
    /\ Shown(p, q \o c, n + 1)
    /\ p \o q = Upto(n) => /\ p \o (q \o c) = Upto(n + 1)
                          /\ (p \o (q \o c)) \o <<>> = Upto(n + 1)
                          /\ (q = <<>> => (p \o c) \o q = Upto(n + 1))

\* The next chunk goes to the message, or flushes the buffer to it, or to the buffer.
LEMMA NextChunk ==
    ASSUME NEW p, NEW q, NEW n, NEW c, Shown(p, q, n), IsChunk(c, n)
    PROVE  IsNext(p, q, c, n)
<1>1. p \in Seq(Nat) /\ q \in Seq(Nat) /\ n \in Nat /\ Len(p) \in Nat /\ Len(q) \in Nat
      /\ Len(p) + Len(q) = n /\ ToSet(p) \cup ToSet(q) = 1..n
  BY DEF Shown
<1>2. c \in Seq(Nat) /\ Len(c) = 1 /\ ToSet(c) = {n + 1} /\ Upto(n) \o c = Upto(n + 1)
  BY DEF IsChunk
<1>3. (1..n) \cup {n + 1} = 1..(n + 1)
  BY <1>1
<1>4. ToSet(<<>>) = {} /\ <<>> \in Seq(Nat) /\ Len(<<>>) = 0
  BY DEF ToSet
<1>5. p \o c \in Seq(Nat) /\ Len(p \o c) = Len(p) + 1 /\ ToSet(p \o c) = ToSet(p) \cup {n + 1}
  <2>1. p \o c \in Seq(Nat) /\ Len(p \o c) = Len(p) + Len(c) /\ ToSet(p \o c) = ToSet(p) \cup ToSet(c)
    BY <1>1, <1>2, ConcatSet, ConcatTypes
  <2> QED
    BY <2>1, <1>2
<1>6. q \o c \in Seq(Nat) /\ Len(q \o c) = Len(q) + 1 /\ ToSet(q \o c) = ToSet(q) \cup {n + 1}
  <2>1. q \o c \in Seq(Nat) /\ Len(q \o c) = Len(q) + Len(c) /\ ToSet(q \o c) = ToSet(q) \cup ToSet(c)
    BY <1>1, <1>2, ConcatSet, ConcatTypes
  <2> QED
    BY <2>1, <1>2
<1>7. /\ p \o (q \o c) \in Seq(Nat) /\ Len(p \o (q \o c)) = Len(p) + Len(q \o c)
      /\ ToSet(p \o (q \o c)) = ToSet(p) \cup ToSet(q \o c)
  BY <1>1, <1>6, ConcatSet, ConcatTypes
<1>8. p \o (q \o c) = (p \o q) \o c
  BY <1>1, <1>2, ConcatThree
<1>9. \A r \in Seq(Nat) : r \o <<>> = r
  BY ConcatEmptySeq
<1> DEFINE pc == p \o c
           qc == q \o c
           pqc == p \o (q \o c)
<1> HIDE DEF pc, qc, pqc
<1>10. pc \in Seq(Nat) /\ Len(pc) = Len(p) + 1 /\ ToSet(pc) = ToSet(p) \cup {n + 1}
  BY <1>5 DEF pc
<1>11. qc \in Seq(Nat) /\ Len(qc) = Len(q) + 1 /\ ToSet(qc) = ToSet(q) \cup {n + 1}
  BY <1>6 DEF qc
<1>12. pqc \in Seq(Nat) /\ Len(pqc) = Len(p) + (Len(q) + 1) /\ ToSet(pqc) = ToSet(p) \cup (ToSet(q) \cup {n + 1})
  BY <1>6, <1>7 DEF pqc
<1>13. Shown(pc, q, n + 1)
  <2>1. ToSet(pc) \cup ToSet(q) = 1..(n + 1)
    BY <1>1, <1>3, <1>10
  <2>2. Len(pc) + Len(q) = n + 1 /\ n + 1 \in Nat
    <3>1. Len(pc) = Len(p) + 1
      BY <1>10
    <3>2. Len(p) \in Nat /\ Len(q) \in Nat /\ n \in Nat /\ Len(p) + Len(q) = n
      BY <1>1
    <3> QED
      BY <3>1, <3>2, OneMore
  <2> QED
    BY <1>1, <1>10, <2>1, <2>2 DEF Shown
<1>14. Shown(p, qc, n + 1)
  BY <1>1, <1>3, <1>11 DEF Shown
<1>15. Shown(pqc, <<>>, n + 1)
  <2>1. ToSet(pqc) \cup ToSet(<<>>) = 1..(n + 1)
    BY <1>1, <1>3, <1>4, <1>12
  <2>2. Len(pqc) + Len(<<>>) = n + 1 /\ n + 1 \in Nat
    BY <1>1, <1>4, <1>12
  <2> QED
    BY <1>4, <1>12, <2>1, <2>2 DEF Shown
<1>16. ASSUME p \o q = Upto(n)
       PROVE  pqc = Upto(n + 1) /\ pqc \o <<>> = Upto(n + 1) /\ (q = <<>> => pc \o q = Upto(n + 1))
  <2>1. pqc = Upto(n + 1)
    BY <1>2, <1>8, <1>16 DEF pqc
  <2>2. pqc \o <<>> = Upto(n + 1)
    BY <2>1, <1>9, <1>12
  <2>3. ASSUME q = <<>> PROVE pc \o q = Upto(n + 1)
    <3>1. p = Upto(n)
      BY <2>3, <1>16, <1>1, <1>9
    <3>2. pc = Upto(n + 1)
      BY <3>1, <1>2 DEF pc
    <3> QED
      BY <2>3, <3>2, <1>9, <1>10
  <2> QED
    BY <2>1, <2>2, <2>3
<1> QED
  BY <1>13, <1>14, <1>15, <1>16 DEF pc, qc, pqc, IsNext

IsTaken(v, w, text) == IsStreamed(v, w, text) \/ IsSpilled(v, w, text) \/ IsBuffered(v, w, text)

\* What the next chunk makes of what is shown of n chunks, wherever it goes.
LEMMA TakenChunk ==
    ASSUME NEW v \in Views, NEW w \in Views, NEW n, NEW c, IsChunk(c, n),
           Shown(v.text, v.buffer, n), IsTaken(v, w, c),
           v.modes \subseteq {"streaming"} => v.buffer = <<>>,
           Alike(v) => v.text \o v.buffer = Upto(n)
    PROVE  /\ Shown(w.text, w.buffer, n + 1)
           /\ w.modes \subseteq {"streaming"} => w.buffer = <<>>
           /\ Alike(w) => w.text \o w.buffer = Upto(n + 1)
<1> DEFINE p == v.text
           q == v.buffer
<1> HIDE DEF p, q
<1>1. Shown(p, q, n)
  BY DEF p, q
<1>2. /\ Shown(p \o c, q, n + 1) /\ Shown(p \o (q \o c), <<>>, n + 1) /\ Shown(p, q \o c, n + 1)
      /\ p \o q = Upto(n) => /\ p \o (q \o c) = Upto(n + 1)
                            /\ (p \o (q \o c)) \o <<>> = Upto(n + 1)
                            /\ (q = <<>> => (p \o c) \o q = Upto(n + 1))
  <2>1. IsNext(p, q, c, n)
    BY <1>1, NextChunk
  <2> QED
    BY <2>1, Zenon DEF IsNext
<1>4. (v.modes \subseteq {"streaming"} => q = <<>>) /\ (Alike(v) => p \o q = Upto(n))
  BY DEF p, q
<1>5. /\ w.modes \in SUBSET DeliveryModes /\ v.modes \in SUBSET DeliveryModes
      /\ "streaming" \in DeliveryModes /\ "buffered" \in DeliveryModes
  BY DEF Views, DeliveryModes
<1>6. CASE IsStreamed(v, w, c)
  <2>1. w.text = p \o c /\ w.buffer = q /\ w.modes = v.modes \cup {"streaming"}
    BY <1>6 DEF IsStreamed, p, q
  <2>2. Alike(w) => v.modes \subseteq {"streaming"} /\ Alike(v)
    BY <2>1, <1>5, AlikeFacts DEF Alike
  <2>3. Alike(w) => (p \o c) \o q = Upto(n + 1)
    BY <2>2, <1>2, <1>4, Zenon
  <2> QED
    BY <2>1, <2>3, <1>2, <1>4
<1>7. CASE IsSpilled(v, w, c)
  <2>1. w.text = p \o (q \o c) /\ w.buffer = <<>> /\ w.modes = v.modes \cup {"buffered"}
    BY <1>7 DEF IsSpilled, p, q
  <2>2. Alike(w) => Alike(v)
    BY <2>1, <1>5, AlikeFacts DEF Alike
  <2>3. Alike(w) => (p \o (q \o c)) \o <<>> = Upto(n + 1)
    BY <2>2, <1>2, <1>4, Zenon
  <2> QED
    BY <2>1, <2>3, <1>2
<1>8. CASE IsBuffered(v, w, c)
  <2>1. w.text = p /\ w.buffer = q \o c /\ w.modes = v.modes \cup {"buffered"}
    BY <1>8 DEF IsBuffered, p, q
  <2>2. Alike(w) => Alike(v)
    BY <2>1, <1>5, AlikeFacts DEF Alike
  <2>3. Alike(w) => p \o (q \o c) = Upto(n + 1)
    BY <2>2, <1>2, <1>4, Zenon
  <2>4. ~(w.modes \subseteq {"streaming"})
    <3>1. "buffered" \in w.modes /\ "buffered" \notin {"streaming"}
      BY <2>1
    <3> QED
      BY <3>1
  <2> QED
    BY <2>1, <2>3, <2>4, <1>2
<1> QED
  BY <1>6, <1>7, <1>8 DEF IsTaken

\* What is seen of the turn after its next chunk arrived.
LEMMA DeltaContent ==
    ASSUME NEW v \in Views, NEW w \in Views, NEW c, IsChunk(c, Done(v)),
           Content(v), Done(v) + 1 <= Len(v.said),
           w.pending, w.said = v.said, IsTaken(v, w, c)
    PROVE  Content(w) /\ Done(w) = Done(v) + 1
<1>1. Shown(v.text, v.buffer, Done(v)) /\ Done(v) \in Nat
  BY DoneType DEF Shown, Done, Views, Content
<1>2. /\ Shown(w.text, w.buffer, Done(v) + 1)
      /\ w.modes \subseteq {"streaming"} => w.buffer = <<>>
      /\ Alike(w) => w.text \o w.buffer = Upto(Done(v) + 1)
  BY <1>1, TakenChunk DEF Content
<1>3. Done(w) = Done(v) + 1 /\ ToSet(w.text) \cup ToSet(w.buffer) = 1..(Done(v) + 1)
  BY <1>2 DEF Shown, Done
<1>4. w.pending <=> Done(w) > 0
  BY <1>1, <1>3
<1>5. w.said = Upto(Len(w.said)) /\ Done(w) <= Len(w.said)
  BY <1>3 DEF Content
<1> QED
  BY <1>2, <1>3, <1>4, <1>5 DEF Content

\* The first of the chunks on their way is the one after those that arrived.
LEMMA FirstChunk ==
    ASSUME NEW F \in Seq(Signals), F # <<>>, NEW v \in Views, NEW t, Open(F, v, t),
           Head(F).type = "delta", Head(F).turn = t
    PROVE  Head(F).text = <<Done(v) + 1>> /\ Done(v) + 1 <= Len(v.said)
<1>1. /\ Head(F) = F[1] /\ Len(F) \in Nat /\ DOMAIN F = 1..Len(F) /\ 1 \in DOMAIN F
      /\ F[1] \in Signals
  <2>1. 1 \in DOMAIN F /\ Head(F) = F[1] /\ Len(F) \in Nat /\ DOMAIN F = 1..Len(F)
    BY TailFacts
  <2> QED
    BY <2>1
<1>2. Carries(F, 1, "delta", t) /\ F[1].text \in Seq(Nat)
  BY <1>1 DEF Carries, Signals
<1>3. Done(v) \in Nat /\ Len(v.said) \in Nat
  BY DoneType
<1>4. Len(F[1].text) = 1 /\ F[1].text[1] \in (Done(v) + 1)..Len(v.said)
  BY <1>1, <1>2 DEF Open, Deltas
<1>5. PICK i \in DOMAIN F : Carries(F, i, "delta", t) /\ F[i].text[1] = Done(v) + 1
  <2>1. Done(v) + 1 \in (Done(v) + 1)..Len(v.said)
    BY <1>3, <1>4
  <2> QED
    BY <2>1, <1>1, <1>2 DEF Open, Deltas
<1>6. i = 1
  <2>1. CASE 1 < i
    <3>1. F[1].text[1] < F[i].text[1]
      BY <1>1, <1>2, <1>5, <2>1 DEF Open, Deltas
    <3> QED
      BY <3>1, <1>3, <1>4, <1>5
  <2> QED
    BY <2>1, <1>1
<1>7. F[1].text = <<F[1].text[1]>>
  BY <1>2, <1>4
<1> QED
  BY <1>1, <1>3, <1>4, <1>5, <1>6, <1>7

\* A chunk of an open turn arrives: the turn stays open.
LEMMA DeltaOpen ==
    ASSUME NEW F \in Seq(Signals), F # <<>>, NEW v \in Views, NEW w \in Views, NEW t,
           Open(F, v, t), Head(F).type = "delta", Head(F).turn = t,
           w.said = v.said, w.ended = v.ended, w.pending, IsTaken(v, w, Head(F).text)
    PROVE  Open(Tail(F), w, t)
<1> DEFINE H == Tail(F)
           n == Done(v)
<1>1. /\ DOMAIN H = 1..(Len(F) - 1) /\ Head(F) = F[1] /\ Len(F) \in Nat /\ DOMAIN F = 1..Len(F)
      /\ \A i \in DOMAIN H : H[i] = F[i + 1] /\ i + 1 \in DOMAIN F
      /\ \A i \in DOMAIN F : i = 1 \/ (i - 1 \in DOMAIN H /\ H[i - 1] = F[i])
      /\ 1 \in DOMAIN F
  BY TailFacts
<1>2. Head(F).text = <<n + 1>> /\ n + 1 <= Len(v.said) /\ n \in Nat
  BY FirstChunk, DoneType
<1>3. Content(w) /\ Done(w) = n + 1
  <2>1. IsChunk(Head(F).text, n)
    BY <1>2, ChunkFacts
  <2> QED
    BY <2>1, <1>2, DeltaContent DEF Open
<1>4. Carries(F, 1, "delta", t) /\ ~Carries(F, 1, "item.completed", t)
      /\ ~Carries(F, 1, "turn.completed", t) /\ F[1].text[1] = n + 1
      /\ F[1].type # "session.exited"
  BY <1>1, <1>2 DEF Carries
<1> HIDE DEF H, n
<1>5. \A i \in DOMAIN H : /\ Carries(H, i, "delta", t) <=> Carries(F, i + 1, "delta", t)
                          /\ Carries(H, i, "item.completed", t) <=> Carries(F, i + 1, "item.completed", t)
                          /\ Carries(H, i, "turn.completed", t) <=> Carries(F, i + 1, "turn.completed", t)
                          /\ i \in Nat
  BY <1>1 DEF Carries
<1>6. \A i \in DOMAIN F :
         /\ Carries(F, i, "delta", t) => i = 1 \/ (i - 1 \in DOMAIN H /\ Carries(H, i - 1, "delta", t))
         /\ Carries(F, i, "item.completed", t) => i - 1 \in DOMAIN H /\ Carries(H, i - 1, "item.completed", t)
         /\ Carries(F, i, "turn.completed", t) => i - 1 \in DOMAIN H /\ Carries(H, i - 1, "turn.completed", t)
         /\ i \in Nat
  BY <1>1, <1>4 DEF Carries
<1>7. Deltas(H, w, t)
  <2>1. ASSUME NEW i \in DOMAIN H, Carries(H, i, "delta", t)
        PROVE  Len(H[i].text) = 1 /\ H[i].text[1] \in (Done(w) + 1)..Len(w.said)
    <3>1. i + 1 \in DOMAIN F /\ Carries(F, i + 1, "delta", t) /\ H[i] = F[i + 1] /\ 1 < i + 1
      BY <2>1, <1>1, <1>5
    <3>2. Len(F[i + 1].text) = 1 /\ F[i + 1].text[1] \in (n + 1)..Len(v.said)
      BY <3>1 DEF Open, Deltas, n
    <3>3. F[1].text[1] < F[i + 1].text[1]
      BY <3>1, <1>1, <1>4 DEF Open, Deltas
    <3> QED
      BY <3>1, <3>2, <3>3, <1>2, <1>3, <1>4
  <2>2. ASSUME NEW i \in DOMAIN H, NEW j \in DOMAIN H,
               Carries(H, i, "delta", t), Carries(H, j, "delta", t), i < j
        PROVE  H[i].text[1] < H[j].text[1]
    <3>1. /\ i + 1 \in DOMAIN F /\ j + 1 \in DOMAIN F /\ i + 1 < j + 1
          /\ Carries(F, i + 1, "delta", t) /\ Carries(F, j + 1, "delta", t)
          /\ H[i] = F[i + 1] /\ H[j] = F[j + 1]
      BY <2>2, <1>1, <1>5
    <3>2. F[i + 1].text[1] < F[j + 1].text[1]
      BY <3>1 DEF Open, Deltas
    <3> QED
      BY <3>1, <3>2
  <2>3. ASSUME NEW c \in (Done(w) + 1)..Len(w.said)
        PROVE  \E i \in DOMAIN H : Carries(H, i, "delta", t) /\ H[i].text[1] = c
    <3>1. c \in (n + 1)..Len(v.said) /\ c # n + 1
      BY <1>2, <1>3
    <3>2. PICK i \in DOMAIN F : Carries(F, i, "delta", t) /\ F[i].text[1] = c
      BY <3>1, <1>1, <1>4 DEF Open, Deltas, n
    <3>3. i # 1
      BY <3>1, <3>2, <1>4
    <3>4. i - 1 \in DOMAIN H /\ Carries(H, i - 1, "delta", t) /\ H[i - 1] = F[i]
      BY <3>2, <3>3, <1>1, <1>6
    <3> QED
      BY <3>2, <3>4
  <2> QED
    BY <2>1, <2>2, <2>3 DEF Deltas
<1>8. Ends(H, w, t)
  <2>1. v.ended <=> \E i \in DOMAIN H : Carries(H, i, "turn.completed", t)
    BY <1>1, <1>5, <1>6 DEF Open, Ends
  <2>2. ASSUME NEW i \in DOMAIN H, Carries(H, i, "item.completed", t)
        PROVE  /\ v.ended /\ H[i].text = v.said
               /\ \A j \in DOMAIN H : Carries(H, j, "delta", t) => j < i
               /\ \A j \in DOMAIN H : Carries(H, j, "item.completed", t) => j = i
    BY <1>1, <1>5, <2>2 DEF Open, Ends
  <2>3. \A i, j \in DOMAIN H : Carries(H, i, "turn.completed", t) /\ Tells(H, j, t) => j < i
    BY <1>1, <1>5 DEF Open, Ends, Tells
  <2> QED
    BY <2>1, <2>2, <2>3 DEF Ends
<1>9. Exits(H, w, t)
  <2> SUFFICES ASSUME NEW i \in DOMAIN H, H[i].type = "session.exited"
               PROVE  \E j \in DOMAIN H : j < i /\ Carries(H, j, "turn.completed", t)
    BY DEF Exits
  <2>1. i + 1 \in DOMAIN F /\ F[i + 1].type = "session.exited" /\ i \in Nat
    BY <1>1, <1>5
  <2>2. Tells(F, 1, t) /\ ~(i + 1 < 1)
    BY <2>1, <1>4 DEF Tells
  <2>3. PICK j \in DOMAIN F : j < i + 1 /\ Carries(F, j, "turn.completed", t)
    BY <2>1, <2>2, <1>1 DEF Open, Exits
  <2> QED
    BY <2>1, <2>3, <1>6
<1> QED
  BY <1>3, <1>7, <1>8, <1>9 DEF Open, H

\* The end of the message has what no chunk brought.
Finish(v, text) == IF v.buffer # <<>> THEN v.buffer ELSE IF v.text = <<>> THEN text ELSE <<>>

\* Message and buffer have all of the turn once as many chunks arrived as were said.
LEMMA AllArrived ==
    ASSUME NEW v \in Views, Content(v), Done(v) = Len(v.said), v.said # <<>>
    PROVE  /\ Len(v.text \o v.buffer) = Len(v.said)
           /\ ToSet(v.text \o v.buffer) = ToSet(v.said)
           /\ Alike(v) => v.text \o v.buffer = v.said
           /\ ~(v.text = <<>> /\ v.buffer = <<>>)
<1>1. v.text \in Seq(Nat) /\ v.buffer \in Seq(Nat) /\ v.said \in Seq(Nat) /\ Len(v.said) \in Nat
  BY DEF Views
<1>2. v.said = Upto(Len(v.said)) /\ ToSet(v.text) \cup ToSet(v.buffer) = 1..Len(v.said)
      /\ (Alike(v) => v.text \o v.buffer = Upto(Len(v.said)))
  BY DEF Content
<1>3. Len(v.text \o v.buffer) = Len(v.text) + Len(v.buffer)
      /\ ToSet(v.text \o v.buffer) = ToSet(v.text) \cup ToSet(v.buffer)
  BY <1>1, ConcatTypes, ConcatSet
<1>4. ToSet(v.said) = 1..Len(v.said)
  BY <1>1, <1>2, UptoFacts
<1>5. ~(v.text = <<>> /\ v.buffer = <<>>)
  <2>1. Len(v.said) # 0
    BY <1>1
  <2>2. ASSUME v.text = <<>>, v.buffer = <<>> PROVE Done(v) = 0
    BY <2>2 DEF Done
  <2> QED
    BY <2>1, <2>2
<1> QED
  BY <1>2, <1>3, <1>4, <1>5 DEF Done

\* The end of the message makes the turn final.
LEMMA ItemFinal ==
    ASSUME NEW F \in Seq(Signals), F # <<>>, NEW v \in Views, NEW w \in Views, NEW t,
           Open(F, v, t), Head(F).type = "item.completed", Head(F).turn = t,
           w.said = v.said, w.ended = v.ended, w.modes = v.modes, ~w.pending, w.finished,
           w.text = v.text \o Finish(v, Head(F).text)
    PROVE  Final(Tail(F), w, t)
<1>1. /\ \A i \in DOMAIN Tail(F) : Tail(F)[i] = F[i + 1] /\ i + 1 \in DOMAIN F
      /\ Head(F) = F[1] /\ Len(F) \in Nat /\ DOMAIN F = 1..Len(F) /\ 1 \in DOMAIN F
      /\ \A i \in DOMAIN Tail(F) : i \in Nat /\ i > 0
  BY TailFacts
<1>2. Carries(F, 1, "item.completed", t)
  BY <1>1 DEF Carries
<1>3. /\ v.ended /\ Head(F).text = v.said
      /\ \A j \in DOMAIN F : ~Carries(F, j, "delta", t)
      /\ \A j \in DOMAIN F : Carries(F, j, "item.completed", t) => j = 1
  BY <1>1, <1>2 DEF Open, Ends
<1>4. \A i \in DOMAIN Tail(F) : ~Tells(Tail(F), i, t)
  <2> SUFFICES ASSUME NEW i \in DOMAIN Tail(F), Tells(Tail(F), i, t) PROVE FALSE
    OBVIOUS
  <2>1. i + 1 \in DOMAIN F /\ i + 1 # 1 /\ Tells(F, i + 1, t)
    BY <1>1 DEF Tells, Carries
  <2> QED
    BY <2>1, <1>3 DEF Tells
<1>5. Done(v) \in Nat /\ Len(v.said) \in Nat /\ Len(v.text) \in Nat /\ Len(v.buffer) \in Nat
      /\ v.text \in Seq(Nat) /\ v.buffer \in Seq(Nat) /\ v.said \in Seq(Nat)
  BY DoneType DEF Views
<1>6. Content(v) /\ (Done(v) = Len(v.said) \/ Done(v) = 0)
  <2>1. Content(v) /\ Done(v) <= Len(v.said)
    BY DEF Open, Content
  <2>2. CASE \A c \in (Done(v) + 1)..Len(v.said) :
                \E i \in DOMAIN F : Carries(F, i, "delta", t) /\ F[i].text[1] = c
    <3>1. Len(v.said) \notin (Done(v) + 1)..Len(v.said)
      BY <2>2, <1>3
    <3> QED
      BY <3>1, <2>1, <1>5
  <2> QED
    BY <2>1, <2>2 DEF Open, Deltas
<1>7. ASSUME w.said # <<>>
      PROVE  /\ Len(w.text) = Len(w.said) /\ ToSet(w.text) = ToSet(w.said)
             /\ Alike(w) => w.text = w.said
  <2>1. CASE Done(v) = 0
    <3>1. Len(v.text) = 0 /\ Len(v.buffer) = 0
      BY <2>1, <1>5, ZeroSum DEF Done
    <3>2. v.text = <<>> /\ v.buffer = <<>>
      BY <3>1, <1>5
    <3>3. w.text = <<>> \o v.said
      BY <3>2, <1>3 DEF Finish
    <3>4. w.text = v.said
      BY <3>3, <1>5, ConcatEmptySeq
    <3> QED
      BY <3>4
  <2>2. CASE Done(v) = Len(v.said)
    <3>1. w.text = v.text \o v.buffer
      <4>1. CASE v.buffer # <<>>
        BY <4>1 DEF Finish
      <4>2. CASE v.buffer = <<>>
        BY <4>2, <2>2, <1>6, <1>7, AllArrived DEF Finish
      <4> QED
        BY <4>1, <4>2
    <3>2. Alike(w) <=> Alike(v)
      BY DEF Alike
    <3> QED
      BY <3>1, <3>2, <2>2, <1>6, <1>7, AllArrived
  <2> QED
    BY <2>1, <2>2, <1>6
<1> QED
  BY <1>3, <1>4, <1>7 DEF Final

\* When the turn ends, all that was said has arrived, or is about to be finished.
LEMMA EndFinal ==
    ASSUME NEW F \in Seq(Signals), F # <<>>, NEW v \in Views, NEW w \in Views, NEW t,
           Open(F, v, t), Head(F).type = "turn.completed", Head(F).turn = t,
           w.said = v.said, w.ended = v.ended, w.modes = v.modes, ~w.pending,
           v.pending => w.finished /\ w.text = v.text \o v.buffer
    PROVE  Final(Tail(F), w, t)
<1>1. /\ \A i \in DOMAIN Tail(F) : Tail(F)[i] = F[i + 1] /\ i + 1 \in DOMAIN F
      /\ Head(F) = F[1] /\ Len(F) \in Nat /\ DOMAIN F = 1..Len(F) /\ 1 \in DOMAIN F
  BY TailFacts
<1>2. Carries(F, 1, "turn.completed", t)
  BY <1>1 DEF Carries
<1>3. v.ended /\ \A j \in DOMAIN F : ~Tells(F, j, t)
  BY <1>1, <1>2 DEF Open, Ends
<1>4. \A i \in DOMAIN Tail(F) : ~Tells(Tail(F), i, t)
  BY <1>1, <1>3 DEF Tells, Carries
<1>5. Done(v) \in Nat /\ Len(v.said) \in Nat /\ v.said \in Seq(Nat)
  BY DoneType DEF Views
<1>6. Content(v) /\ Done(v) = Len(v.said)
  <2>1. Content(v) /\ Done(v) <= Len(v.said)
    BY DEF Open, Content
  <2>2. \A c \in (Done(v) + 1)..Len(v.said) :
                \E i \in DOMAIN F : Carries(F, i, "delta", t) /\ F[i].text[1] = c
    BY <1>3 DEF Open, Deltas, Tells
  <2>3. Len(v.said) \notin (Done(v) + 1)..Len(v.said)
    BY <2>2, <1>3 DEF Tells
  <2> QED
    BY <2>3, <2>1, <1>5
<1>7. ASSUME w.said # <<>>
      PROVE  /\ w.finished /\ Len(w.text) = Len(w.said) /\ ToSet(w.text) = ToSet(w.said)
             /\ Alike(w) => w.text = w.said
  <2>1. Done(v) > 0
    BY <1>5, <1>6, <1>7
  <2>2. v.pending
    BY <2>1, <1>6, Zenon DEF Content
  <2>3. w.finished /\ w.text = v.text \o v.buffer /\ (Alike(w) <=> Alike(v))
    BY <2>2 DEF Alike
  <2> QED
    BY <2>3, <1>6, <1>7, AllArrived
<1> QED
  BY <1>3, <1>4, <1>7 DEF Final

-----------------------------------------------------------------------------
(* All turns: what is in flight, what is seen of each turn, which were sent,  *)
(* and which one the provider works at.                                       *)

TurnsAre(F, V, S, a) ==
    /\ F \in Seq(Signals) /\ V \in [Turns -> Views]
    /\ a # Null => a \in S /\ a \in Turns
    /\ \A t \in Turns :
          /\ t \notin S => Fresh(F, V[t], t)
          /\ t = a => Open(F, V[t], t) /\ ~V[t].ended
          /\ V[t].ended => Open(F, V[t], t) \/ Final(F, V[t], t)

\* Events that concern no turn: sessions start, or end while no turn runs.
LEMMA QuietTurns ==
    ASSUME NEW F, NEW V, NEW S, NEW a, NEW b, NEW G \in Seq(Signals),
           TurnsAre(F, V, S, a),
           \A t \in Turns : \A i \in DOMAIN G : ~Concerns(G[i], t),
           b = Null \/ (b = a /\ \A i \in DOMAIN G : G[i].type # "session.exited")
    PROVE  TurnsAre(F \o G, V, S, b)
<1>1. F \in Seq(Signals) /\ F \o G \in Seq(Signals) /\ V \in [Turns -> Views]
  BY DEF TurnsAre
<1>2. b # Null => b \in S /\ b \in Turns
  BY DEF TurnsAre
<1>3. Null \notin Turns
  BY TurnsFacts, LifecycleAssumption
<1>4. ASSUME NEW t \in Turns
      PROVE  /\ t \notin S => Fresh(F \o G, V[t], t)
             /\ t = b => Open(F \o G, V[t], t) /\ ~V[t].ended
             /\ V[t].ended => Open(F \o G, V[t], t) \/ Final(F \o G, V[t], t)
  <2>1. V[t] \in Views /\ \A i \in DOMAIN G : ~Concerns(G[i], t)
    BY <1>1
  <2>2. ASSUME t \notin S PROVE Fresh(F \o G, V[t], t)
    BY <1>1, <2>1, <2>2, FreshThen DEF TurnsAre
  <2>3. ASSUME t = b PROVE Open(F \o G, V[t], t) /\ ~V[t].ended
    <3>1. b = a /\ \A i \in DOMAIN G : G[i].type # "session.exited"
      BY <2>3, <1>3
    <3>2. Open(F, V[t], t) /\ ~V[t].ended
      BY <3>1, <2>3 DEF TurnsAre
    <3> QED
      BY <1>1, <2>1, <3>1, <3>2, OpenThen
  <2>4. ASSUME V[t].ended PROVE Open(F \o G, V[t], t) \/ Final(F \o G, V[t], t)
    <3>1. Open(F, V[t], t) \/ Final(F, V[t], t)
      BY <2>4 DEF TurnsAre
    <3> QED
      BY <1>1, <2>1, <2>4, <3>1, OpenThen, FinalThen
  <2> QED
    BY <2>2, <2>3, <2>4
<1> QED
  BY <1>1, <1>2, <1>4 DEF TurnsAre

\* A turn is sent while none runs.
LEMMA SentTurn ==
    ASSUME NEW F, NEW V, NEW S, NEW t \in Turns, t \notin S, TurnsAre(F, V, S, Null)
    PROVE  TurnsAre(F, V, S \cup {t}, t)
<1>1. V \in [Turns -> Views] /\ F \in Seq(Signals)
  BY DEF TurnsAre
<1>2. Null \notin Turns
  BY TurnsFacts, LifecycleAssumption
<1>3. Open(F, V[t], t) /\ ~V[t].ended
  <2>1. Fresh(F, V[t], t) /\ V[t] \in Views
    BY <1>1 DEF TurnsAre
  <2> QED
    BY <2>1, FreshOpens DEF Fresh
<1>4. ASSUME NEW u \in Turns
      PROVE  /\ u \notin S \cup {t} => Fresh(F, V[u], u)
             /\ u = t => Open(F, V[u], u) /\ ~V[u].ended
             /\ V[u].ended => Open(F, V[u], u) \/ Final(F, V[u], u)
  BY <1>3 DEF TurnsAre
<1> QED
  BY <1>1, <1>4 DEF TurnsAre

LEMMA AppendIs == \A S : \A F \in Seq(S) : \A e \in S :
    Append(F, e) = F \o <<e>> /\ <<e>> \in Seq(S) /\ Append(F, e) \in Seq(S)
OBVIOUS

\* What the provider does to the turn it works at leaves the others as they are.
LEMMA OtherTurns ==
    ASSUME NEW F, NEW V, NEW W, NEW S, NEW a, NEW b, NEW G \in Seq(Signals),
           TurnsAre(F, V, S, a), a # Null,
           W \in [Turns -> Views], \A u \in Turns : u # a => W[u] = V[u],
           \A i \in DOMAIN G : G[i].turn = a /\ G[i].type # "session.exited",
           b = Null \/ (b = a /\ ~W[a].ended),
           Open(F \o G, W[a], a)
    PROVE  TurnsAre(F \o G, W, S, b)
<1>1. F \in Seq(Signals) /\ F \o G \in Seq(Signals) /\ a \in S /\ a \in Turns
  BY DEF TurnsAre
<1>2. ASSUME NEW u \in Turns, u # a
      PROVE  /\ u \notin S => Fresh(F \o G, V[u], u)
             /\ V[u].ended => Open(F \o G, V[u], u) \/ Final(F \o G, V[u], u)
             /\ V[u] = W[u]
  <2>1. W[u] = V[u] /\ V[u] \in Views /\ \A i \in DOMAIN G : ~Concerns(G[i], u)
    BY <1>2 DEF TurnsAre, Concerns
  <2>2. ASSUME u \notin S PROVE Fresh(F \o G, V[u], u)
    BY <1>1, <2>1, <2>2, FreshThen DEF TurnsAre
  <2>3. ASSUME V[u].ended PROVE Open(F \o G, V[u], u) \/ Final(F \o G, V[u], u)
    <3>1. Open(F, V[u], u) \/ Final(F, V[u], u)
      BY <2>3 DEF TurnsAre
    <3> QED
      BY <1>1, <2>1, <2>3, <3>1, OpenThen, FinalThen
  <2> QED
    BY <2>1, <2>2, <2>3
<1>3. Null \notin Turns
  BY TurnsFacts, LifecycleAssumption
<1>4. ASSUME NEW u \in Turns
      PROVE  /\ u \notin S => Fresh(F \o G, W[u], u)
             /\ u = b => Open(F \o G, W[u], u) /\ ~W[u].ended
             /\ W[u].ended => Open(F \o G, W[u], u) \/ Final(F \o G, W[u], u)
  <2>1. CASE u = a
    BY <2>1, <1>1
  <2>2. CASE u # a
    BY <2>2, <1>2, <1>3
  <2> QED
    BY <2>1, <2>2
<1> QED
  BY <1>1, <1>4 DEF TurnsAre

\* What the ingestion makes of the first event in flight.
Ingested(e, V, W, t) ==
    /\ W[t].said = V[t].said /\ W[t].ended = V[t].ended
    /\ \/ e.type = "delta" /\ W[t].pending /\ IsTaken(V[t], W[t], e.text)
       \/ /\ e.type = "item.completed" /\ W[t].modes = V[t].modes
          /\ ~W[t].pending /\ W[t].finished
          /\ W[t].text = V[t].text \o Finish(V[t], e.text)
       \/ /\ e.type = "turn.completed" /\ W[t].modes = V[t].modes /\ ~W[t].pending
          /\ V[t].pending => W[t].finished /\ W[t].text = V[t].text \o V[t].buffer
          /\ ~V[t].pending => W[t] = V[t]

\* Nothing of the text follows the end.
LEMMA FinalSignal ==
    ASSUME NEW F \in Seq(Signals), F # <<>>, NEW v, NEW t, Final(F, v, t), Head(F).turn = t
    PROVE  Head(F).type \notin {"delta", "item.completed"}
<1>1. Head(F) = F[1] /\ 1 \in DOMAIN F
  BY TailFacts
<1> QED
  BY <1>1 DEF Final, Tells, Carries

LEMMA FreshSignal ==
    ASSUME NEW F \in Seq(Signals), F # <<>>, NEW v, NEW t, Fresh(F, v, t)
    PROVE  ~Concerns(Head(F), t)
<1>1. Head(F) = F[1] /\ 1 \in DOMAIN F
  BY TailFacts
<1> QED
  BY <1>1 DEF Fresh

\* The first event in flight is processed, for all turns.
LEMMA IngestedTurns ==
    ASSUME NEW F, NEW V, NEW W, NEW S, NEW a, TurnsAre(F, V, S, a), F # <<>>,
           W \in [Turns -> Views],
           \A t \in Turns : IF Concerns(Head(F), t) THEN Ingested(Head(F), V, W, t) ELSE W[t] = V[t]
    PROVE  TurnsAre(Tail(F), W, S, a)
<1>1. F \in Seq(Signals) /\ Tail(F) \in Seq(Signals) /\ V \in [Turns -> Views]
      /\ (a # Null => a \in S /\ a \in Turns)
  <2>1. F \in Seq(Signals) /\ V \in [Turns -> Views] /\ (a # Null => a \in S /\ a \in Turns)
    BY DEF TurnsAre
  <2> QED
    BY <2>1, TailFacts
<1> DEFINE e == Head(F)
<1> HIDE DEF e
<1>2. ASSUME NEW t \in Turns
      PROVE  /\ t \notin S => Fresh(Tail(F), W[t], t)
             /\ t = a => Open(Tail(F), W[t], t) /\ ~W[t].ended
             /\ W[t].ended => Open(Tail(F), W[t], t) \/ Final(Tail(F), W[t], t)
  <2>1. V[t] \in Views /\ W[t] \in Views
    BY <1>1
  <2>2. CASE ~Concerns(e, t)
    <3>1. W[t] = V[t] /\ ~Concerns(Head(F), t)
      BY <2>2 DEF e
    <3>2. t \notin S => Fresh(Tail(F), W[t], t)
      BY <3>1, <1>1, FreshAfter DEF TurnsAre
    <3>3. t = a => Open(Tail(F), W[t], t) /\ ~W[t].ended
      BY <3>1, <2>1, <1>1, OpenAfter DEF TurnsAre
    <3>4. ASSUME W[t].ended PROVE Open(Tail(F), W[t], t) \/ Final(Tail(F), W[t], t)
      <4>1. Open(F, V[t], t) \/ Final(F, V[t], t)
        BY <3>1, <3>4 DEF TurnsAre
      <4> QED
        BY <3>1, <4>1, <2>1, <1>1, OpenAfter, FinalAfter
    <3> QED
      BY <3>2, <3>3, <3>4
  <2>3. CASE Concerns(e, t)
    <3>1. Ingested(e, V, W, t) /\ e.turn = t
      BY <2>3 DEF e, Concerns
    <3>2. t \in S
      BY <2>3, <1>1, FreshSignal, SMTT(30) DEF TurnsAre, e
    <3>3. W[t].ended = V[t].ended /\ W[t].said = V[t].said
      BY <3>1 DEF Ingested
    <3>4. CASE e.type = "delta"
      <4>1. W[t].pending /\ IsTaken(V[t], W[t], e.text)
        BY <3>1, <3>4 DEF Ingested
      <4>2. ASSUME Open(F, V[t], t) PROVE Open(Tail(F), W[t], t)
        BY <4>1, <4>2, <1>1, <2>1, <3>1, <3>3, <3>4, DeltaOpen DEF e
      <4>3. ~Final(F, V[t], t)
        BY <1>1, <3>1, <3>4, FinalSignal DEF e
      <4> QED
        BY <3>2, <3>3, <4>2, <4>3 DEF TurnsAre
    <3>5. CASE e.type = "item.completed"
      <4>1. /\ W[t].modes = V[t].modes /\ ~W[t].pending /\ W[t].finished
            /\ W[t].text = V[t].text \o Finish(V[t], e.text)
        BY <3>1, <3>5 DEF Ingested
      <4>2. ASSUME Open(F, V[t], t) PROVE Final(Tail(F), W[t], t)
        BY <4>1, <4>2, <1>1, <2>1, <3>1, <3>3, <3>5, ItemFinal DEF e
      <4>3. ~Final(F, V[t], t)
        BY <1>1, <3>1, <3>5, FinalSignal DEF e
      <4>4. t # a
        BY <3>3, <4>2 DEF TurnsAre, Final
      <4> QED
        BY <3>2, <3>3, <4>2, <4>3, <4>4 DEF TurnsAre
    <3>6. CASE e.type = "turn.completed"
      <4>1. /\ W[t].modes = V[t].modes /\ ~W[t].pending
            /\ V[t].pending => W[t].finished /\ W[t].text = V[t].text \o V[t].buffer
            /\ ~V[t].pending => W[t] = V[t]
        BY <3>1, <3>6 DEF Ingested
      <4>2. ASSUME Open(F, V[t], t) PROVE Final(Tail(F), W[t], t)
        BY <4>1, <4>2, <1>1, <2>1, <3>1, <3>3, <3>6, EndFinal DEF e
      <4>3. ASSUME Final(F, V[t], t) PROVE Final(Tail(F), W[t], t)
        <5>1. W[t] = V[t]
          BY <4>1, <4>3 DEF Final
        <5> QED
          BY <5>1, <4>3, <1>1, FinalAfter
      <4>4. t # a
        BY <3>3, <4>2 DEF TurnsAre, Final
      <4> QED
        BY <3>2, <3>3, <4>2, <4>3, <4>4 DEF TurnsAre
    <3> QED
      BY <2>3, <3>4, <3>5, <3>6 DEF Concerns
  <2> QED
    BY <2>2, <2>3
<1> QED
  BY <1>1, <1>2 DEF TurnsAre

-----------------------------------------------------------------------------
(* The messages of the thread *)

MessageIds == (0 - Cardinality(Turns))..Cardinality(Turns)
Talk == [id : MessageIds, role : {"user", "assistant"}, text : Seq(Nat),
         turnId : Turns \cup {Null}, streaming : BOOLEAN]

\* A message for each id; those of the assistant have their turn's.
IsTalk(q) ==
    /\ q \in Seq(Talk)
    /\ \A i, j \in DOMAIN q : q[i].id = q[j].id => i = j
    /\ \A i \in DOMAIN q : q[i].id \in Turns <=> q[i].role = "assistant"

Users(q) == {q[i] : i \in {j \in DOMAIN q : q[j].role = "user"}}
TextOf(q, t) == IF t \in Ids(q) THEN q[CHOOSE i \in DOMAIN q : q[i].id = t].text ELSE <<>>
IsClosed(q, t) == \E i \in DOMAIN q : q[i].id = t /\ ~q[i].streaming

\* The limit of the messages that a thread keeps.
Room == 2 * Cardinality(Turns) < MAX_THREAD_MESSAGES

\* The limit cuts off no message.
LEMMA TalkFits ==
    ASSUME Room, NEW q, IsTalk(q)
    PROVE  KeepLast(q, MAX_THREAD_MESSAGES) = q
<1> DEFINE D == 1..Len(q)
           f == [i \in D |-> q[i].id]
<1>1. q \in Seq(Talk) /\ Len(q) \in Nat /\ DOMAIN q = D
  BY DEF IsTalk
<1>2. f \in Injection(D, MessageIds)
  <2>1. \A i \in D : f[i] \in MessageIds
    <3>1. \A i \in D : q[i] \in Talk
      BY <1>1
    <3> QED
      BY <3>1 DEF Talk
  <2>2. \A i, j \in D : f[i] = f[j] => i = j
    BY <1>1 DEF IsTalk
  <2> QED
    BY <2>1, <2>2 DEF Injection, IsInjective
<1>3. Cardinality(Turns) \in Nat
  BY TurnsFacts
<1>4. IsFiniteSet(MessageIds) /\ Cardinality(MessageIds) = 2 * Cardinality(Turns) + 1
  BY <1>3, FS_Interval, SMTT(30) DEF MessageIds
<1>5. IsFiniteSet(D) /\ Cardinality(D) = Len(q)
  BY <1>1, FS_Interval, SMTT(30)
<1>6. Cardinality(D) <= Cardinality(MessageIds)
  BY <1>2, <1>4, <1>5, FS_Injection
<1>7. MAX_THREAD_MESSAGES \in Nat
  BY CapsAssumption
<1>8. Len(q) <= MAX_THREAD_MESSAGES
  BY <1>1, <1>3, <1>4, <1>5, <1>6, <1>7 DEF Room
<1> QED
  BY <1>8 DEF KeepLast

\* Ids are distinct, so the message with an id is the one that is found.
LEMMA TextAt ==
    ASSUME NEW q, IsTalk(q), NEW i \in DOMAIN q
    PROVE  TextOf(q, q[i].id) = q[i].text /\ (IsClosed(q, q[i].id) <=> ~q[i].streaming)
<1>1. q[i].id \in Ids(q) /\ \A j \in DOMAIN q : q[j].id = q[i].id <=> j = i
  BY DEF IsTalk, Ids
<1>2. (CHOOSE j \in DOMAIN q : q[j].id = q[i].id) = i
  BY <1>1
<1>3. TextOf(q, q[i].id) = q[i].text
  BY <1>1, <1>2 DEF TextOf
<1>4. IsClosed(q, q[i].id) <=> ~q[i].streaming
  BY <1>1 DEF IsClosed
<1> QED
  BY <1>3, <1>4

LEMMA TextNowhere == \A q, t : t \notin Ids(q) => TextOf(q, t) = <<>> /\ ~IsClosed(q, t)
BY DEF TextOf, IsClosed, Ids

LEMMA TextTyped ==
    ASSUME NEW q, IsTalk(q), NEW t
    PROVE  TextOf(q, t) \in Seq(Nat)
<1>1. CASE t \in Ids(q)
  <2>1. PICK i \in DOMAIN q : q[i].id = t
    BY <1>1 DEF Ids
  <2>2. q[i] \in Talk
    BY <2>1 DEF IsTalk
  <2> QED
    BY <2>1, <2>2, TextAt DEF Talk
<1>2. CASE t \notin Ids(q)
  <2>1. TextOf(q, t) = <<>>
    BY <1>2, TextNowhere
  <2>2. <<>> \in Seq(Nat)
    OBVIOUS
  <2> QED
    BY <2>1, <2>2
<1> QED
  BY <1>1, <1>2

\* Two arrays of messages have the same to say of an id.
LEMMA TextSame ==
    ASSUME NEW q, NEW r, IsTalk(q), IsTalk(r), NEW t,
           \A i \in DOMAIN q : q[i].id = t => i \in DOMAIN r /\ r[i] = q[i],
           \A i \in DOMAIN r : r[i].id = t => i \in DOMAIN q /\ r[i] = q[i]
    PROVE  TextOf(r, t) = TextOf(q, t) /\ (IsClosed(r, t) <=> IsClosed(q, t))
<1>1. CASE t \in Ids(q)
  <2>1. PICK i \in DOMAIN q : q[i].id = t
    BY <1>1 DEF Ids
  <2>2. i \in DOMAIN r /\ r[i] = q[i]
    BY <2>1
  <2> QED
    BY <2>1, <2>2, TextAt
<1>2. CASE t \notin Ids(q)
  <2>1. t \notin Ids(r)
    BY <1>2 DEF Ids
  <2> QED
    BY <1>2, <2>1, TextNowhere
<1> QED
  BY <1>1, <1>2

\* What becomes of the messages when the one of an id gets a text.
Gets(q, r, id, text, streaming) ==
    /\ IsTalk(r)
    /\ \A t \in MessageIds : t # id =>
          TextOf(r, t) = TextOf(q, t) /\ (IsClosed(r, t) <=> IsClosed(q, t))
    /\ TextOf(r, id) = text
    /\ IsClosed(r, id) <=> ~streaming

\* A message is replaced.
LEMMA MessageMerged ==
    ASSUME NEW q, IsTalk(q), NEW k \in DOMAIN q, NEW m \in Talk, m.id = q[k].id, m.role = q[k].role
    PROVE  LET r == [i \in DOMAIN q |-> IF i = k THEN m ELSE q[i]]
           IN  /\ Gets(q, r, m.id, m.text, m.streaming)
               /\ m.role = "assistant" => Users(r) = Users(q)
<1> DEFINE r == [i \in DOMAIN q |-> IF i = k THEN m ELSE q[i]]
<1>1. q \in Seq(Talk) /\ DOMAIN q = 1..Len(q) /\ Len(q) \in Nat /\ \A i \in DOMAIN q : q[i] \in Talk
  BY DEF IsTalk
<1>2. /\ r \in Seq(Talk) /\ DOMAIN r = DOMAIN q /\ r[k] = m
      /\ \A i \in DOMAIN q : (i # k => r[i] = q[i]) /\ r[i].id = q[i].id /\ r[i].role = q[i].role
  BY <1>1
<1> HIDE DEF r
<1>3. IsTalk(r)
  BY <1>2 DEF IsTalk
<1>4. ASSUME NEW t \in MessageIds, t # m.id
      PROVE  TextOf(r, t) = TextOf(q, t) /\ (IsClosed(r, t) <=> IsClosed(q, t))
  <2>1. \A i \in DOMAIN q : q[i].id = t => i \in DOMAIN r /\ r[i] = q[i]
    BY <1>2, <1>4
  <2>2. \A i \in DOMAIN r : r[i].id = t => i \in DOMAIN q /\ r[i] = q[i]
    BY <1>2, <1>4
  <2> QED
    BY <2>1, <2>2, <1>3, TextSame
<1>5. TextOf(r, m.id) = m.text /\ (IsClosed(r, m.id) <=> ~m.streaming)
  BY <1>2, <1>3, TextAt
<1>6. ASSUME m.role = "assistant" PROVE Users(r) = Users(q)
  <2>1. \A i \in DOMAIN q : q[i].role = "user" <=> r[i].role = "user"
    BY <1>2
  <2>2. \A i \in DOMAIN q : q[i].role = "user" => r[i] = q[i]
    BY <1>2, <1>6
  <2> QED
    BY <1>2, <2>1, <2>2 DEF Users
<1> QED
  BY <1>3, <1>4, <1>5, <1>6 DEF Gets, r

\* A message is appended.
LEMMA MessageNew ==
    ASSUME NEW q, IsTalk(q), NEW m \in Talk, m.id \notin Ids(q), m.id \in Turns <=> m.role = "assistant"
    PROVE  LET r == Append(q, m)
           IN  /\ Gets(q, r, m.id, m.text, m.streaming)
               /\ m.role = "assistant" => Users(r) = Users(q)
               /\ m.role = "user" => Users(r) = Users(q) \cup {m}
<1> DEFINE r == Append(q, m)
           k == Len(q) + 1
<1>1. q \in Seq(Talk) /\ DOMAIN q = 1..Len(q) /\ Len(q) \in Nat /\ \A i \in DOMAIN q : q[i] \in Talk
  BY DEF IsTalk
<1>2. /\ r \in Seq(Talk) /\ DOMAIN r = DOMAIN q \cup {k} /\ r[k] = m /\ k \notin DOMAIN q
      /\ \A i \in DOMAIN q : r[i] = q[i]
  BY <1>1
<1>3. \A i \in DOMAIN q : q[i].id # m.id
  BY DEF Ids
<1> HIDE DEF r, k
<1>4. IsTalk(r)
  BY <1>2, <1>3 DEF IsTalk
<1>5. ASSUME NEW t \in MessageIds, t # m.id
      PROVE  TextOf(r, t) = TextOf(q, t) /\ (IsClosed(r, t) <=> IsClosed(q, t))
  <2>1. \A i \in DOMAIN q : q[i].id = t => i \in DOMAIN r /\ r[i] = q[i]
    BY <1>2, <1>5
  <2>2. \A i \in DOMAIN r : r[i].id = t => i \in DOMAIN q /\ r[i] = q[i]
    BY <1>2, <1>5
  <2> QED
    BY <2>1, <2>2, <1>4, TextSame
<1>6. TextOf(r, m.id) = m.text /\ (IsClosed(r, m.id) <=> ~m.streaming)
  BY <1>2, <1>4, TextAt
<1>7. /\ m.role = "assistant" => Users(r) = Users(q)
      /\ m.role = "user" => Users(r) = Users(q) \cup {m}
  BY <1>2 DEF Users
<1> QED
  BY <1>4, <1>5, <1>6, <1>7 DEF Gets, r

\* A message of the assistant: a piece of its text, or its end.
LEMMA SaidTalk ==
    ASSUME Room, NEW q, IsTalk(q), NEW e, NEW t \in Turns, NEW text \in Seq(Nat),
           NEW streaming \in BOOLEAN, IsSaid(e, t, text, streaming), streaming \/ text = <<>>
    PROVE  LET r == MessagesAfterSent(q, e)
           IN  Gets(q, r, t, TextOf(q, t) \o text, streaming) /\ Users(r) = Users(q)
<1>1. /\ e.role = "assistant" /\ e.messageId = t /\ e.turnId = t /\ e.text = text
      /\ e.streaming = streaming
  BY DEF IsSaid
<1>2. t \in MessageIds
  BY LifecycleAssumption, TurnsFacts DEF MessageIds
<1>3. q \in Seq(Talk) /\ \A i \in DOMAIN q : q[i] \in Talk
  BY DEF IsTalk
<1>4. CASE t \in Ids(q)
  <2>1. PICK k \in DOMAIN q : q[k].id = t
    BY <1>4 DEF Ids
  <2> DEFINE m == [q[k] EXCEPT !.text = MergedText(@, e), !.streaming = e.streaming, !.turnId = e.turnId]
             p == [i \in DOMAIN q |-> IF i = k THEN m ELSE q[i]]
  <2>2. q[k] \in Talk /\ q[k].role = "assistant" /\ TextOf(q, t) = q[k].text
    BY <2>1, <1>3, TextAt DEF IsTalk
  <2>3. MergedText(q[k].text, e) = q[k].text \o text /\ q[k].text \o text \in Seq(Nat)
    <3>1. q[k].text \in Seq(Nat)
      BY <2>2 DEF Talk
    <3>2. q[k].text \o <<>> = q[k].text /\ q[k].text \o text \in Seq(Nat)
      BY <3>1, ConcatEmptySeq, ConcatTypes
    <3> QED
      BY <3>2, <1>1 DEF MergedText
  <2>4. /\ m \in Talk /\ m.id = t /\ m.role = "assistant" /\ m.text = q[k].text \o text
        /\ m.streaming = streaming
    BY <2>1, <2>2, <2>3, <1>1 DEF Talk
  <2>5. p = [i \in DOMAIN q |-> IF q[i].id = e.messageId
               THEN [q[i] EXCEPT !.text = MergedText(@, e), !.streaming = e.streaming, !.turnId = e.turnId]
               ELSE q[i]]
    <3>1. \A i \in DOMAIN q : q[i].id = e.messageId <=> i = k
      BY <2>1, <1>1 DEF IsTalk
    <3> QED
      BY <3>1
  <2>6. MessagesAfterSent(q, e) = KeepLast(p, MAX_THREAD_MESSAGES)
    BY <2>5, <1>1, <1>4 DEF MessagesAfterSent
  <2> HIDE DEF m
  <2>9. m.id = q[k].id /\ m.role = q[k].role
    BY <2>1, <2>2, <2>4
  <2>10. Gets(q, p, m.id, m.text, m.streaming) /\ Users(p) = Users(q)
    BY <2>1, <2>4, <2>9, MessageMerged
  <2> HIDE DEF p
  <2>7. Gets(q, p, t, TextOf(q, t) \o text, streaming) /\ Users(p) = Users(q)
    BY <2>10, <2>2, <2>4
  <2>8. KeepLast(p, MAX_THREAD_MESSAGES) = p
    BY <2>7, TalkFits DEF Gets
  <2> QED
    BY <2>6, <2>7, <2>8
<1>5. CASE t \notin Ids(q)
  <2> DEFINE m == [id |-> e.messageId, role |-> e.role, text |-> e.text,
                   turnId |-> e.turnId, streaming |-> e.streaming]
             p == Append(q, m)
  <2>1. /\ m \in Talk /\ m.id = t /\ m.role = "assistant" /\ m.text = text
        /\ m.streaming = streaming
    BY <1>1, <1>2 DEF Talk
  <2>2. MessagesAfterSent(q, e) = KeepLast(p, MAX_THREAD_MESSAGES)
    BY <1>1, <1>5 DEF MessagesAfterSent
  <2> HIDE DEF m
  <2>3. TextOf(q, t) \o text = text
    BY <1>5, TextNowhere, ConcatEmptySeq
  <2>4. Gets(q, p, t, TextOf(q, t) \o text, streaming) /\ Users(p) = Users(q)
    BY <1>5, <2>1, <2>3, MessageNew
  <2> HIDE DEF p
  <2>5. KeepLast(p, MAX_THREAD_MESSAGES) = p
    BY <2>4, TalkFits DEF Gets
  <2> QED
    BY <2>2, <2>4, <2>5
<1> QED
  BY <1>4, <1>5

\* A message of the user.
LEMMA AskedTalk ==
    ASSUME Room, NEW q, IsTalk(q), NEW e, NEW t \in Turns, IsAsked(e, -t), -t \notin Ids(q)
    PROVE  LET r == MessagesAfterSent(q, e)
           IN  /\ IsTalk(r)
               /\ \A u \in Turns : TextOf(r, u) = TextOf(q, u) /\ (IsClosed(r, u) <=> IsClosed(q, u))
               /\ \E m : Users(r) = Users(q) \cup {m} /\ m.id = -t /\ m \notin Users(q)
<1> DEFINE m == [id |-> e.messageId, role |-> e.role, text |-> e.text,
                 turnId |-> e.turnId, streaming |-> e.streaming]
           p == Append(q, m)
<1>1. /\ e.role = "user" /\ e.messageId = -t /\ e.turnId = Null /\ e.text = <<>>
      /\ e.streaming = FALSE
  BY DEF IsAsked
<1>2. -t \in MessageIds /\ -t \notin Turns /\ \A u \in Turns : u \in MessageIds /\ u # -t
  BY LifecycleAssumption, TurnsFacts DEF MessageIds
<1>3. m \in Talk /\ m.id = -t /\ m.role = "user"
  <2>1. <<>> \in Seq(Nat) /\ FALSE \in BOOLEAN
    OBVIOUS
  <2>2. /\ e.messageId \in MessageIds /\ e.role \in {"user", "assistant"} /\ e.text \in Seq(Nat)
        /\ e.turnId \in Turns \cup {Null} /\ e.streaming \in BOOLEAN
    BY <1>1, <1>2, <2>1
  <2>3. m \in Talk
    BY <2>2 DEF Talk
  <2>4. m.id = -t /\ m.role = "user"
    BY <1>1
  <2> QED
    BY <2>3, <2>4
<1>4. MessagesAfterSent(q, e) = KeepLast(p, MAX_THREAD_MESSAGES)
  BY <1>1 DEF MessagesAfterSent
<1> HIDE DEF m
<1>5. Gets(q, p, -t, m.text, m.streaming) /\ Users(p) = Users(q) \cup {m}
  BY <1>2, <1>3, MessageNew
<1>6. m \notin Users(q)
  BY <1>3 DEF Users, Ids
<1> HIDE DEF p
<1>7. KeepLast(p, MAX_THREAD_MESSAGES) = p
  BY <1>5, TalkFits DEF Gets
<1>8. \A u \in Turns : TextOf(p, u) = TextOf(q, u) /\ (IsClosed(p, u) <=> IsClosed(q, u))
  BY <1>2, <1>5 DEF Gets
<1> QED
  BY <1>3, <1>4, <1>5, <1>6, <1>7, <1>8 DEF Gets

-----------------------------------------------------------------------------
(* What each command does to the messages *)

MessagesOf(m) == m.threads[T].messages
IsTold(m) == IsModel(m) /\ IsTalk(MessagesOf(m))

\* The text of one turn changes, no other and no message of the user.
Told(m, n, t, text) ==
    /\ IsTold(n)
    /\ Users(MessagesOf(n)) = Users(MessagesOf(m))
    /\ \A u \in Turns : u # t =>
          /\ TextOf(MessagesOf(n), u) = TextOf(MessagesOf(m), u)
          /\ IsClosed(MessagesOf(n), u) <=> IsClosed(MessagesOf(m), u)
    /\ TextOf(MessagesOf(n), t) = text

SameMessages(m, n) == IsModel(n) /\ MessagesOf(n) = MessagesOf(m)

\* A change of other fields of the thread leaves the messages.
LEMMA PatchSame ==
    ASSUME NEW m, IsModel(m), NEW n, IsModel(n), NEW p, "messages" \notin DOMAIN p,
           n.threads[T] = Patch(m.threads[T], p)
    PROVE  SameMessages(m, n)
<1>1. ThreadFields \subseteq DOMAIN m.threads[T]
  BY DEF IsModel
<1> QED
  BY <1>1, PatchKeeps DEF SameMessages, MessagesOf

LEMMA SetSessionSame ==
    ASSUME NEW m, IsModel(m), NEW status, NEW turn, NEW mode
    PROVE  SameMessages(m, SetSession(m, status, turn, mode))
<1> DEFINE n == SetSession(m, status, turn, mode)
           p == SessionPatch(m.threads[T], [status |-> status, activeTurnId |-> turn, runtimeMode |-> mode])
<1>1. IsModel(n) /\ n.threads[T] = Patch(m.threads[T], p)
  BY SetSessionFacts
<1>2. "messages" \notin DOMAIN p
  BY DEF SessionPatch
<1> HIDE DEF n, p
<1>3. SameMessages(m, n)
  BY <1>1, <1>2, PatchSame
<1> QED
  BY <1>3 DEF n

LEMMA SetModeSame ==
    ASSUME NEW m, IsModel(m), NEW mode
    PROVE  SameMessages(m, dispatch(m, [type |-> "thread.runtime-mode.set", runtimeMode |-> mode]))
<1> DEFINE n == dispatch(m, [type |-> "thread.runtime-mode.set", runtimeMode |-> mode])
           p == [runtimeMode |-> mode]
<1>1. IsModel(n) /\ n.threads[T] = Patch(m.threads[T], p)
  BY SetModeFacts
<1>2. "messages" \notin DOMAIN p
  OBVIOUS
<1> HIDE DEF n, p
<1>3. SameMessages(m, n)
  BY <1>1, <1>2, PatchSame
<1> QED
  BY <1>3 DEF n

LEMMA FailureSame ==
    ASSUME NEW m, IsModel(m), NEW id
    PROVE  SameMessages(m, FailureActivity(m, id))
<1> DEFINE n == FailureActivity(m, id)
           p == [activities |-> KeepLast(UpsertById(m.threads[T].activities, [id |-> id, turnId |-> Null]),
                                         MAX_THREAD_ACTIVITIES)]
<1>1. IsModel(n) /\ n.threads[T] = Patch(m.threads[T], p)
  BY FailureFacts
<1>2. "messages" \notin DOMAIN p
  OBVIOUS
<1> HIDE DEF n, p
<1>3. SameMessages(m, n)
  BY <1>1, <1>2, PatchSame
<1> QED
  BY <1>3 DEF n

LEMMA ToldSame ==
    ASSUME NEW m, NEW n, IsTold(m), SameMessages(m, n), NEW t
    PROVE  Told(m, n, t, TextOf(MessagesOf(m), t))
BY DEF Told, SameMessages, IsTold

\* A message as it is after an event of the assistant's.
LEMMA SaidTold ==
    ASSUME Room, NEW m, IsTold(m), NEW n, IsModel(n), NEW t \in Turns, NEW text \in Seq(Nat),
           NEW streaming \in BOOLEAN, streaming \/ text = <<>>,
           \E e : /\ IsSaid(e, t, text, streaming)
                  /\ n.threads[T] = Patch(m.threads[T],
                        [messages |-> MessagesAfterSent(m.threads[T].messages, e)])
    PROVE  /\ Told(m, n, t, TextOf(MessagesOf(m), t) \o text)
           /\ IsClosed(MessagesOf(n), t) <=> ~streaming
<1>1. PICK e : /\ IsSaid(e, t, text, streaming)
               /\ n.threads[T] = Patch(m.threads[T],
                     [messages |-> MessagesAfterSent(m.threads[T].messages, e)])
  OBVIOUS
<1> DEFINE r == MessagesAfterSent(m.threads[T].messages, e)
           p == [messages |-> r]
<1>2. "messages" \in DOMAIN p /\ p.messages = r
  OBVIOUS
<1>3. ThreadFields \subseteq DOMAIN m.threads[T]
  BY DEF IsTold, IsModel
<1>4. Gets(MessagesOf(m), r, t, TextOf(MessagesOf(m), t) \o text, streaming)
      /\ Users(r) = Users(MessagesOf(m))
  BY <1>1, SaidTalk DEF IsTold, MessagesOf
<1> HIDE DEF p, r
<1>5. MessagesOf(n) = r
  BY <1>1, <1>2, <1>3, PatchKeeps DEF MessagesOf, p, r
<1>6. Turns \subseteq MessageIds
  BY LifecycleAssumption, TurnsFacts DEF MessageIds
<1> QED
  BY <1>4, <1>5, <1>6 DEF Gets, Told, IsTold

\* thread.message.assistant.delta appends its text to the message of the turn.
LEMMA DeltaTold ==
    ASSUME Room, NEW m, IsTold(m), NEW t \in Turns, NEW text \in Seq(Nat)
    PROVE  Told(m, AssistantDelta(m, t, text), t, TextOf(MessagesOf(m), t) \o text)
<1> DEFINE n == AssistantDelta(m, t, text)
<1>1. CASE text = <<>>
  <2>1. TextOf(MessagesOf(m), t) \in Seq(Nat)
    BY TextTyped DEF IsTold
  <2>2. TextOf(MessagesOf(m), t) \o text = TextOf(MessagesOf(m), t)
    BY <1>1, <2>1, ConcatEmptySeq
  <2>3. n = m /\ SameMessages(m, m)
    BY <1>1 DEF AssistantDelta, SameMessages, IsTold
  <2> QED
    BY <2>2, <2>3, ToldSame
<1>2. CASE text # <<>>
  <2>1. /\ IsModel(n)
        /\ \E e : /\ IsSaid(e, t, text, TRUE)
                  /\ n.threads[T] = Patch(m.threads[T],
                        [messages |-> MessagesAfterSent(m.threads[T].messages, e)])
    BY <1>2, DeltaFacts DEF IsTold
  <2> HIDE DEF n
  <2>2. Told(m, n, t, TextOf(MessagesOf(m), t) \o text)
    BY <2>1, SaidTold
  <2> QED
    BY <2>2 DEF n
<1> QED
  BY <1>1, <1>2

\* thread.message.assistant.complete closes the message of the turn.
LEMMA CompleteTold ==
    ASSUME Room, NEW m, IsTold(m), NEW t \in Turns
    PROVE  /\ Told(m, Complete(m, t), t, TextOf(MessagesOf(m), t))
           /\ IsClosed(MessagesOf(Complete(m, t)), t)
<1> DEFINE n == Complete(m, t)
<1>1. /\ IsModel(n)
      /\ \E e : /\ IsSaid(e, t, <<>>, FALSE)
                /\ n.threads[T] = Patch(m.threads[T],
                      [messages |-> MessagesAfterSent(m.threads[T].messages, e)])
  BY CompleteFacts DEF IsTold
<1> HIDE DEF n
<1>2. <<>> \in Seq(Nat)
  OBVIOUS
<1>3. /\ Told(m, n, t, TextOf(MessagesOf(m), t) \o <<>>)
      /\ IsClosed(MessagesOf(n), t) <=> ~FALSE
  BY <1>1, <1>2, SaidTold
<1>4. TextOf(MessagesOf(m), t) \o <<>> = TextOf(MessagesOf(m), t)
  BY TextTyped, ConcatEmptySeq DEF IsTold
<1> QED
  BY <1>3, <1>4 DEF n

\* finalizeAssistantMessage flushes the buffer, or the fallback, and closes the message.
LEMMA FinalizeTold ==
    ASSUME Room, NEW m, IsTold(m), NEW t \in Turns, NEW text \in Seq(Nat),
           buffered \in [Turns -> Seq(Nat)]
    PROVE  /\ Told(m, finalize(m, t, text), t,
                   TextOf(MessagesOf(m), t) \o (IF buffered[t] # <<>> THEN buffered[t] ELSE text))
           /\ IsClosed(MessagesOf(finalize(m, t, text)), t)
<1> DEFINE said0 == IF buffered[t] # <<>> THEN buffered[t] ELSE text
           n == AssistantDelta(m, t, said0)
           o == Complete(n, t)
<1>1. finalize(m, t, text) = o
  BY DEF finalize, Complete
<1>2. said0 \in Seq(Nat)
  OBVIOUS
<1> HIDE DEF said0
<1>3. Told(m, n, t, TextOf(MessagesOf(m), t) \o said0)
  BY <1>2, DeltaTold
<1> HIDE DEF n
<1>4. Told(n, o, t, TextOf(MessagesOf(n), t)) /\ IsClosed(MessagesOf(o), t)
  BY <1>3, CompleteTold DEF Told
<1> HIDE DEF o
<1>5. Told(m, o, t, TextOf(MessagesOf(m), t) \o said0)
  BY <1>3, <1>4 DEF Told
<1> QED
  BY <1>1, <1>4, <1>5 DEF said0

-----------------------------------------------------------------------------
(* What is in flight and what is seen of the turns, in a state *)

InFlight(i, q) == IF i = Nothing THEN q ELSE <<i.event>> \o q

ViewsOf(sd, q, bf, mo, un, en) ==
    [t \in Turns |->
        [said |-> sd[t], text |-> TextOf(q, t), buffer |-> bf[t], modes |-> mo[t],
         pending |-> t \in un, ended |-> t \in en, finished |-> IsClosed(q, t)]]

Flight == InFlight(ingestion, runtimeQueue)
Said == MessagesOf(readModel)
Viewed == ViewsOf(said, Said, buffered, modesOf, unfinished, ended)

TypeInv ==
    /\ runtimeQueue \in Seq(Signals) /\ (ingestion # Nothing => ingestion.event \in Signals)
    /\ said \in [Turns -> Seq(Nat)] /\ buffered \in [Turns -> Seq(Nat)]
    /\ modesOf \in [Turns -> SUBSET DeliveryModes]
    /\ unfinished \subseteq Turns /\ ended \subseteq Turns
    /\ modeQueue \in Seq(DeliveryModes) /\ deliveryMode \in DeliveryModes

MapInv ==
    /\ adapter.turn \in Turns \cup {Null}
    /\ adapter.turn # Null => adapter.active

Starts(q) == {i \in DOMAIN q : q[i].type = "turn-start"}

\* The user's messages are numbered, and each is on its way once.
Ordered(u, s, r, c) ==
    /\ IsFiniteSet(u)
    /\ \A m \in u : -m.id \in 1..Cardinality(u)
    /\ s \cup InHand(r) \cup Queued(c) \subseteq 1..Cardinality(u)
    /\ s \cap InHand(r) = {} /\ s \cap Queued(c) = {} /\ InHand(r) \cap Queued(c) = {}
    /\ \A i, j \in Starts(c) : c[i].turn = c[j].turn => i = j

OrderInv == Ordered(Users(Said), sent, reactor, commandQueue)

TextInv ==
    /\ SInv
    /\ reactor.phase # "closed" =>
          /\ TypeInv /\ MapInv /\ IsTold(readModel) /\ OrderInv
          /\ TurnsAre(Flight, Viewed, sent, adapter.turn)

-----------------------------------------------------------------------------

\* What is emitted goes behind all that is in flight.
LEMMA FlightThen ==
    ASSUME NEW q \in Seq(Signals), NEW G \in Seq(Signals), NEW i, i # Nothing => i.event \in Signals
    PROVE  InFlight(i, q \o G) = InFlight(i, q) \o G
<1>1. CASE i = Nothing
  BY <1>1 DEF InFlight
<1>2. CASE i # Nothing
  <2>1. i.event \in Signals /\ <<i.event>> \in Seq(Signals)
    BY <1>2
  <2>2. <<i.event>> \o (q \o G) = (<<i.event>> \o q) \o G
    BY <2>1, ConcatAssociative
  <2> QED
    BY <1>2, <2>2 DEF InFlight
<1> QED
  BY <1>1, <1>2

LEMMA ViewFacts ==
    ASSUME NEW sd, NEW q, NEW bf, NEW mo, NEW un, NEW en, NEW t \in Turns
    PROVE  LET v == ViewsOf(sd, q, bf, mo, un, en)[t]
           IN  /\ v.said = sd[t] /\ v.text = TextOf(q, t) /\ v.buffer = bf[t] /\ v.modes = mo[t]
               /\ v.pending = (t \in un) /\ v.ended = (t \in en) /\ v.finished = IsClosed(q, t)
BY DEF ViewsOf

LEMMA ViewsTyped ==
    ASSUME NEW sd \in [Turns -> Seq(Nat)], NEW q, IsTalk(q), NEW bf \in [Turns -> Seq(Nat)],
           NEW mo \in [Turns -> SUBSET DeliveryModes], NEW un, NEW en
    PROVE  ViewsOf(sd, q, bf, mo, un, en) \in [Turns -> Views]
<1> SUFFICES ASSUME NEW t \in Turns
             PROVE  [said |-> sd[t], text |-> TextOf(q, t), buffer |-> bf[t], modes |-> mo[t],
                     pending |-> t \in un, ended |-> t \in en, finished |-> IsClosed(q, t)] \in Views
  BY DEF ViewsOf
<1>1. sd[t] \in Seq(Nat) /\ bf[t] \in Seq(Nat) /\ mo[t] \in SUBSET DeliveryModes
      /\ TextOf(q, t) \in Seq(Nat)
  BY TextTyped
<1>2. (t \in un) \in BOOLEAN /\ (t \in en) \in BOOLEAN /\ IsClosed(q, t) \in BOOLEAN
  BY DEF IsClosed
<1> QED
  BY <1>1, <1>2 DEF Views

\* Both arrays of messages say the same of every turn.
Says(q, r) ==
    /\ IsTalk(r)
    /\ \A u \in Turns : TextOf(r, u) = TextOf(q, u) /\ (IsClosed(r, u) <=> IsClosed(q, u))

LEMMA ViewsSame ==
    ASSUME NEW sd, NEW q, NEW r, NEW bf, NEW mo, NEW un, NEW en, Says(q, r)
    PROVE  ViewsOf(sd, r, bf, mo, un, en) = ViewsOf(sd, q, bf, mo, un, en)
<1>1. \A t \in Turns : TextOf(r, t) = TextOf(q, t) /\ IsClosed(r, t) = IsClosed(q, t)
  BY DEF Says, IsClosed
<1> QED
  BY <1>1 DEF ViewsOf

LEMMA SaysItself == \A q : IsTalk(q) => Says(q, q)
BY DEF Says

\* Events that concern no turn.
Quiet == {e \in Signals : e.type \notin {"delta", "item.completed", "turn.completed"}}

LEMMA QuietEvents ==
    /\ Event("starting", Null) \in Quiet
    /\ Event("ready", Null) \in Quiet
    /\ Event("session.exited", Null) \in Quiet
    /\ \A t \in Turns : Event("turn.started", t) \in Quiet
    /\ \A t \in Turns : Event("turn.completed", t) \in Signals
    /\ Quiet \subseteq Signals
    /\ \A t \in Turns : Event("turn.completed", t).type = "turn.completed"
                        /\ Event("turn.completed", t).turn = t
    /\ Event("starting", Null).type = "starting"
    /\ Event("ready", Null).type = "ready"
    /\ \A t \in Turns : Event("turn.started", t).type = "turn.started"
<1>1. <<>> \in Seq(Nat)
  OBVIOUS
<1> QED
  BY <1>1 DEF Event, Quiet, Signals

\* A quiet step.
LEMMA QuietStep ==
    ASSUME NEW F, NEW V, NEW S, NEW a, NEW b, NEW G \in Seq(Quiet), TurnsAre(F, V, S, a),
           b = Null \/ (b = a /\ \A i \in DOMAIN G : G[i].type # "session.exited")
    PROVE  TurnsAre(F \o G, V, S, b)
<1>1. G \in Seq(Signals)
  BY DEF Quiet
<1>2. \A t \in Turns : \A i \in DOMAIN G : ~Concerns(G[i], t)
  BY DEF Quiet, Concerns
<1> QED
  BY <1>1, <1>2, QuietTurns

\* The turn that runs ends.
LEMMA EndedTurns ==
    ASSUME NEW F, NEW S, NEW u \in Turns, NEW sd, NEW q, NEW bf, NEW mo, NEW un, NEW en,
           TurnsAre(F, ViewsOf(sd, q, bf, mo, un, en), S, u),
           ViewsOf(sd, q, bf, mo, un, en \cup {u}) \in [Turns -> Views]
    PROVE  TurnsAre(F \o <<Event("turn.completed", u)>>, ViewsOf(sd, q, bf, mo, un, en \cup {u}), S, Null)
<1> DEFINE V == ViewsOf(sd, q, bf, mo, un, en)
           W == ViewsOf(sd, q, bf, mo, un, en \cup {u})
           e == Event("turn.completed", u)
<1>1. e \in Signals /\ e.type = "turn.completed" /\ e.turn = u
  BY QuietEvents
<1>2. /\ SameText(V[u], W[u]) /\ W[u].said = V[u].said
  BY ViewFacts DEF SameText
<1>3. W[u].ended
  <2>1. W[u].ended = (u \in en \cup {u})
    BY ViewFacts
  <2>2. u \in en \cup {u}
    OBVIOUS
  <2> HIDE DEF W
  <2> QED
    BY <2>1, <2>2, Zenon
<1>4. \A t \in Turns : t # u => W[t] = V[t]
  <2> SUFFICES ASSUME NEW t \in Turns, t # u PROVE W[t] = V[t]
    OBVIOUS
  <2>1. (t \in en \cup {u}) = (t \in en)
    OBVIOUS
  <2> QED
    BY <2>1 DEF ViewsOf
<1>5. u # Null
  BY TurnsFacts, LifecycleAssumption
<1> HIDE DEF V, W, e
<1>6. TurnsAre(F, V, S, u) /\ W \in [Turns -> Views]
  BY DEF V, W
<1>7. F \in Seq(Signals) /\ V[u] \in Views /\ W[u] \in Views /\ Open(F, V[u], u) /\ ~V[u].ended
  BY <1>6 DEF TurnsAre
<1>8. Open(Append(F, e), W[u], u) /\ Append(F, e) = F \o <<e>> /\ <<e>> \in Seq(Signals)
  BY <1>1, <1>2, <1>3, <1>7, EndOpen, AppendIs
<1>9. \A i \in DOMAIN <<e>> : <<e>>[i].turn = u /\ <<e>>[i].type # "session.exited"
  BY <1>1
<1> DEFINE G == <<e>>
<1>10. G \in Seq(Signals) /\ Open(F \o G, W[u], u)
  BY <1>8
<1> HIDE DEF G
<1>11. TurnsAre(F \o G, W, S, Null)
  BY <1>4, <1>5, <1>6, <1>9, <1>10, OtherTurns DEF G
<1> QED
  BY <1>11 DEF W, G, e

-----------------------------------------------------------------------------
(* The order of the turn starts *)

\* A request is queued.
LEMMA QueuedThen ==
    ASSUME NEW c \in Seq(Requests), NEW e \in Requests
    PROVE  /\ Append(c, e) \in Seq(Requests)
           /\ DOMAIN Append(c, e) = DOMAIN c \cup {Len(c) + 1} /\ Len(c) + 1 \notin DOMAIN c
           /\ Append(c, e)[Len(c) + 1] = e /\ \A i \in DOMAIN c : Append(c, e)[i] = c[i]
           /\ Queued(Append(c, e)) = Queued(c) \cup {x \in {e.turn} : e.type = "turn-start"}
<1> DEFINE d == Append(c, e)
           n == Len(c) + 1
<1>1. /\ d \in Seq(Requests) /\ DOMAIN d = DOMAIN c \cup {n} /\ n \notin DOMAIN c
      /\ d[n] = e /\ \A i \in DOMAIN c : d[i] = c[i]
  OBVIOUS
<1> HIDE DEF d, n
<1>2. Queued(d) = Queued(c) \cup {x \in {e.turn} : e.type = "turn-start"}
  BY <1>1 DEF Queued
<1> QED
  BY <1>1, <1>2 DEF d, n

\* The user starts a turn: its id is new.
LEMMA OrderAsked ==
    ASSUME NEW u, NEW s, NEW r, NEW c \in Seq(Requests), Ordered(u, s, r, c),
           NEW t \in Turns, t = 1 + Cardinality(u), NEW m, m \notin u, m.id = -t
    PROVE  Ordered(u \cup {m}, s, r, Append(c, [type |-> "turn-start", turn |-> t]))
<1> DEFINE e == [type |-> "turn-start", turn |-> t]
           d == Append(c, e)
           n == Cardinality(u)
<1>1. e \in Requests /\ e.type = "turn-start" /\ e.turn = t
  BY DEF Requests
<1> HIDE DEF e
<1>2. /\ DOMAIN d = DOMAIN c \cup {Len(c) + 1} /\ Len(c) + 1 \notin DOMAIN c
      /\ d[Len(c) + 1] = e /\ \A i \in DOMAIN c : d[i] = c[i]
      /\ Queued(d) = Queued(c) \cup {t}
  BY <1>1, QueuedThen
<1> HIDE DEF d
<1>3. n \in Nat /\ IsFiniteSet(u \cup {m}) /\ Cardinality(u \cup {m}) = n + 1
  BY FS_AddElement, FS_CardinalityType DEF Ordered
<1>4. -m.id = t
  BY TurnsFacts
<1>5. \A x \in u \cup {m} : -x.id \in 1..(n + 1)
  <2>1. \A x \in u : -x.id \in 1..n
    BY DEF Ordered
  <2>2. t \in 1..(n + 1) /\ 1..n \subseteq 1..(n + 1)
    BY <1>3
  <2> QED
    BY <2>1, <2>2, <1>4
<1>6. /\ s \cup InHand(r) \cup Queued(c) \subseteq 1..n
      /\ s \cap InHand(r) = {} /\ s \cap Queued(c) = {} /\ InHand(r) \cap Queued(c) = {}
      /\ \A i, j \in Starts(c) : c[i].turn = c[j].turn => i = j
  BY DEF Ordered
<1>7. t \notin 1..n /\ t \in 1..(n + 1) /\ 1..n \subseteq 1..(n + 1)
  BY <1>3
<1> HIDE DEF n
<1>8. \A i, j \in Starts(d) : d[i].turn = d[j].turn => i = j
  <2>1. \A i \in Starts(d) : i = Len(c) + 1 \/ (i \in Starts(c) /\ d[i] = c[i])
    BY <1>2 DEF Starts
  <2>2. \A i \in Starts(c) : c[i].turn \in Queued(c)
    BY DEF Starts, Queued
  <2>3. \A i \in Starts(c) : c[i].turn # t
    BY <2>2, <1>6, <1>7
  <2> QED
    BY <2>1, <2>3, <1>2, <1>1, <1>6
<1>9. /\ s \cup InHand(r) \cup Queued(d) \subseteq 1..(n + 1)
      /\ s \cap InHand(r) = {} /\ s \cap Queued(d) = {} /\ InHand(r) \cap Queued(d) = {}
  BY <1>2, <1>6, <1>7
<1> QED
  BY <1>3, <1>5, <1>8, <1>9 DEF Ordered, d, e, n

\* The user asks for something else.
LEMMA OrderOther ==
    ASSUME NEW u, NEW s, NEW r, NEW c \in Seq(Requests), Ordered(u, s, r, c),
           NEW e \in Requests, e.type # "turn-start"
    PROVE  Ordered(u, s, r, Append(c, e))
<1> DEFINE d == Append(c, e)
<1>1. /\ DOMAIN d = DOMAIN c \cup {Len(c) + 1} /\ Len(c) + 1 \notin DOMAIN c
      /\ d[Len(c) + 1] = e /\ \A i \in DOMAIN c : d[i] = c[i]
      /\ Queued(d) = Queued(c)
  <2>1. {x \in {e.turn} : e.type = "turn-start"} = {}
    OBVIOUS
  <2>2. /\ DOMAIN d = DOMAIN c \cup {Len(c) + 1} /\ Len(c) + 1 \notin DOMAIN c
        /\ d[Len(c) + 1] = e /\ \A i \in DOMAIN c : d[i] = c[i]
        /\ Queued(d) = Queued(c) \cup {x \in {e.turn} : e.type = "turn-start"}
    BY QueuedThen
  <2> HIDE DEF d
  <2> QED
    BY <2>1, <2>2
<1> HIDE DEF d
<1>2. \A i \in Starts(d) : i \in Starts(c) /\ d[i] = c[i]
  BY <1>1 DEF Starts
<1>3. \A i, j \in Starts(d) : d[i].turn = d[j].turn => i = j
  BY <1>2 DEF Ordered
<1> QED
  BY <1>1, <1>3 DEF Ordered, d

\* The reactor takes the head of its queue.
LEMMA OrderTaken ==
    ASSUME NEW u, NEW s, NEW r, NEW p, NEW c \in Seq(Requests), c # <<>>, Ordered(u, s, r, c),
           InHand(p) \subseteq {x \in {Head(c).turn} : Head(c).type = "turn-start"}
    PROVE  Ordered(u, s, p, Tail(c))
<1> DEFINE d == Tail(c)
<1>1. /\ DOMAIN d = 1..(Len(c) - 1) /\ DOMAIN c = 1..Len(c) /\ Len(c) \in Nat /\ Head(c) = c[1]
      /\ 1 \in DOMAIN c /\ \A i \in DOMAIN d : d[i] = c[i + 1] /\ i + 1 \in DOMAIN c /\ i + 1 # 1 /\ i \in Nat
  OBVIOUS
<1> HIDE DEF d
<1>2. \A i \in Starts(d) : i + 1 \in Starts(c) /\ d[i] = c[i + 1] /\ i + 1 # 1 /\ i \in Nat
  BY <1>1 DEF Starts
<1>3. \A i, j \in Starts(c) : c[i].turn = c[j].turn => i = j
  BY DEF Ordered
<1>4. \A i, j \in Starts(d) : d[i].turn = d[j].turn => i = j
  <2> SUFFICES ASSUME NEW i \in Starts(d), NEW j \in Starts(d), d[i].turn = d[j].turn PROVE i = j
    OBVIOUS
  <2>1. i + 1 = j + 1
    BY <1>2, <1>3
  <2> QED
    BY <2>1, <1>2
<1>5. Queued(d) = {d[i].turn : i \in Starts(d)} /\ Queued(c) = {c[i].turn : i \in Starts(c)}
  BY DEF Queued, Starts
<1>6. Queued(d) \subseteq Queued(c)
  BY <1>5, <1>2
<1>7. Head(c).type = "turn-start" => Head(c).turn \in Queued(c) /\ Head(c).turn \notin Queued(d)
  <2> SUFFICES ASSUME Head(c).type = "turn-start"
               PROVE  Head(c).turn \in Queued(c) /\ Head(c).turn \notin Queued(d)
    OBVIOUS
  <2>1. 1 \in Starts(c) /\ Head(c) = c[1]
    BY <1>1 DEF Starts
  <2>2. \A i \in Starts(d) : d[i].turn # c[1].turn
    BY <2>1, <1>2, <1>3
  <2> QED
    BY <2>1, <2>2, <1>5
<1>8. /\ s \cup Queued(c) \subseteq 1..Cardinality(u) /\ s \cap Queued(c) = {}
      /\ IsFiniteSet(u) /\ \A m \in u : -m.id \in 1..Cardinality(u)
  BY DEF Ordered
<1>9. InHand(p) \subseteq Queued(c) /\ InHand(p) \cap Queued(d) = {}
  BY <1>7
<1>10. /\ s \cup InHand(p) \cup Queued(d) \subseteq 1..Cardinality(u)
       /\ s \cap InHand(p) = {} /\ s \cap Queued(d) = {}
  BY <1>6, <1>8, <1>9
<1> QED
  BY <1>4, <1>8, <1>9, <1>10 DEF Ordered, d

\* The reactor goes on with its run, or drops it.
LEMMA OrderRun ==
    ASSUME NEW u, NEW s, NEW r, NEW p, NEW c, Ordered(u, s, r, c), InHand(p) \subseteq InHand(r)
    PROVE  Ordered(u, s, p, c)
BY DEF Ordered

\* The reactor sends the turn in its hands.
LEMMA OrderSent ==
    ASSUME NEW u, NEW s, NEW r, NEW p, NEW c, Ordered(u, s, r, c), InHand(p) = {},
           NEW t \in InHand(r)
    PROVE  Ordered(u, s \cup {t}, p, c)
BY DEF Ordered

-----------------------------------------------------------------------------
(* The steps *)

LEMMA NotAskedYet ==
    ASSUME NEW q, IsTalk(q), NEW s, NEW r, NEW c, Ordered(Users(q), s, r, c),
           NEW t \in Turns, t = 1 + Cardinality(Users(q))
    PROVE  -t \notin Ids(q)
<1> SUFFICES ASSUME NEW i \in DOMAIN q, q[i].id = -t PROVE FALSE
  BY DEF Ids
<1>1. t \in Nat /\ t > 0 /\ \A x \in Turns : x \in Nat
  BY TurnsFacts
<1>2. q[i] \in Talk
  BY DEF IsTalk
<1>3. -t \notin Turns
  BY <1>1
<1>4. q[i].role = "user"
  BY <1>2, <1>3 DEF IsTalk, Talk
<1>5. q[i] \in Users(q)
  BY <1>4 DEF Users
<1>6. -q[i].id \in 1..Cardinality(Users(q))
  BY <1>5 DEF Ordered
<1>7. -q[i].id = t
  BY <1>1
<1>8. Cardinality(Users(q)) \in Nat
  BY FS_CardinalityType DEF Ordered
<1> QED
  BY <1>6, <1>7, <1>8

\* What the user's turn start does to the messages.
Asks(m, n, t) ==
    /\ IsTold(n) /\ Says(MessagesOf(m), MessagesOf(n))
    /\ \E x : /\ Users(MessagesOf(n)) = Users(MessagesOf(m)) \cup {x}
              /\ x.id = -t /\ x \notin Users(MessagesOf(m))

\* thread.turn.start adds a message of the user and touches no other.
LEMMA AskTold ==
    ASSUME Room, NEW m, IsTold(m), NEW t \in Turns, -t \notin Ids(MessagesOf(m))
    PROVE  Asks(m, AskTurn(m, -t), t)
<1> DEFINE n == AskTurn(m, -t)
           q == MessagesOf(m)
<1>1. /\ IsModel(n)
      /\ \E e : /\ IsAsked(e, -t)
                /\ n.threads[T] = Patch(m.threads[T], [messages |-> MessagesAfterSent(m.threads[T].messages, e)])
  BY TurnStartFacts DEF IsTold
<1> HIDE DEF n
<1>2. PICK e : /\ IsAsked(e, -t)
               /\ n.threads[T] = Patch(m.threads[T], [messages |-> MessagesAfterSent(m.threads[T].messages, e)])
  BY <1>1
<1> DEFINE r == MessagesAfterSent(m.threads[T].messages, e)
           p == [messages |-> r]
<1>3. "messages" \in DOMAIN p /\ p.messages = r
  OBVIOUS
<1>4. r = MessagesAfterSent(q, e)
  BY DEF MessagesOf
<1>5. ThreadFields \subseteq DOMAIN m.threads[T] /\ IsTalk(q)
  BY DEF IsTold, IsModel
<1> HIDE DEF p, r, q
<1>6. /\ IsTalk(r)
      /\ \A u \in Turns : TextOf(r, u) = TextOf(q, u) /\ (IsClosed(r, u) <=> IsClosed(q, u))
      /\ \E x : Users(r) = Users(q) \cup {x} /\ x.id = -t /\ x \notin Users(q)
  BY <1>2, <1>4, <1>5, AskedTalk DEF q
<1>7. MessagesOf(n) = r
  BY <1>2, <1>3, <1>5, PatchKeeps DEF MessagesOf, p, r
<1> QED
  BY <1>1, <1>6, <1>7 DEF Asks, IsTold, Says, n, q

\* A command that leaves the messages as they are.
LEMMA SameSays ==
    ASSUME NEW m, NEW n, IsTold(m), SameMessages(m, n)
    PROVE  IsTold(n) /\ Says(MessagesOf(m), MessagesOf(n)) /\ Users(MessagesOf(n)) = Users(MessagesOf(m))
BY SaysItself DEF IsTold, SameMessages

LEMMA TalkStays ==
    ASSUME IsTold(readModel), NEW n, n = readModel \/ SameMessages(readModel, n)
    PROVE  IsTold(n) /\ Says(Said, MessagesOf(n)) /\ Users(MessagesOf(n)) = Users(Said)
BY SameSays, SaysItself DEF Said, IsTold

NextText ==
    /\ TypeInv' /\ MapInv' /\ IsTold(readModel') /\ OrderInv'
    /\ TurnsAre(Flight', Viewed', sent', adapter.turn')

\* What the user asks for leaves what the provider and the ingestion are at.
LEMMA UserStep ==
    ASSUME Room, TextInv, User, Running
    PROVE  NextText
<1>1. /\ SInv /\ TypeInv /\ MapInv /\ IsTold(readModel) /\ OrderInv /\ QInv
      /\ TurnsAre(Flight, Viewed, sent, adapter.turn) /\ IsTalk(Said)
      /\ commandQueue \in Seq(Requests)
  BY DEF TextInv, SInv, QInv, Running, IsTold, Said
<1>2. UNCHANGED <<reactor, runtimeQueue, ingestion, buffers, provider>>
  BY DEF User, StartTurn, SetRuntimeMode, Request, UserUnchanged
<1>3. /\ UNCHANGED <<reactor, runtimeQueue, ingestion, sent, adapter, said, ended>>
      /\ UNCHANGED <<deliveryMode, buffered, unfinished, modesOf>>
  BY <1>2 DEF buffers, provider
<1>4. MapInv' /\ Flight' = Flight
  BY <1>1, <1>3 DEF MapInv, Flight
<1>5. TypeInv'
  <2>1. modeQueue' \in Seq(DeliveryModes)
    <3>1. modeQueue' = modeQueue \/ \E mode \in DeliveryModes : modeQueue' = Append(modeQueue, mode)
      BY DEF User, StartTurn, SetRuntimeMode, Request
    <3>2. modeQueue \in Seq(DeliveryModes)
      BY <1>1 DEF TypeInv
    <3>3. ASSUME NEW mode \in DeliveryModes, modeQueue' = Append(modeQueue, mode)
          PROVE  modeQueue' \in Seq(DeliveryModes)
      BY <3>2, <3>3
    <3> QED
      BY <3>1, <3>2, <3>3
  <2> QED
    BY <2>1, <1>1, <1>3 DEF TypeInv
<1>6. ASSUME Says(Said, Said') PROVE Viewed' = Viewed
  BY <1>3, <1>6, ViewsSame DEF Viewed
<1>7. CASE \E t \in Turns, mode \in DeliveryModes : StartTurn(t, mode)
  <2>1. PICK t \in Turns, mode \in DeliveryModes : StartTurn(t, mode)
    BY <1>7
  <2>2. /\ readModel' = AskTurn(readModel, -t)
        /\ commandQueue' = Append(commandQueue, [type |-> "turn-start", turn |-> t])
        /\ t = 1 + Cardinality(Users(Said))
    <3>1. {m \in ToSet(Thread.messages) : m.role = "user"} = Users(Said)
      BY DEF Users, ToSet, Said, MessagesOf, Thread
    <3> QED
      BY <3>1, <2>1 DEF StartTurn, AskTurn
  <2>3. -t \notin Ids(Said)
    BY <1>1, <2>2, NotAskedYet DEF OrderInv
  <2>4. Asks(readModel, readModel', t)
    BY <1>1, <2>2, <2>3, AskTold DEF Said
  <2>5. IsTold(readModel') /\ Says(Said, Said')
    BY <2>4 DEF Asks, Said
  <2>6. PICK x : Users(Said') = Users(Said) \cup {x} /\ x.id = -t /\ x \notin Users(Said)
    BY <2>4 DEF Asks, Said
  <2>7. OrderInv'
    <3>1. Ordered(Users(Said) \cup {x}, sent, reactor, Append(commandQueue, [type |-> "turn-start", turn |-> t]))
      BY <1>1, <2>2, <2>6, OrderAsked DEF OrderInv
    <3> QED
      BY <3>1, <2>2, <2>6, <1>3 DEF OrderInv
  <2> QED
    BY <1>1, <1>3, <1>4, <1>5, <1>6, <2>5, <2>7 DEF NextText
<1>8. CASE (\E mode \in ToSet(RuntimeModes) : SetRuntimeMode(mode)) \/ Request("interrupt") \/ Request("stop")
  <2>1. readModel' = readModel \/ SameMessages(readModel, readModel')
    BY <1>1, <1>8, SetModeSame DEF SetRuntimeMode, Request, IsTold
  <2>2. IsTold(readModel') /\ Says(Said, Said') /\ Users(Said') = Users(Said)
    BY <1>1, <2>1, TalkStays DEF Said
  <2>3. \E e \in Requests : commandQueue' = Append(commandQueue, e) /\ e.type # "turn-start"
    <3>1. \A y \in {"runtime-mode-set", "interrupt", "stop"} :
             [type |-> y] \in Requests /\ [type |-> y].type # "turn-start"
      BY DEF Requests
    <3> QED
      BY <3>1, <1>8 DEF SetRuntimeMode, Request
  <2>4. OrderInv'
    BY <1>1, <1>3, <2>2, <2>3, OrderOther DEF OrderInv
  <2> QED
    BY <1>1, <1>3, <1>4, <1>5, <1>6, <2>2, <2>4 DEF NextText
<1> QED
  BY <1>7, <1>8 DEF User

\* A step that leaves the views as they are, and may let a session end or start.
LEMMA QuietNext ==
    ASSUME TextInv, Running, UNCHANGED <<modeQueue, ingestion, buffers, said, ended, sent>>,
           readModel' = readModel \/ SameMessages(readModel, readModel'),
           NEW G \in Seq(Quiet), runtimeQueue' = runtimeQueue \o G,
           \/ adapter'.turn = Null
           \/ adapter'.turn = adapter.turn /\ \A i \in DOMAIN G : G[i].type # "session.exited"
    PROVE  /\ TypeInv' /\ IsTold(readModel') /\ Users(Said') = Users(Said)
           /\ TurnsAre(Flight', Viewed', sent', adapter.turn')
<1>1. /\ TypeInv /\ IsTold(readModel) /\ TurnsAre(Flight, Viewed, sent, adapter.turn)
  BY DEF TextInv, Running
<1>2. /\ UNCHANGED <<ingestion, sent, said, ended, modeQueue>>
      /\ UNCHANGED <<deliveryMode, buffered, unfinished, modesOf>>
  BY DEF buffers
<1>3. IsTold(readModel') /\ Says(Said, Said') /\ Users(Said') = Users(Said)
  BY <1>1, TalkStays DEF Said
<1>4. G \in Seq(Signals) /\ runtimeQueue \in Seq(Signals) /\ (ingestion # Nothing => ingestion.event \in Signals)
  BY <1>1 DEF Quiet, TypeInv
<1>5. runtimeQueue' \in Seq(Signals)
  BY <1>4, ConcatFacts
<1>6. TypeInv'
  BY <1>1, <1>2, <1>5 DEF TypeInv
<1>7. Flight' = Flight \o G
  BY <1>2, <1>4, FlightThen DEF Flight
<1>8. Viewed' = Viewed
  BY <1>2, <1>3, ViewsSame DEF Viewed
<1>9. TurnsAre(Flight \o G, Viewed, sent, adapter'.turn)
  BY <1>1, QuietStep
<1> QED
  BY <1>2, <1>3, <1>6, <1>7, <1>8, <1>9

LEMMA NoEvents ==
    ASSUME TypeInv
    PROVE  <<>> \in Seq(Quiet) /\ runtimeQueue = runtimeQueue \o <<>> /\ DOMAIN <<>> = {}
BY ConcatEmptySeq DEF TypeInv

LEMMA AppendFacts ==
    ASSUME NEW S, NEW F \in Seq(S), NEW e \in S
    PROVE  /\ Append(F, e) \in Seq(S) /\ Len(Append(F, e)) = Len(F) + 1
           /\ Append(F, e)[Len(F) + 1] = e
           /\ \A i \in 1..Len(F) : Append(F, e)[i] = F[i]
OBVIOUS

LEMMA PairIs ==
    ASSUME NEW S, NEW x \in S, NEW y \in S
    PROVE  <<x>> \o <<y>> = <<x, y>>
<1> DEFINE p == <<x>>
           r == <<x, y>>
           f == Append(p, y)
<1>1. p \in Seq(S) /\ Len(p) = 1 /\ p[1] = x
  OBVIOUS
<1>2. r \in Seq(S) /\ Len(r) = 2 /\ r[1] = x /\ r[2] = y
  OBVIOUS
<1> HIDE DEF p, r
<1>3. f \in Seq(S) /\ Len(f) = 2 /\ f[1] = x /\ f[2] = y
  <2>1. /\ f \in Seq(S) /\ Len(f) = Len(p) + 1 /\ f[Len(p) + 1] = y
        /\ \A i \in 1..Len(p) : f[i] = p[i]
    BY <1>1, AppendFacts, SMTT(30)
  <2> HIDE DEF f
  <2> QED
    BY <1>1, <2>1
<1> HIDE DEF f
<1>4. f = r
  BY <1>2, <1>3
<1>5. f = p \o <<y>>
  BY <1>1, AppendIs DEF f
<1> QED
  BY <1>4, <1>5 DEF p, r

Joined(q, G, E, B) == q \o G \o E \o B

LEMMA FlightThree ==
    ASSUME NEW q \in Seq(Signals), NEW G \in Seq(Signals), NEW E \in Seq(Signals),
           NEW B \in Seq(Signals), NEW i, i # Nothing => i.event \in Signals
    PROVE  InFlight(i, Joined(q, G, E, B)) = Joined(InFlight(i, q), G, E, B)
<1>1. q \o G \in Seq(Signals) /\ q \o G \o E \in Seq(Signals) /\ q \o G \o E \o B \in Seq(Signals)
  OBVIOUS
<1>2. InFlight(i, q \o G) = InFlight(i, q) \o G
  BY FlightThen
<1> DEFINE r == q \o G
           s == r \o E
<1>3. r \in Seq(Signals) /\ s \in Seq(Signals)
  BY <1>1
<1> HIDE DEF r, s
<1>4. InFlight(i, r \o E) = InFlight(i, r) \o E
  BY <1>3, FlightThen
<1>5. InFlight(i, s \o B) = InFlight(i, s) \o B
  BY <1>3, FlightThen
<1> QED
  BY <1>2, <1>4, <1>5 DEF r, s, Joined

\* The Codex adapter stops a session, and starts one, or fails to.
LEMMA CodexFacts ==
    ASSUME Codex
    PROVE  /\ \A turn : EndedBy(turn) = ended
           /\ \A a : StopEvents(a) \in Seq(Quiet)
           /\ \A events \in FailedStarts : events \in Seq(Quiet)
           /\ \A a : /\ startSession(a).events \in Seq(Quiet)
                     /\ startSession(a).ended = ended
                     /\ startSession(a).adapter.active = TRUE
                     /\ startSession(a).adapter.turn = Null
                     /\ {"active", "alive", "turn", "orphans"} \subseteq DOMAIN startSession(a).adapter
                     /\ ~a.active => \A i \in DOMAIN startSession(a).events :
                                        startSession(a).events[i].type # "session.exited"
<1>2. \A turn : EndedBy(turn) = ended
  BY DEF EndedBy
<1> DEFINE x == Event("session.exited", Null)
           s == Event("starting", Null)
           r == Event("ready", Null)
<1>3. x \in Quiet /\ s \in Quiet /\ r \in Quiet /\ s.type # "session.exited" /\ r.type # "session.exited"
  BY QuietEvents
<1> HIDE DEF x, s, r
<1>4. /\ <<x>> \in Seq(Quiet) /\ <<s>> \in Seq(Quiet) /\ <<r>> \in Seq(Quiet) /\ <<>> \in Seq(Quiet)
      /\ <<s, r>> \in Seq(Quiet) /\ <<s, x>> \in Seq(Quiet)
      /\ \A i \in DOMAIN <<s, r>> : <<s, r>>[i].type # "session.exited"
  BY <1>3
<1>5. <<>> \o <<x>> = <<x>> /\ <<s>> \o <<r>> = <<s, r>> /\ <<>> \o <<s, r>> = <<s, r>>
  BY <1>3, <1>4, PairIs, ConcatEmptySeq
<1>6. /\ \A a : StopEvents(a) = <<x>>
      /\ StartEvents = <<s, r>>
      /\ FailedStarts = {<<>>, <<s, x>>}
  BY <1>5 DEF StopEvents, StartEvents, FailedStarts, x, s, r
<1>7. \A a : startSession(a).events = IF StopsReplaced(a) THEN <<x>> \o <<s, r>> ELSE <<s, r>>
  BY <1>5, <1>6 DEF startSession
<1>8. \A a : /\ startSession(a).ended = ended
             /\ startSession(a).adapter.active = TRUE
             /\ startSession(a).adapter.turn = Null
             /\ {"active", "alive", "turn", "orphans"} \subseteq DOMAIN startSession(a).adapter
  BY <1>2 DEF startSession
<1>9. \A a : ~a.active => ~StopsReplaced(a)
  BY DEF StopsReplaced
<1>10. <<x>> \o <<s, r>> \in Seq(Quiet)
  BY <1>4, ConcatFacts
<1>11. \A a : StopEvents(a) \in Seq(Quiet) /\ startSession(a).events \in Seq(Quiet)
  BY <1>4, <1>6, <1>7, <1>10
<1>12. \A a : ~a.active => \A i \in DOMAIN startSession(a).events : startSession(a).events[i].type # "session.exited"
  BY <1>4, <1>7, <1>9
<1>13. \A events \in FailedStarts : events \in Seq(Quiet)
  BY <1>4, <1>6
<1> QED
  BY <1>2, <1>8, <1>11, <1>12, <1>13

\* A turn is sent into the one that runs.
LEMMA SteeredTurn ==
    ASSUME NEW F, NEW V, NEW S, NEW a, NEW t, TurnsAre(F, V, S, a)
    PROVE  TurnsAre(F, V, S \cup {t}, a)
BY DEF TurnsAre

\* A turn is sent: into the one that runs, or else it is the next one; a session that is
\* not in the map is started again.
LEMMA SendStep ==
    ASSUME Codex, TextInv, Send, Running, QInv
    PROVE  NextText
<1> DEFINE t == reactor.event.turn
           u == adapter.turn
           a == IF adapter.active THEN adapter ELSE startSession(adapter).adapter
           G == IF adapter.active THEN <<>> ELSE startSession(adapter).events
           E == Completed(a.turn, "turn.completed")
           b == Event("turn.started", t)
<1>1. /\ TypeInv /\ MapInv /\ IsTold(readModel) /\ OrderInv
      /\ TurnsAre(Flight, Viewed, sent, u)
      /\ {"active", "alive", "turn", "orphans"} \subseteq DOMAIN adapter
  BY DEF TextInv, SInv, SessionsAreMapped, Running
<1>2. /\ UNCHANGED <<modeQueue, ingestion, buffers, said, readModel, commandQueue>>
      /\ reactor.phase = "send" /\ reactor' = Idle
  BY DEF Send, ReactorUnchanged
<1>3. UNCHANGED <<deliveryMode, buffered, unfinished, modesOf>>
  BY <1>2 DEF buffers
<1>4. /\ IsRun(reactor) /\ reactor.event.type = "turn-start" /\ t \in Turns
  <2>1. IsRun(reactor)
    BY <1>2, PhaseFacts DEF Phases
  <2> QED
    BY <1>2, <2>1, RequestTypes DEF IsRun
<1>5. t \in InHand(reactor) /\ InHand(reactor') = {}
  BY <1>2, <1>4 DEF InHand, Idle
<1>6. t \notin sent
  BY <1>1, <1>5 DEF OrderInv, Ordered
<1>7. OrderInv' <=> Ordered(Users(Said), sent', reactor', commandQueue)
  BY <1>2 DEF OrderInv, Said
<1>8. /\ SendTurn(a, G, ended, t)
      /\ sent' = sent \cup {t}
  BY CodexFacts DEF Send, SendTurn
<1>9. /\ {"active", "alive", "turn", "orphans"} \subseteq DOMAIN a
      /\ a.active /\ G \in Seq(Quiet) /\ a.turn \in Turns \cup {Null}
      /\ (a.turn = u \/ a.turn = Null)
      /\ \A i \in DOMAIN G : G[i].type # "session.exited"
  <2>1. CASE adapter.active
    <3>1. a = adapter /\ G = <<>>
      BY <2>1
    <3> HIDE DEF a, G
    <3> QED
      BY <3>1, <1>1, <2>1, NoEvents DEF MapInv
  <2>2. CASE ~adapter.active
    <3>1. a = startSession(adapter).adapter /\ G = startSession(adapter).events
      BY <2>2
    <3> HIDE DEF a, G
    <3> QED
      BY <3>1, <2>2, CodexFacts
  <2> QED
    BY <2>1, <2>2
<1> HIDE DEF a, G
<1>10. a.turn = u
  <2>1. u # Null => adapter.active
    BY <1>1 DEF MapInv
  <2>2. adapter.active => a = adapter
    BY DEF a
  <2> QED
    BY <1>9, <2>1, <2>2
<1>11. OrderInv'
  BY <1>1, <1>5, <1>7, <1>8, <1>2, OrderSent DEF OrderInv
<1>12. CASE u # Null
  <2>1. a.turn # Null /\ a = adapter /\ G = <<>>
    BY <1>1, <1>10, <1>12 DEF MapInv, a, G
  <2>2. UNCHANGED <<adapter, ended>> /\ runtimeQueue' = runtimeQueue
    BY <1>1, <1>8, <2>1, NoEvents DEF SendTurn
  <2>3. TypeInv' /\ MapInv' /\ Flight' = Flight /\ Viewed' = Viewed
    BY <1>1, <1>2, <1>3, <2>2 DEF TypeInv, MapInv, Flight, Viewed, Said
  <2>4. TurnsAre(Flight', Viewed', sent', adapter.turn')
    BY <1>1, <1>8, <2>2, <2>3, SteeredTurn
  <2> QED
    BY <1>1, <1>2, <1>11, <2>3, <2>4 DEF NextText
<1>13. CASE u = Null
  <2>1. /\ adapter' = [a EXCEPT !.turn = t]
        /\ runtimeQueue' = runtimeQueue \o G \o E \o <<b>>
        /\ UNCHANGED ended /\ E = <<>>
    BY <1>8, <1>10, <1>13 DEF SendTurn, Completed
  <2>2. MapInv'
    BY <1>4, <1>9, <2>1 DEF MapInv
  <2>3. b \in Quiet /\ b.type # "session.exited" /\ <<b>> \in Seq(Quiet) /\ <<b>> \in Seq(Signals)
    BY <1>4, QuietEvents
  <2>4. /\ G \in Seq(Signals) /\ E \in Seq(Signals) /\ runtimeQueue \in Seq(Signals)
        /\ (ingestion # Nothing => ingestion.event \in Signals)
    <3> HIDE DEF E
    <3>1. Quiet \subseteq Signals /\ E \in Seq(Signals)
      BY <2>1 DEF Quiet
    <3>2. G \in Seq(Signals)
      <4> HIDE DEF Quiet
      <4> QED
        BY <1>9, <3>1
    <3> QED
      BY <1>1, <3>1, <3>2 DEF TypeInv
  <2>5. TypeInv'
    <3>1. runtimeQueue' \in Seq(Signals)
      BY <2>1, <2>3, <2>4, ConcatFacts
    <3> QED
      BY <3>1, <1>1, <1>2, <1>3, <2>1 DEF TypeInv
  <2> HIDE DEF b, E
  <2>6. Flight' = Flight \o G \o E \o <<b>>
    <3> DEFINE B == <<b>>
    <3>1. B \in Seq(Signals)
      BY <2>3
    <3> HIDE DEF B
    <3>2. InFlight(ingestion, Joined(runtimeQueue, G, E, B)) = Joined(InFlight(ingestion, runtimeQueue), G, E, B)
      BY <3>1, <2>4, FlightThree
    <3> QED
      BY <3>2, <1>2, <2>1 DEF Flight, B, Joined
  <2>7. Viewed' = Viewed
    BY <1>2, <1>3, <2>1 DEF Viewed, Said
  <2>8. TurnsAre(Flight \o G \o E, Viewed', sent, Null)
    <3>1. TurnsAre(Flight \o G, Viewed, sent, Null)
      BY <1>1, <1>9, <1>13, QuietStep
    <3>2. Flight \o G \o <<>> = Flight \o G
      BY <3>1, ConcatEmptySeq DEF TurnsAre
    <3> QED
      BY <3>1, <3>2, <2>1, <2>7
  <2>9. TurnsAre(Flight \o G \o E, Viewed', sent \cup {t}, t)
    BY <1>4, <1>6, <2>8, SentTurn
  <2>10. \A i \in DOMAIN <<b>> : <<b>>[i].type # "session.exited"
    BY <2>3
  <2>11. TurnsAre(Flight \o G \o E \o <<b>>, Viewed', sent \cup {t}, t)
    BY <2>3, <2>9, <2>10, QuietStep
  <2>12. adapter'.turn = t
    BY <1>9, <2>1
  <2> QED
    BY <1>2, <1>8, <1>11, <2>2, <2>5, <2>6, <2>11, <2>12, <1>1 DEF NextText
<1> QED
  BY <1>12, <1>13

\* The steps of the reactor: sessions start and stop, and a turn is sent.
LEMMA ReactorStep ==
    ASSUME Codex, TextInv, Reactor, Running
    PROVE  NextText
<1>1. /\ SInv /\ TypeInv /\ MapInv /\ IsTold(readModel) /\ OrderInv /\ QInv /\ IsModel(readModel)
      /\ TurnsAre(Flight, Viewed, sent, adapter.turn) /\ commandQueue \in Seq(Requests)
      /\ {"active", "alive", "turn", "orphans"} \subseteq DOMAIN adapter
  BY DEF TextInv, SInv, QInv, SessionsAreMapped, Running, IsTold
<1>2. UNCHANGED <<modeQueue, ingestion, buffers, said>>
  BY DEF Reactor, TakeCommand, StartSession, StartSessionFails, Bind, Send, SendHangs, SendFails, Interrupt,
         StopSession, MarkStopped, ReactorUnchanged
<1>3. <<>> \in Seq(Quiet) /\ runtimeQueue = runtimeQueue \o <<>> /\ DOMAIN <<>> = {}
  BY <1>1, NoEvents
<1>4. ASSUME UNCHANGED <<runtimeQueue, ended, sent, adapter>>,
             readModel' = readModel \/ SameMessages(readModel, readModel'),
             Ordered(Users(Said), sent, reactor', commandQueue')
      PROVE  NextText
  <2>1. /\ TypeInv' /\ IsTold(readModel') /\ Users(Said') = Users(Said)
        /\ TurnsAre(Flight', Viewed', sent', adapter.turn')
    BY <1>2, <1>3, <1>4, QuietNext
  <2>2. MapInv'
    BY <1>1, <1>4 DEF MapInv
  <2>3. OrderInv'
    BY <2>1, <1>4 DEF OrderInv
  <2> QED
    BY <2>1, <2>2, <2>3 DEF NextText
<1>5. CASE TakeCommand
  <2> DEFINE e == Head(commandQueue)
  <2>1. /\ commandQueue # <<>> /\ commandQueue' = Tail(commandQueue)
        /\ UNCHANGED <<runtimeQueue, ended, sent, adapter>>
    BY <1>5 DEF TakeCommand
  <2>2. readModel' = readModel \/ SameMessages(readModel, readModel')
    <3>1. readModel' \in {readModel, FailureActivity(readModel, 0)}
      BY <1>5 DEF TakeCommand
    <3> QED
      BY <3>1, <1>1, FailureSame
  <2>3. InHand(reactor') \subseteq {x \in {e.turn} : e.type = "turn-start"}
    <3>1. e \in Requests
      BY <1>1, <1>5, TakeRequest
    <3>2. reactor' = Idle \/ \E phase : reactor' = Run(phase, e)
      <4>1. e.type \in {"turn-start", "runtime-mode-set", "interrupt", "stop"}
        BY <3>1, RequestTypes
      <4> HIDE DEF e
      <4> QED
        BY <4>1, <1>5 DEF TakeCommand, e
    <3> QED
      BY <3>2 DEF InHand, Idle, Run
  <2>4. Ordered(Users(Said), sent, reactor', commandQueue')
    BY <1>1, <2>1, <2>3, OrderTaken DEF OrderInv
  <2> QED
    BY <1>4, <2>1, <2>2, <2>4
<1>6. CASE Reactor /\ ~TakeCommand
  <2>1. UNCHANGED commandQueue /\ IsRun(reactor)
    BY <1>1, <1>6, RunStep
  <2>2. ASSUME InHand(reactor') \subseteq InHand(reactor)
        PROVE  Ordered(Users(Said), sent, reactor', commandQueue')
    BY <1>1, <2>1, <2>2, OrderRun DEF OrderInv
  <2>3. InHand(Idle) = {}
    BY DEF InHand, Idle
  <2>4. ASSUME UNCHANGED <<ended, sent>>, InHand(reactor') \subseteq InHand(reactor),
               readModel' = readModel \/ SameMessages(readModel, readModel'),
               NEW G \in Seq(Quiet), runtimeQueue' = runtimeQueue \o G,
               adapter'.turn = Null
        PROVE  NextText
    <3>1. /\ TypeInv' /\ IsTold(readModel') /\ Users(Said') = Users(Said)
          /\ TurnsAre(Flight', Viewed', sent', adapter.turn')
      BY <1>2, <2>4, QuietNext
    <3>2. OrderInv'
      BY <3>1, <2>2, <2>4 DEF OrderInv
    <3>3. MapInv'
      BY <2>4 DEF MapInv
    <3> QED
      BY <3>1, <3>2, <3>3 DEF NextText
  <2>5. CASE StartSession
    <3>1. /\ UNCHANGED <<sent, readModel>> /\ ended' = ended
          /\ runtimeQueue' = runtimeQueue \o startSession(adapter).events
          /\ adapter'.turn = Null /\ reactor.phase = "start"
          /\ reactor' = [reactor EXCEPT !.phase = "bind"]
      BY <2>5, CodexFacts DEF StartSession
    <3>2. InHand(reactor') \subseteq InHand(reactor)
      BY <3>1, <2>1 DEF InHand, IsRun
    <3>3. startSession(adapter).events \in Seq(Quiet)
      BY CodexFacts
    <3> QED
      BY <3>1, <3>2, <3>3, <2>4
  <2>6. CASE StartSessionFails
    <3>1. /\ UNCHANGED sent /\ reactor' = Idle
          /\ readModel' = readModel \/ SameMessages(readModel, readModel')
      BY <1>1, <2>6, FailureSame DEF StartSessionFails, Fails
    <3>2. PICK events \in FailedStarts :
             IF StopsReplaced(adapter)
               THEN /\ runtimeQueue' = runtimeQueue \o StopEvents(adapter) \o events
                    /\ ended' = EndedBy(adapter.turn)
                    /\ adapter' = Stopped(adapter)
               ELSE /\ runtimeQueue' = runtimeQueue \o events
                    /\ UNCHANGED <<ended, adapter>>
      BY <2>6 DEF StartSessionFails
    <3>3. events \in Seq(Quiet) /\ StopEvents(adapter) \in Seq(Quiet)
      BY CodexFacts
    <3>4. CASE ~StopsReplaced(adapter)
      <4>1. ~adapter.active
        BY <3>4 DEF StopsReplaced
      <4>2. adapter'.turn = Null
        BY <1>1, <3>2, <3>4, <4>1 DEF MapInv
      <4> QED
        BY <3>1, <3>2, <3>3, <3>4, <4>2, <2>3, <2>4
    <3>5. CASE StopsReplaced(adapter)
      <4>1. adapter'.turn = Null /\ UNCHANGED ended
        BY <1>1, <3>2, <3>5, CodexFacts DEF Stopped
      <4>2. runtimeQueue \o StopEvents(adapter) \o events = runtimeQueue \o (StopEvents(adapter) \o events)
        BY <1>1, <3>3, ConcatAssociative DEF TypeInv, Quiet
      <4>3. StopEvents(adapter) \o events \in Seq(Quiet)
        BY <3>3, ConcatFacts
      <4> QED
        BY <3>1, <3>2, <3>5, <4>1, <4>2, <4>3, <2>3, <2>4
    <3> QED
      BY <3>4, <3>5
  <2>7. CASE Bind
    <3>1. /\ UNCHANGED <<runtimeQueue, ended, sent, adapter>>
          /\ readModel' = readModel \/ SameMessages(readModel, readModel')
      BY <1>1, <2>7, SetSessionSame DEF Bind
    <3>2. InHand(reactor') \subseteq InHand(reactor)
      BY <2>1, <2>7 DEF Bind, InHand, IsRun, Idle
    <3> QED
      BY <3>1, <3>2, <2>2, <1>4
  <2>13. ASSUME RecoveryFails, UNCHANGED <<ended, sent, adapter>>, InHand(reactor') \subseteq InHand(reactor),
                readModel' = readModel \/ SameMessages(readModel, readModel')
         PROVE  NextText
    <3>1. PICK events \in (IF bound /\ ~adapter.active THEN FailedStarts ELSE {<<>>}) :
             runtimeQueue' = runtimeQueue \o events
      BY <2>13 DEF RecoveryFails
    <3>2. CASE bound /\ ~adapter.active
      <4>1. events \in Seq(Quiet)
        BY <3>1, <3>2, CodexFacts
      <4>2. adapter'.turn = Null
        BY <1>1, <2>13, <3>2 DEF MapInv
      <4> QED
        BY <2>4, <2>13, <3>1, <4>1, <4>2
    <3>3. CASE ~(bound /\ ~adapter.active)
      <4>1. UNCHANGED runtimeQueue
        BY <1>3, <3>1, <3>3
      <4> QED
        BY <2>2, <2>13, <4>1, <1>4
    <3> QED
      BY <3>2, <3>3
  <2>8. CASE SendFails
    <3>1. /\ UNCHANGED <<ended, sent, adapter>> /\ reactor' = Idle
          /\ readModel' = readModel \/ SameMessages(readModel, readModel')
      BY <1>1, <2>8, FailureSame DEF SendFails, Fails
    <3>2. CASE RecoveryFails
      BY <3>1, <3>2, <2>3, <2>13
    <3>3. CASE UNCHANGED runtimeQueue
      BY <3>1, <3>3, <2>2, <2>3, <1>4
    <3> QED
      BY <2>8, <3>2, <3>3 DEF SendFails
  <2>9. CASE Interrupt
    <3>1. UNCHANGED <<ended, sent, readModel>> /\ reactor' = Idle
      BY <2>9 DEF Interrupt
    <3>2. CASE /\ adapter' = startSession(adapter).adapter
               /\ runtimeQueue' = runtimeQueue \o startSession(adapter).events
      <4>1. adapter'.turn = Null /\ startSession(adapter).events \in Seq(Quiet)
        BY <3>2, CodexFacts
      <4> QED
        BY <3>1, <3>2, <4>1, <2>3, <2>4
    <3>3. CASE UNCHANGED <<adapter, runtimeQueue>>
      BY <3>1, <3>3, <2>2, <2>3, <1>4
    <3>4. CASE RecoveryFails /\ UNCHANGED adapter
      BY <3>1, <3>4, <2>3, <2>13
    <3> QED
      BY <2>9, <3>2, <3>3, <3>4 DEF Interrupt
  <2>14. CASE SendHangs
    <3>1. /\ UNCHANGED <<runtimeQueue, ended, sent, adapter, readModel>>
          /\ reactor.phase = "send" /\ reactor' = [reactor EXCEPT !.phase = "hangs"]
      BY <2>14 DEF SendHangs
    <3>2. InHand(reactor') \subseteq InHand(reactor)
      BY <2>1, <3>1 DEF InHand, IsRun
    <3> QED
      BY <3>1, <3>2, <2>2, <1>4
  <2>10. CASE StopSession
    <3>1. UNCHANGED <<sent, readModel>> /\ InHand(reactor') \subseteq InHand(reactor)
      <4>1. UNCHANGED <<sent, readModel>> /\ reactor.phase = "stop"
            /\ (reactor' = Idle \/ reactor' = [reactor EXCEPT !.phase = "markStopped"])
        BY <2>10 DEF StopSession
      <4> QED
        BY <4>1, <2>1, <2>3 DEF InHand, IsRun
    <3>2. CASE bound /\ adapter.active
      <4>1. /\ runtimeQueue' = runtimeQueue \o StopEvents(adapter) /\ ended' = ended
            /\ adapter'.turn = Null /\ StopEvents(adapter) \in Seq(Quiet)
        BY <1>1, <2>10, <3>2, CodexFacts DEF StopSession, Stopped
      <4> QED
        BY <3>1, <4>1, <2>4
    <3>3. CASE ~(bound /\ adapter.active)
      <4>1. UNCHANGED <<runtimeQueue, adapter, ended>>
        BY <2>10, <3>3 DEF StopSession
      <4> QED
        BY <3>1, <4>1, <2>2, <1>4
    <3> QED
      BY <3>2, <3>3
  <2>11. CASE MarkStopped
    <3>1. /\ UNCHANGED <<runtimeQueue, ended, sent, adapter>> /\ reactor' = Idle
          /\ readModel' = readModel \/ SameMessages(readModel, readModel')
      BY <1>1, <2>11, SetSessionSame DEF MarkStopped
    <3> QED
      BY <3>1, <2>2, <2>3, <1>4
  <2>12. CASE Send
    BY <1>1, <2>12, SendStep
  <2> QED
    BY <1>6, <2>5, <2>6, <2>7, <2>8, <2>9, <2>10, <2>11, <2>12, <2>14 DEF Reactor
<1> QED
  BY <1>5, <1>6

-----------------------------------------------------------------------------

LEMMA ViewsAlike ==
    ASSUME NEW sd, NEW sd2, NEW q, NEW bf, NEW mo, NEW un, NEW en, NEW en2, NEW t \in Turns
    PROVE  LET v == ViewsOf(sd, q, bf, mo, un, en)[t]
               w == ViewsOf(sd2, q, bf, mo, un, en2)[t]
           IN  /\ SameText(v, w) /\ v.said = sd[t] /\ w.said = sd2[t]
               /\ v.ended = (t \in en) /\ w.ended = (t \in en2)
BY ViewFacts DEF SameText

\* What the provider says goes last.
LEMMA ProviderNext ==
    ASSUME TextInv, Running, ProviderUnchanged, Said' = Said, NEW G \in Seq(Signals),
           runtimeQueue' = runtimeQueue \o G, said' \in [Turns -> Seq(Nat)], ended' \subseteq Turns,
           adapter'.turn \in {Null, adapter.turn}, adapter'.turn # Null => adapter'.active,
           TurnsAre(Flight \o G, ViewsOf(said', Said, buffered, modesOf, unfinished, ended'),
                    sent, adapter'.turn)
    PROVE  NextText
<1>1. /\ TypeInv /\ MapInv /\ IsTold(readModel) /\ OrderInv
  BY DEF TextInv, Running
<1>2. /\ UNCHANGED <<readModel, commandQueue, reactor, modeQueue, ingestion, sent>>
      /\ UNCHANGED <<deliveryMode, buffered, unfinished, modesOf>>
  BY DEF ProviderUnchanged, buffers
<1>3. /\ runtimeQueue \in Seq(Signals) /\ (ingestion # Nothing => ingestion.event \in Signals)
  BY <1>1 DEF TypeInv
<1>4. runtimeQueue' \in Seq(Signals)
  BY <1>3, ConcatFacts
<1>5. TypeInv'
  BY <1>1, <1>2, <1>4 DEF TypeInv
<1>6. MapInv'
  BY <1>1 DEF MapInv
<1>7. IsTold(readModel') /\ OrderInv'
  BY <1>1, <1>2 DEF OrderInv
<1>8. Flight' = Flight \o G
  BY <1>2, <1>3, FlightThen DEF Flight
<1>9. Viewed' = ViewsOf(said', Said, buffered, modesOf, unfinished, ended')
  BY <1>2 DEF Viewed
<1> QED
  BY <1>2, <1>5, <1>6, <1>7, <1>8, <1>9 DEF NextText

\* The provider says a chunk.
LEMMA SayStep ==
    ASSUME TextInv, Say, Running
    PROVE  NextText
<1> DEFINE t == adapter.turn
           c == Len(said[t]) + 1
           e == [Event("delta", t) EXCEPT !.text = <<c>>]
           G == <<e>>
           V == Viewed
           W == ViewsOf(said', Said, buffered, modesOf, unfinished, ended')
<1>1. /\ TypeInv /\ MapInv /\ IsTold(readModel) /\ TurnsAre(Flight, V, sent, t)
  BY DEF TextInv, Running
<1>2. /\ t # Null /\ said' = [said EXCEPT ![t] = Append(@, c)]
      /\ runtimeQueue' = Append(runtimeQueue, e)
      /\ UNCHANGED <<adapter, ended, readModel>> /\ ProviderUnchanged
  BY DEF Say, ProviderUnchanged
<1>3. t \in Turns /\ said \in [Turns -> Seq(Nat)] /\ said[t] \in Seq(Nat) /\ c \in Nat /\ adapter.active
  BY <1>1, <1>2 DEF MapInv, TypeInv
<1>4. e \in Signals /\ e.type = "delta" /\ e.turn = t /\ e.text = <<c>>
  <2>1. <<c>> \in Seq(Nat)
    BY <1>3
  <2> HIDE DEF c
  <2> QED
    BY <2>1, <1>3 DEF Event, Signals
<1>5. /\ said' \in [Turns -> Seq(Nat)] /\ said'[t] = Append(said[t], c)
      /\ \A u \in Turns : u # t => said'[u] = said[u]
  <2>1. Append(said[t], c) \in Seq(Nat)
    BY <1>3
  <2> QED
    BY <2>1, <1>2, <1>3
<1>6. W \in [Turns -> Views] /\ V \in [Turns -> Views]
  BY <1>1, <1>2, <1>5, ViewsTyped DEF TypeInv, IsTold, Said, TurnsAre
<1>7. \A u \in Turns : u # t => W[u] = V[u]
  BY <1>2, <1>5 DEF ViewsOf, Viewed
<1>8. /\ SameText(V[t], W[t]) /\ W[t].ended = V[t].ended
      /\ V[t].said = said[t] /\ W[t].said = said'[t]
  <2>1. /\ SameText(V[t], W[t]) /\ V[t].said = said[t] /\ W[t].said = said'[t]
    <3>1. t \in Turns
      BY <1>3
    <3> HIDE DEF t
    <3> QED
      BY <3>1, ViewsAlike DEF Viewed
  <2>2. V[t].ended = (t \in ended) /\ W[t].ended = (t \in ended')
    BY <1>3, ViewFacts DEF Viewed
  <2>3. W[t].ended = V[t].ended
    <3>1. (t \in ended) = (t \in ended')
      BY <1>2
    <3> HIDE DEF V, W
    <3> QED
      BY <3>1, <2>2, Zenon
  <2> QED
    BY <2>1, <2>3
<1> HIDE DEF e, V, W
<1>9. Flight \in Seq(Signals) /\ V[t] \in Views /\ W[t] \in Views /\ Open(Flight, V[t], t) /\ ~V[t].ended
  BY <1>1, <1>3, <1>6 DEF TurnsAre
<1>10. ~W[t].ended /\ W[t].said = Append(V[t].said, Len(V[t].said) + 1) /\ e.text = <<Len(V[t].said) + 1>>
  BY <1>4, <1>5, <1>8, <1>9
<1>11. Open(Append(Flight, e), W[t], t)
  BY <1>4, <1>8, <1>9, <1>10, SayOpen
<1>12. /\ Append(Flight, e) = Flight \o G /\ G \in Seq(Signals)
       /\ \A i \in DOMAIN G : G[i].turn = t /\ G[i].type # "session.exited"
       /\ runtimeQueue' = runtimeQueue \o G
  <2>1. /\ Append(Flight, e) = Flight \o <<e>> /\ <<e>> \in Seq(Signals)
    BY <1>4, <1>9, AppendIs
  <2>2. Append(runtimeQueue, e) = runtimeQueue \o <<e>>
    BY <1>1, <1>4, AppendIs DEF TypeInv
  <2> QED
    BY <2>1, <2>2, <1>2, <1>4
<1> HIDE DEF G
<1>13. TurnsAre(Flight \o G, W, sent, t)
  <2>1. Open(Flight \o G, W[t], t)
    BY <1>11, <1>12
  <2> HIDE DEF t
  <2> QED
    BY <2>1, <1>1, <1>2, <1>6, <1>7, <1>10, <1>12, OtherTurns
<1>14. Said' = Said /\ ended' \subseteq Turns /\ adapter'.turn = adapter.turn /\ adapter'.active
  BY <1>1, <1>2, <1>3 DEF Said, TypeInv
<1> QED
  BY <1>2, <1>5, <1>12, <1>13, <1>14, ProviderNext DEF W

\* The provider completes the message and the turn.
LEMMA ItemStep ==
    ASSUME TextInv, CompleteItem, Running
    PROVE  NextText
<1> DEFINE t == adapter.turn
           text == IF said[t] = <<>> THEN <<1>> ELSE said[t]
           d == [Event("item.completed", t) EXCEPT !.text = text]
           e == Event("turn.completed", t)
           G == <<d, e>>
           V == Viewed
           W == ViewsOf(said', Said, buffered, modesOf, unfinished, ended')
<1>1. /\ TypeInv /\ MapInv /\ IsTold(readModel) /\ TurnsAre(Flight, V, sent, t)
      /\ {"active", "alive", "turn", "orphans"} \subseteq DOMAIN adapter
  BY DEF TextInv, SInv, SessionsAreMapped, Running
<1>2. /\ t # Null /\ said' = [said EXCEPT ![t] = text]
      /\ runtimeQueue' = runtimeQueue \o G /\ ended' = ended \cup {t}
      /\ adapter' = [adapter EXCEPT !.turn = Null]
      /\ UNCHANGED readModel /\ ProviderUnchanged
  BY DEF CompleteItem, ProviderUnchanged
<1>3. t \in Turns /\ said \in [Turns -> Seq(Nat)] /\ said[t] \in Seq(Nat) /\ text \in Seq(Nat)
  <2>1. t \in Turns /\ said \in [Turns -> Seq(Nat)] /\ said[t] \in Seq(Nat)
    BY <1>1, <1>2 DEF MapInv, TypeInv
  <2>2. <<1>> \in Seq(Nat)
    OBVIOUS
  <2> QED
    BY <2>1, <2>2
<1>4. /\ d \in Signals /\ d.type = "item.completed" /\ d.turn = t /\ d.text = text
      /\ e \in Signals /\ e.type = "turn.completed" /\ e.turn = t
  <2>1. e \in Signals /\ e.type = "turn.completed" /\ e.turn = t
    BY <1>3, QuietEvents
  <2> HIDE DEF text, e
  <2>2. d \in Signals /\ d.type = "item.completed" /\ d.turn = t /\ d.text = text
    BY <1>3 DEF Event, Signals
  <2> QED
    BY <2>1, <2>2
<1> HIDE DEF text
<1>5. /\ said' \in [Turns -> Seq(Nat)] /\ said'[t] = text
      /\ \A u \in Turns : u # t => said'[u] = said[u]
  BY <1>2, <1>3
<1>6. W \in [Turns -> Views] /\ V \in [Turns -> Views]
  BY <1>1, <1>2, <1>5, ViewsTyped DEF TypeInv, IsTold, Said, TurnsAre
<1>7. \A u \in Turns : u # t => W[u] = V[u]
  <2> SUFFICES ASSUME NEW u \in Turns, u # t PROVE W[u] = V[u]
    OBVIOUS
  <2>1. (u \in ended') = (u \in ended)
    BY <1>2
  <2> QED
    BY <2>1, <1>2, <1>5 DEF ViewsOf, Viewed
<1>8. /\ SameText(V[t], W[t]) /\ W[t].ended = (t \in ended')
      /\ V[t].said = said[t] /\ W[t].said = said'[t]
  <2>1. t \in Turns
    BY <1>3
  <2> HIDE DEF t
  <2> QED
    BY <2>1, ViewsAlike DEF Viewed
<1> HIDE DEF d, e, V, W
<1>9. /\ Flight \in Seq(Signals) /\ V[t] \in Views /\ W[t] \in Views /\ Open(Flight, V[t], t) /\ ~V[t].ended
  BY <1>1, <1>3, <1>6 DEF TurnsAre
<1>10. W[t].ended
  <2>1. t \in ended'
    BY <1>2
  <2> QED
    BY <2>1, <1>8, Zenon
<1>11. W[t].said = (IF V[t].said = <<>> THEN <<1>> ELSE V[t].said) /\ d.text = W[t].said
  BY <1>4, <1>5, <1>8 DEF text
<1>12. Open(Flight \o <<d, e>>, W[t], t)
  BY <1>4, <1>8, <1>9, <1>10, <1>11, ItemOpen
<1>13. /\ G \in Seq(Signals) /\ Open(Flight \o G, W[t], t)
       /\ \A i \in DOMAIN G : G[i].turn = t /\ G[i].type # "session.exited"
  BY <1>4, <1>12
<1> HIDE DEF G
<1>14. TurnsAre(Flight \o G, W, sent, Null)
  <2>1. t # Null
    BY <1>2
  <2> HIDE DEF t
  <2> QED
    BY <2>1, <1>1, <1>6, <1>7, <1>13, OtherTurns
<1>15. Said' = Said /\ ended' \subseteq Turns /\ adapter'.turn = Null
  BY <1>1, <1>2, <1>3 DEF Said, TypeInv
<1> QED
  BY <1>2, <1>5, <1>13, <1>14, <1>15, ProviderNext DEF W

\* The provider completes the turn.
LEMMA TurnStep ==
    ASSUME TextInv, CompleteTurn, Running
    PROVE  NextText
<1> DEFINE t == adapter.turn
           G == <<Event("turn.completed", t)>>
<1>1. /\ TypeInv /\ MapInv /\ IsTold(readModel) /\ TurnsAre(Flight, Viewed, sent, t)
      /\ {"active", "alive", "turn", "orphans"} \subseteq DOMAIN adapter
  BY DEF TextInv, SInv, SessionsAreMapped, Running
<1>2. /\ t # Null /\ runtimeQueue' = Append(runtimeQueue, Event("turn.completed", t))
      /\ ended' = ended \cup {t} /\ adapter' = [adapter EXCEPT !.turn = Null]
      /\ UNCHANGED <<readModel, said>> /\ ProviderUnchanged
  BY DEF CompleteTurn, ProviderUnchanged
<1>3. t \in Turns /\ Event("turn.completed", t) \in Signals
  BY <1>1, <1>2, QuietEvents DEF MapInv
<1>4. G \in Seq(Signals) /\ runtimeQueue' = runtimeQueue \o G
  BY <1>1, <1>2, <1>3, AppendIs DEF TypeInv
<1>5. ViewsOf(said, Said, buffered, modesOf, unfinished, ended \cup {t}) \in [Turns -> Views]
  BY <1>1, ViewsTyped DEF TypeInv, IsTold, Said
<1>6. TurnsAre(Flight \o G, ViewsOf(said, Said, buffered, modesOf, unfinished, ended \cup {t}), sent, Null)
  BY <1>1, <1>3, <1>5, EndedTurns DEF Viewed
<1>7. Said' = Said /\ ended' \subseteq Turns /\ adapter'.turn = Null /\ said' \in [Turns -> Seq(Nat)]
  BY <1>1, <1>2, <1>3 DEF Said, TypeInv
<1> HIDE DEF G
<1> QED
  BY <1>2, <1>4, <1>6, <1>7, ProviderNext

\* A session ends by itself: its turn, if one runs, never ends.
LEMMA DeathStep ==
    ASSUME Codex, TextInv, NEW k \in 0..Len(adapter.orphans), SessionDies(k), Running
    PROVE  NextText
<1>1. /\ TypeInv /\ MapInv /\ OrderInv /\ adapter.orphans = <<>>
  BY DEF TextInv, SInv, SessionsAreMapped, Running
<1> DEFINE G == <<Event("session.exited", Null)>>
<1>2. G \in Seq(Quiet)
  BY QuietEvents
<1>3. ended' = ended /\ adapter'.turn = Null /\ ProviderUnchanged /\ UNCHANGED said
  BY CodexFacts DEF SessionDies
<1>4. runtimeQueue' = runtimeQueue \o G
  <2>1. runtimeQueue' = runtimeQueue \o <<>> \o G
    BY DEF SessionDies
  <2> QED
    BY <2>1, <1>1, NoEvents
<1>5. UNCHANGED <<readModel, commandQueue, reactor, modeQueue, ingestion, buffers, sent>>
  BY <1>3 DEF ProviderUnchanged
<1> HIDE DEF G
<1>6. /\ TypeInv' /\ IsTold(readModel') /\ Users(Said') = Users(Said)
      /\ TurnsAre(Flight', Viewed', sent', adapter.turn')
  BY <1>2, <1>3, <1>4, <1>5, QuietNext
<1>7. MapInv' /\ OrderInv'
  BY <1>1, <1>3, <1>5, <1>6 DEF MapInv, OrderInv
<1> QED
  BY <1>6, <1>7 DEF NextText

-----------------------------------------------------------------------------
(* The ingestion takes and processes what is in flight *)

LEMMA HeadTail ==
    ASSUME NEW S, NEW q \in Seq(S), q # <<>>
    PROVE  <<Head(q)>> \o Tail(q) = q /\ Head(q) \in S /\ Tail(q) \in Seq(S)
OBVIOUS

LEMMA HeadOf ==
    ASSUME NEW S, NEW e \in S, NEW q \in Seq(S)
    PROVE  LET f == <<e>> \o q IN f # <<>> /\ Head(f) = e /\ Tail(f) = q
OBVIOUS

\* A session ends: of the turns that matter none has text that waits.
LEMMA ExitTurns ==
    ASSUME NEW F, NEW V, NEW W, NEW S, NEW a, TurnsAre(F, V, S, a), F # <<>>,
           Head(F).type = "session.exited", W \in [Turns -> Views],
           \A t \in Turns : W[t].ended = V[t].ended /\ (~V[t].pending => W[t] = V[t])
    PROVE  TurnsAre(Tail(F), W, S, a)
<1>1. F \in Seq(Signals) /\ V \in [Turns -> Views] /\ (a # Null => a \in S /\ a \in Turns)
  BY DEF TurnsAre
<1>2. Tail(F) \in Seq(Signals)
  BY <1>1, TailFacts
<1>3. \A t : ~Concerns(Head(F), t)
  BY DEF Concerns
<1>4. ASSUME NEW t \in Turns
      PROVE  /\ t \notin S => Fresh(Tail(F), W[t], t)
             /\ t = a => Open(Tail(F), W[t], t) /\ ~W[t].ended
             /\ W[t].ended => Open(Tail(F), W[t], t) \/ Final(Tail(F), W[t], t)
  <2>1. V[t] \in Views /\ W[t].ended = V[t].ended
    BY <1>1
  <2>2. ASSUME Open(F, V[t], t) PROVE Open(Tail(F), W[t], t) /\ W[t] = V[t]
    <3>1. ~V[t].pending
      BY <1>1, <2>1, <2>2, ExitFinds
    <3>2. W[t] = V[t]
      BY <3>1
    <3> QED
      BY <3>2, <1>1, <1>3, <2>1, <2>2, OpenAfter
  <2>3. ASSUME Final(F, V[t], t) PROVE Final(Tail(F), W[t], t)
    <3>1. W[t] = V[t]
      BY <2>3 DEF Final
    <3> QED
      BY <3>1, <1>1, <2>3, FinalAfter
  <2>4. ASSUME Fresh(F, V[t], t) PROVE Fresh(Tail(F), W[t], t)
    <3>1. W[t] = V[t]
      BY <2>4 DEF Fresh
    <3> QED
      BY <3>1, <1>1, <2>4, FreshAfter
  <2> QED
    BY <2>1, <2>2, <2>3, <2>4 DEF TurnsAre
<1> QED
  BY <1>1, <1>2, <1>4 DEF TurnsAre

\* An event of another turn leaves what is seen of this one.
LEMMA OtherView ==
    ASSUME NEW sd, NEW q, NEW r, NEW bf, NEW bf2, NEW mo, NEW mo2, NEW un, NEW un2, NEW en,
           NEW u \in Turns, TextOf(r, u) = TextOf(q, u), IsClosed(r, u) <=> IsClosed(q, u),
           bf2[u] = bf[u], mo2[u] = mo[u], u \in un2 <=> u \in un
    PROVE  ViewsOf(sd, r, bf2, mo2, un2, en)[u] = ViewsOf(sd, q, bf, mo, un, en)[u]
<1>1. IsClosed(r, u) = IsClosed(q, u) /\ (u \in un2) = (u \in un)
  BY DEF IsClosed
<1> QED
  BY <1>1 DEF ViewsOf

\* The ingestion takes a delivery mode or an event: it stays in flight.
LEMMA TakeStep ==
    ASSUME TextInv, TakeMode \/ TakeRuntimeEvent, Running
    PROVE  NextText
<1>1. /\ TypeInv /\ MapInv /\ IsTold(readModel) /\ OrderInv /\ TurnsAre(Flight, Viewed, sent, adapter.turn)
  BY DEF TextInv, Running
<1>2. /\ UNCHANGED <<readModel, commandQueue, reactor, adapter, said, sent, ended>>
      /\ UNCHANGED <<buffered, unfinished, modesOf>> /\ ingestion = Nothing
  BY DEF TakeMode, TakeRuntimeEvent, IngestionUnchanged, provider, buffers
<1>3. MapInv' /\ OrderInv' /\ IsTold(readModel') /\ Viewed' = Viewed
  BY <1>1, <1>2 DEF MapInv, OrderInv, Viewed, Said
<1>4. CASE TakeMode
  <2>1. /\ modeQueue' = Tail(modeQueue) /\ deliveryMode' = Head(modeQueue) /\ modeQueue # <<>>
        /\ UNCHANGED <<runtimeQueue, ingestion>>
    BY <1>4 DEF TakeMode
  <2>2. modeQueue' \in Seq(DeliveryModes) /\ deliveryMode' \in DeliveryModes
    BY <1>1, <2>1, HeadTail DEF TypeInv
  <2>3. TypeInv' /\ Flight' = Flight
    BY <1>1, <1>2, <2>1, <2>2 DEF TypeInv, Flight
  <2> QED
    BY <1>1, <1>2, <1>3, <2>3 DEF NextText
<1>5. CASE TakeRuntimeEvent
  <2>1. /\ ingestion' = [event |-> Head(runtimeQueue), session |-> Thread.session]
        /\ runtimeQueue' = Tail(runtimeQueue) /\ runtimeQueue # <<>>
        /\ UNCHANGED <<modeQueue, deliveryMode>>
    BY <1>5 DEF TakeRuntimeEvent, buffers
  <2>2. /\ <<Head(runtimeQueue)>> \o Tail(runtimeQueue) = runtimeQueue
        /\ Head(runtimeQueue) \in Signals /\ Tail(runtimeQueue) \in Seq(Signals)
    BY <1>1, <2>1, HeadTail DEF TypeInv
  <2>3. ingestion' # Nothing /\ ingestion'.event = Head(runtimeQueue)
    <3>1. Head(runtimeQueue).type # "none"
      BY <2>2 DEF Signals
    <3>2. ingestion'.event = Head(runtimeQueue)
      BY <2>1
    <3>3. Nothing.event.type = "none"
      BY DEF Nothing
    <3> QED
      BY <3>1, <3>2, <3>3
  <2>4. TypeInv'
    BY <1>1, <1>2, <2>1, <2>2, <2>3 DEF TypeInv
  <2>5. Flight' = Flight
    <3>1. Flight = runtimeQueue
      BY <1>2 DEF Flight, InFlight
    <3>2. Flight' = <<Head(runtimeQueue)>> \o Tail(runtimeQueue)
      BY <2>1, <2>3 DEF Flight, InFlight
    <3> QED
      BY <3>1, <3>2, <2>2
  <2> QED
    BY <1>1, <1>2, <1>3, <2>4, <2>5 DEF NextText
<1> QED
  BY <1>4, <1>5

\* What is known before an event is processed.
LEMMA IngestFacts ==
    ASSUME TextInv, Ingest, Running
    PROVE  LET e == ingestion.event
           IN  /\ TypeInv /\ MapInv /\ IsTold(readModel) /\ OrderInv
               /\ TurnsAre(Flight, Viewed, sent, adapter.turn)
               /\ e \in Signals /\ Flight # <<>> /\ Head(Flight) = e
               /\ Tail(Flight) = runtimeQueue /\ Flight' = runtimeQueue
               /\ UNCHANGED <<commandQueue, reactor, adapter, said, sent, ended, modeQueue,
                              runtimeQueue, deliveryMode>>
               /\ ingestion' = Nothing
<1>1. /\ TypeInv /\ MapInv /\ IsTold(readModel) /\ OrderInv /\ TurnsAre(Flight, Viewed, sent, adapter.turn)
  BY DEF TextInv, Running
<1>2. /\ UNCHANGED <<commandQueue, reactor, adapter, said, sent, ended, modeQueue, runtimeQueue, deliveryMode>>
      /\ ingestion # Nothing /\ ingestion' = Nothing
  BY DEF Ingest, IngestionUnchanged, provider
<1>3. ingestion.event \in Signals /\ runtimeQueue \in Seq(Signals)
  BY <1>1, <1>2 DEF TypeInv
<1>4. Flight = <<ingestion.event>> \o runtimeQueue /\ Flight' = runtimeQueue
  BY <1>2 DEF Flight, InFlight
<1>5. Flight # <<>> /\ Head(Flight) = ingestion.event /\ Tail(Flight) = runtimeQueue
  BY <1>3, <1>4, HeadOf
<1> QED
  BY <1>1, <1>2, <1>3, <1>4, <1>5

\* What an event must keep so that the invariant holds after it.
LEMMA IngestNext ==
    ASSUME TextInv, Ingest, Running, IsTold(readModel'), Users(Said') = Users(Said),
           buffered' \in [Turns -> Seq(Nat)], modesOf' \in [Turns -> SUBSET DeliveryModes],
           unfinished' \subseteq Turns,
           TurnsAre(Tail(Flight), Viewed', sent, adapter.turn)
    PROVE  NextText
<1>1. TypeInv'
  BY IngestFacts DEF TypeInv
<1>2. MapInv' /\ OrderInv'
  BY IngestFacts DEF MapInv, OrderInv
<1> QED
  BY <1>1, <1>2, IngestFacts DEF NextText

\* An event of one turn changes what is seen of that turn.
LEMMA IngestOne ==
    ASSUME TextInv, Ingest, Running,
           NEW t \in Turns, Concerns(ingestion.event, t), NEW text, Told(readModel, readModel', t, text),
           buffered' \in [Turns -> Seq(Nat)], modesOf' \in [Turns -> SUBSET DeliveryModes],
           unfinished' \subseteq Turns,
           \A u \in Turns : u # t => /\ buffered'[u] = buffered[u] /\ modesOf'[u] = modesOf[u]
                                     /\ u \in unfinished' <=> u \in unfinished,
           Ingested(ingestion.event, Viewed, Viewed', t)
    PROVE  NextText
<1> DEFINE e == ingestion.event
<1>1. /\ IsTold(readModel') /\ Users(Said') = Users(Said)
      /\ \A u \in Turns : u # t =>
          /\ TextOf(Said', u) = TextOf(Said, u)
          /\ IsClosed(Said', u) <=> IsClosed(Said, u)
  BY DEF Told, Said
<1>2. /\ TypeInv /\ IsTold(readModel) /\ TurnsAre(Flight, Viewed, sent, adapter.turn)
      /\ Flight # <<>> /\ Head(Flight) = e /\ UNCHANGED <<said, ended>>
  BY IngestFacts
<1>3. Viewed' \in [Turns -> Views]
  BY <1>1, <1>2, ViewsTyped DEF TypeInv, IsTold, Said, Viewed
<1>4. ASSUME NEW u \in Turns, u # t PROVE Viewed'[u] = Viewed[u]
  <2>1. /\ TextOf(Said', u) = TextOf(Said, u) /\ (IsClosed(Said', u) <=> IsClosed(Said, u))
        /\ buffered'[u] = buffered[u] /\ modesOf'[u] = modesOf[u]
        /\ u \in unfinished' <=> u \in unfinished
    BY <1>1, <1>4
  <2>2. /\ IsClosed(Said', u) = IsClosed(Said, u) /\ (u \in unfinished') = (u \in unfinished)
        /\ said'[u] = said[u] /\ (u \in ended') = (u \in ended)
    BY <1>2, <2>1 DEF IsClosed
  <2>3. /\ Viewed'[u] = [said |-> said'[u], text |-> TextOf(Said', u), buffer |-> buffered'[u],
                         modes |-> modesOf'[u], pending |-> u \in unfinished',
                         ended |-> u \in ended', finished |-> IsClosed(Said', u)]
        /\ Viewed[u] = [said |-> said[u], text |-> TextOf(Said, u), buffer |-> buffered[u],
                        modes |-> modesOf[u], pending |-> u \in unfinished,
                        ended |-> u \in ended, finished |-> IsClosed(Said, u)]
    BY <1>4 DEF Viewed, ViewsOf
  <2> QED
    BY <2>1, <2>2, <2>3
<1>5. \A u \in Turns : Concerns(e, u) <=> u = t
  BY DEF Concerns
<1> HIDE DEF e
<1>6. Ingested(e, Viewed, Viewed', t)
  BY DEF e
<1>7. \A u \in Turns : IF Concerns(Head(Flight), u) THEN Ingested(Head(Flight), Viewed, Viewed', u)
                                                   ELSE Viewed'[u] = Viewed[u]
  BY <1>2, <1>4, <1>5, <1>6
<1>8. TurnsAre(Tail(Flight), Viewed', sent, adapter.turn)
  BY <1>2, <1>3, <1>7, IngestedTurns
<1> QED
  BY <1>1, <1>8, IngestNext

\* The session that an event leads to has the messages of the one before.
LEMMA SessionSame ==
    ASSUME IsTold(readModel), NEW event, NEW session
    PROVE  LET m == SessionAfter(readModel, event, session)
           IN  IsTold(m) /\ MessagesOf(m) = Said
<1> DEFINE m == SessionAfter(readModel, event, session)
<1>1. IsModel(readModel)
  BY DEF IsTold
<1>2. m = readModel \/ \E status, turn, mode : m = SetSession(readModel, status, turn, mode)
  BY DEF SessionAfter
<1>3. m = readModel \/ SameMessages(readModel, m)
  BY <1>1, <1>2, SetSessionSame
<1> HIDE DEF m
<1>4. IsTold(m) /\ MessagesOf(m) = Said
  BY <1>3, SameSays DEF SameMessages, Said
<1> QED
  BY <1>4 DEF m

LEMMA ToldFrom ==
    ASSUME NEW l, NEW m, NEW n, NEW t, NEW text, MessagesOf(m) = MessagesOf(l), Told(m, n, t, text)
    PROVE  Told(l, n, t, text)
BY SMTT(30) DEF Told

\* content.delta: the text goes to the message, flushes the buffer to it, or to the buffer.
LEMMA DeltaStep ==
    ASSUME Room, TextInv, Ingest, Running, ingestion.event.type = "delta"
    PROVE  NextText
<1> DEFINE e == ingestion.event
           m == SessionAfter(readModel, e, ingestion.session)
           t == e.turn
           V == Viewed
           W == Viewed'
<1>1. /\ TypeInv /\ IsTold(readModel) /\ e \in Signals /\ UNCHANGED <<said, ended>>
      /\ IsTold(m) /\ MessagesOf(m) = Said
  BY IngestFacts, SessionSame
<1>2. Delta(m, e)
  BY DEF Ingest
<1> HIDE DEF m
<1>3. t \in Turns /\ e.text \in Seq(Nat) /\ Concerns(e, t)
  BY <1>1 DEF Signals, Concerns
<1>4. /\ buffered \in [Turns -> Seq(Nat)] /\ modesOf \in [Turns -> SUBSET DeliveryModes]
      /\ unfinished \subseteq Turns /\ deliveryMode \in DeliveryModes
      /\ buffered[t] \in Seq(Nat) /\ buffered[t] \o e.text \in Seq(Nat)
      /\ modesOf[t] \in SUBSET DeliveryModes
  <2>1. /\ buffered \in [Turns -> Seq(Nat)] /\ modesOf \in [Turns -> SUBSET DeliveryModes]
        /\ unfinished \subseteq Turns /\ deliveryMode \in DeliveryModes
    BY <1>1 DEF TypeInv
  <2>2. buffered[t] \in Seq(Nat) /\ modesOf[t] \in SUBSET DeliveryModes
    BY <2>1, <1>3
  <2> QED
    BY <2>1, <2>2, <1>3, ConcatTypes
<1>5. /\ unfinished' = unfinished \cup {t}
      /\ modesOf' = [modesOf EXCEPT ![t] = @ \cup {deliveryMode}]
  BY <1>2 DEF Delta
<1> DEFINE Buffers(b) == buffered' = [buffered EXCEPT ![t] = b]
           Shows(x) == Told(readModel, readModel', t, TextOf(Said, t) \o x)
           Lands(x, b) ==
              V[t].text = TextOf(Said, t) /\ V[t].buffer = buffered[t] /\ V[t].modes = modesOf[t] =>
                \A w : /\ w.text = TextOf(Said, t) \o x /\ w.buffer = b
                       /\ w.modes = modesOf[t] \cup {deliveryMode}
                       => IsTaken(V[t], w, e.text)
<1>6. \/ /\ deliveryMode = "streaming" /\ Shows(e.text) /\ Buffers(buffered[t])
      \/ /\ deliveryMode = "buffered" /\ Shows(buffered[t] \o e.text) /\ Buffers(<<>>)
      \/ /\ deliveryMode = "buffered" /\ Shows(<<>>) /\ Buffers(buffered[t] \o e.text)
  <2>1. ASSUME NEW x \in Seq(Nat), readModel' = AssistantDelta(m, t, x) PROVE Shows(x)
    <3>1. Told(m, AssistantDelta(m, t, x), t, TextOf(MessagesOf(m), t) \o x)
      BY <1>1, <1>3, <2>1, DeltaTold
    <3> QED
      BY <3>1, <1>1, <2>1, ToldFrom DEF Said
  <2>2. ASSUME readModel' = m PROVE Shows(<<>>)
    <3>1. Told(readModel, m, t, TextOf(Said, t))
      BY <1>1, ToldSame DEF SameMessages, Said, IsTold
    <3>2. TextOf(Said, t) \o <<>> = TextOf(Said, t)
      BY <1>1, TextTyped, ConcatEmptySeq DEF IsTold, Said
    <3> QED
      BY <3>1, <3>2, <2>2
  <2>3. CASE deliveryMode = "streaming"
    <3>1. readModel' = AssistantDelta(m, t, e.text) /\ UNCHANGED buffered
      BY <1>2, <2>3 DEF Delta
    <3>2. Buffers(buffered[t])
      BY <3>1, <1>4, <1>3
    <3> QED
      BY <3>1, <3>2, <2>1, <2>3, <1>3
  <2>4. CASE deliveryMode = "buffered" /\ Len(buffered[t]) + Len(e.text) > MAX_BUFFERED_ASSISTANT_CHARS
    <3>1. readModel' = AssistantDelta(m, t, buffered[t] \o e.text) /\ Buffers(<<>>)
      BY <1>2, <2>4 DEF Delta, spillChunk
    <3> QED
      BY <3>1, <2>1, <2>4, <1>4
  <2>5. CASE deliveryMode = "buffered" /\ ~(Len(buffered[t]) + Len(e.text) > MAX_BUFFERED_ASSISTANT_CHARS)
    <3>1. readModel' = m /\ Buffers(buffered[t] \o e.text)
      BY <1>2, <2>5 DEF Delta
    <3> QED
      BY <3>1, <2>2, <2>5
  <2> QED
    BY <2>3, <2>4, <2>5, <1>4 DEF DeliveryModes
<1>7. ASSUME NEW x, NEW b \in Seq(Nat), Shows(x), Buffers(b),
             Lands(x, b)
      PROVE  NextText
  <2>1. /\ buffered' \in [Turns -> Seq(Nat)] /\ buffered'[t] = b
        /\ \A u \in Turns : u # t => buffered'[u] = buffered[u]
    BY <1>3, <1>4, <1>7
  <2>2. /\ modesOf' \in [Turns -> SUBSET DeliveryModes] /\ modesOf'[t] = modesOf[t] \cup {deliveryMode}
        /\ \A u \in Turns : u # t => modesOf'[u] = modesOf[u]
    <3>1. modesOf[t] \cup {deliveryMode} \in SUBSET DeliveryModes
      BY <1>4
    <3> QED
      BY <3>1, <1>3, <1>4, <1>5
  <2>3. /\ unfinished' \subseteq Turns /\ t \in unfinished'
        /\ \A u \in Turns : u # t => (u \in unfinished' <=> u \in unfinished)
    BY <1>3, <1>4, <1>5
  <2>4. TextOf(Said', t) = TextOf(Said, t) \o x
    BY <1>7 DEF Told, Said
  <2>5. /\ V[t].text = TextOf(Said, t) /\ V[t].buffer = buffered[t] /\ V[t].modes = modesOf[t]
        /\ V[t].said = said[t] /\ V[t].ended = (t \in ended)
    BY <1>3, ViewFacts DEF Viewed
  <2>6. /\ W[t].text = TextOf(Said', t) /\ W[t].buffer = buffered'[t] /\ W[t].modes = modesOf'[t]
        /\ W[t].said = said'[t] /\ W[t].ended = (t \in ended') /\ W[t].pending = (t \in unfinished')
    BY <1>3, ViewFacts, SMTT(30) DEF Viewed
  <2> HIDE DEF V, W
  <2>7. IsTaken(V[t], W[t], e.text)
    BY <1>7, <2>1, <2>2, <2>4, <2>5, <2>6
  <2>8. W[t].said = V[t].said /\ W[t].ended = V[t].ended
    BY <1>1, <2>5, <2>6
  <2>9. W[t].pending
    BY <2>3, <2>6, Zenon
  <2>10. Ingested(e, V, W, t)
    BY <2>7, <2>8, <2>9 DEF Ingested
  <2> QED
    BY <1>3, <1>7, <2>1, <2>2, <2>3, <2>10, IngestOne DEF V, W
<1>8. TextOf(Said, t) \o <<>> = TextOf(Said, t) /\ <<>> \in Seq(Nat)
  BY <1>1, TextTyped, ConcatEmptySeq DEF IsTold, Said
<1>9. CASE deliveryMode = "streaming" /\ Shows(e.text) /\ Buffers(buffered[t])
  <2>1. Lands(e.text, buffered[t])
    BY <1>9 DEF IsTaken, IsStreamed
  <2> HIDE DEF Lands, Shows, Buffers
  <2> QED
    BY <1>4, <1>7, <1>9, <2>1
<1>10. CASE deliveryMode = "buffered" /\ Shows(buffered[t] \o e.text) /\ Buffers(<<>>)
  <2>1. Lands(buffered[t] \o e.text, <<>>)
    BY <1>10 DEF IsTaken, IsSpilled
  <2> HIDE DEF Lands, Shows, Buffers
  <2> QED
    BY <1>7, <1>8, <1>10, <2>1
<1>11. CASE deliveryMode = "buffered" /\ Shows(<<>>) /\ Buffers(buffered[t] \o e.text)
  <2>1. Lands(<<>>, buffered[t] \o e.text)
    BY <1>8, <1>11 DEF IsTaken, IsBuffered
  <2> HIDE DEF Lands, Shows, Buffers
  <2> QED
    BY <1>4, <1>7, <1>11, <2>1
<1> QED
  BY <1>6, <1>9, <1>10, <1>11


\* The fallback is used if the message has no text.
LEMMA ShownIs ==
    ASSUME NEW q, IsTalk(q), NEW t
    PROVE  {m \in ToSet(q) : m.id = t /\ m.text # <<>>} = {} <=> TextOf(q, t) = <<>>
<1> DEFINE shown == {m \in ToSet(q) : m.id = t /\ m.text # <<>>}
<1>1. ToSet(q) = {q[i] : i \in DOMAIN q}
  BY DEF ToSet
<1>2. CASE t \in Ids(q)
  <2>1. PICK i \in DOMAIN q : q[i].id = t
    BY <1>1, <1>2 DEF Ids
  <2>2. TextOf(q, t) = q[i].text
    BY <2>1, TextAt
  <2>3. \A m \in ToSet(q) : m.id = t => m = q[i]
    BY <1>1, <2>1 DEF IsTalk
  <2>4. q[i] \in ToSet(q)
    BY <1>1, <2>1
  <2> QED
    BY <2>1, <2>2, <2>3, <2>4
<1>3. CASE t \notin Ids(q)
  <2>1. TextOf(q, t) = <<>>
    BY <1>3, TextNowhere
  <2>2. \A m \in ToSet(q) : m.id # t
    BY <1>1, <1>3 DEF Ids
  <2> QED
    BY <2>1, <2>2
<1> QED
  BY <1>2, <1>3

\* What a message has once it is finalized.
Rest(v, text) == IF v.buffer # <<>> THEN v.buffer ELSE text

Finalized(v, w, text) ==
    /\ w.said = v.said /\ w.ended = v.ended /\ w.modes = v.modes
    /\ ~w.pending /\ w.finished
    /\ w.text = v.text \o Rest(v, text)

\* A message is finalized.
LEMMA FinalizeStep ==
    ASSUME Room, TextInv, Ingest, Running,
           NEW t \in Turns, Concerns(ingestion.event, t), NEW text \in Seq(Nat),
           NEW m, IsTold(m), MessagesOf(m) = Said, readModel' = finalize(m, t, text),
           buffered' = [buffered EXCEPT ![t] = <<>>], unfinished' = unfinished \ {t}, modesOf' = modesOf
    PROVE  /\ Finalized(Viewed[t], Viewed'[t], text)
           /\ Ingested(ingestion.event, Viewed, Viewed', t) => NextText
<1> DEFINE V == Viewed
           W == Viewed'
           rest == IF buffered[t] # <<>> THEN buffered[t] ELSE text
<1>1. TypeInv /\ IsTold(readModel) /\ UNCHANGED <<said, ended>>
  BY IngestFacts
<1>2. /\ buffered \in [Turns -> Seq(Nat)] /\ modesOf \in [Turns -> SUBSET DeliveryModes]
      /\ unfinished \subseteq Turns
  BY <1>1 DEF TypeInv
<1>3. Told(m, readModel', t, TextOf(MessagesOf(m), t) \o rest) /\ IsClosed(MessagesOf(readModel'), t)
  BY <1>2, FinalizeTold
<1>4. Told(readModel, readModel', t, TextOf(Said, t) \o rest) /\ IsClosed(Said', t)
  BY <1>3, ToldFrom DEF Said
<1>5. TextOf(Said', t) = TextOf(Said, t) \o rest
  BY <1>4 DEF Told, Said
<1>6. /\ V[t].text = TextOf(Said, t) /\ V[t].buffer = buffered[t] /\ V[t].modes = modesOf[t]
      /\ V[t].said = said[t] /\ V[t].ended = (t \in ended)
  BY ViewFacts DEF Viewed
<1>7. /\ W[t].text = TextOf(Said', t) /\ W[t].modes = modesOf'[t]
      /\ W[t].said = said'[t] /\ W[t].ended = (t \in ended') /\ W[t].pending = (t \in unfinished')
      /\ W[t].finished = IsClosed(Said', t)
  BY ViewFacts DEF Viewed
<1>8. /\ buffered' \in [Turns -> Seq(Nat)] /\ modesOf' \in [Turns -> SUBSET DeliveryModes]
      /\ unfinished' \subseteq Turns /\ t \notin unfinished'
      /\ \A u \in Turns : u # t => /\ buffered'[u] = buffered[u] /\ modesOf'[u] = modesOf[u]
                                   /\ u \in unfinished' <=> u \in unfinished
  <2>1. <<>> \in Seq(Nat)
    OBVIOUS
  <2> QED
    BY <1>2, <2>1
<1> HIDE DEF V, W
<1>9. ~W[t].pending /\ W[t].finished
  BY <1>4, <1>7, <1>8, Zenon
<1>10. Finalized(V[t], W[t], text)
  <2>1. rest = Rest(V[t], text)
    BY <1>6 DEF Rest
  <2> HIDE DEF rest
  <2> QED
    BY <1>1, <1>5, <1>6, <1>7, <1>9, <2>1 DEF Finalized
<1>11. ASSUME Ingested(ingestion.event, V, W, t) PROVE NextText
  BY <1>4, <1>8, <1>11, IngestOne DEF V, W
<1> QED
  BY <1>10, <1>11 DEF V, W

\* item.completed: the message is finalized, with the whole text if nothing of it is shown.
LEMMA ItemCompletedStep ==
    ASSUME Room, TextInv, Ingest, Running, ingestion.event.type = "item.completed"
    PROVE  NextText
<1> DEFINE e == ingestion.event
           m == SessionAfter(readModel, e, ingestion.session)
           t == e.turn
           V == Viewed
           W == Viewed'
           shown == {x \in ToSet(Said) : x.id = t /\ x.text # <<>>}
           text == IF shown = {} THEN e.text ELSE <<>>
<1>1. /\ IsTold(readModel) /\ e \in Signals /\ IsTold(m) /\ MessagesOf(m) = Said
  BY IngestFacts, SessionSame
<1>2. /\ readModel' = finalize(m, t, text) /\ unfinished' = unfinished \ {t}
      /\ buffered' = [buffered EXCEPT ![t] = <<>>] /\ modesOf' = modesOf
  <2>1. ItemCompleted(m, e)
    BY DEF Ingest
  <2> HIDE DEF m
  <2> QED
    BY <2>1 DEF ItemCompleted, Said, MessagesOf, Thread
<1> HIDE DEF m
<1>3. t \in Turns /\ e.text \in Seq(Nat) /\ Concerns(e, t)
  BY <1>1 DEF Signals, Concerns
<1>4. shown = {} <=> TextOf(Said, t) = <<>>
  BY <1>1, ShownIs DEF IsTold, Said
<1> HIDE DEF shown
<1>5. text \in Seq(Nat)
  BY <1>3
<1> HIDE DEF text
<1>6. Finalized(V[t], W[t], text) /\ (Ingested(e, V, W, t) => NextText)
  BY <1>1, <1>2, <1>3, <1>5, FinalizeStep
<1>7. V[t].text = TextOf(Said, t)
  BY <1>3, ViewFacts DEF Viewed
<1> HIDE DEF V, W, t, e
<1>8. Rest(V[t], text) = Finish(V[t], e.text)
  BY <1>4, <1>7 DEF Rest, Finish, text
<1>9. Ingested(e, V, W, t)
  <2>1. e.type = "item.completed"
    BY DEF e
  <2> QED
    BY <1>6, <1>8, <2>1 DEF Ingested, Finalized
<1> QED
  BY <1>6, <1>9

\* turn.completed: a message that was not finished is finalized.
LEMMA TurnCompletedStep ==
    ASSUME Room, TextInv, Ingest, Running, ingestion.event.type = "turn.completed"
    PROVE  NextText
<1> DEFINE e == ingestion.event
           m == SessionAfter(readModel, e, ingestion.session)
           t == e.turn
           V == Viewed
           W == Viewed'
<1>1. /\ TypeInv /\ IsTold(readModel) /\ e \in Signals /\ IsTold(m) /\ MessagesOf(m) = Said
      /\ UNCHANGED <<said, ended>>
  BY IngestFacts, SessionSame
<1>2. TurnCompleted(m, e)
  BY DEF Ingest
<1> HIDE DEF m
<1>3. t \in Turns /\ Concerns(e, t) /\ e.type = "turn.completed"
  BY <1>1 DEF Signals, Concerns
<1>4. unfinished' = unfinished \ {t} /\ modesOf' = modesOf
  BY <1>2 DEF TurnCompleted
<1>5. V[t].pending = (t \in unfinished)
  BY <1>3, ViewFacts DEF Viewed
<1>6. CASE t \in unfinished
  <2>1. readModel' = finalize(m, t, <<>>) /\ buffered' = [buffered EXCEPT ![t] = <<>>]
    BY <1>2, <1>6 DEF TurnCompleted
  <2>2. <<>> \in Seq(Nat)
    OBVIOUS
  <2>3. Finalized(V[t], W[t], <<>>) /\ (Ingested(e, V, W, t) => NextText)
    BY <1>1, <1>3, <1>4, <2>1, <2>2, FinalizeStep
  <2> HIDE DEF V, W, t, e
  <2>4. V[t].pending
    BY <1>5, <1>6, Zenon
  <2>5. Rest(V[t], <<>>) = V[t].buffer
    BY DEF Rest
  <2>6. Ingested(e, V, W, t)
    BY <1>3, <2>3, <2>4, <2>5 DEF Ingested, Finalized
  <2> QED
    BY <2>3, <2>6
<1>7. CASE t \notin unfinished
  <2>1. readModel' = m /\ buffered' = buffered /\ unfinished' = unfinished
    BY <1>2, <1>4, <1>7 DEF TurnCompleted
  <2>2. Said' = Said
    BY <1>1, <2>1 DEF Said
  <2>3. W = V
    BY <1>1, <1>4, <2>1, <2>2 DEF Viewed
  <2>4. Told(readModel, readModel', t, TextOf(Said, t))
    BY <1>1, <2>1, ToldSame DEF SameMessages, Said, IsTold
  <2>5. /\ buffered' \in [Turns -> Seq(Nat)] /\ modesOf' \in [Turns -> SUBSET DeliveryModes]
        /\ unfinished' \subseteq Turns
    BY <1>1, <1>4, <2>1 DEF TypeInv
  <2>6. ~V[t].pending
    <3> HIDE DEF V
    <3> QED
      BY <1>5, <1>7, Zenon
  <2>7. Ingested(e, V, W, t)
    <3> HIDE DEF V, W, t, e
    <3> QED
      BY <1>3, <2>3, <2>6 DEF Ingested
  <2>8. \A u \in Turns : u # t => /\ buffered'[u] = buffered[u] /\ modesOf'[u] = modesOf[u]
                                  /\ u \in unfinished' <=> u \in unfinished
    BY <1>4, <2>1
  <2> QED
    BY <1>3, <2>4, <2>5, <2>7, <2>8, IngestOne
<1> QED
  BY <1>6, <1>7

\* A session exits: what waits in the buffers of its turns is dropped.
LEMMA ExitStep ==
    ASSUME TextInv, Ingest, Running, ingestion.event.type = "session.exited"
    PROVE  NextText
<1> DEFINE e == ingestion.event
           m == SessionAfter(readModel, e, ingestion.session)
<1>1. /\ TypeInv /\ IsTold(readModel) /\ e \in Signals /\ IsTold(m) /\ MessagesOf(m) = Said
      /\ UNCHANGED <<said, ended>> /\ TurnsAre(Flight, Viewed, sent, adapter.turn)
      /\ Flight # <<>> /\ Head(Flight) = e
  BY IngestFacts, SessionSame
<1>2. SessionExited(m)
  BY DEF Ingest
<1> HIDE DEF m
<1>3. /\ readModel' = m /\ unfinished' = {} /\ modesOf' = modesOf
      /\ buffered' = [t \in Turns |-> IF t \in unfinished THEN <<>> ELSE buffered[t]]
  BY <1>2 DEF SessionExited
<1>4. Said' = Said /\ IsTold(readModel')
  BY <1>1, <1>3 DEF Said
<1>5. buffered' \in [Turns -> Seq(Nat)] /\ modesOf' \in [Turns -> SUBSET DeliveryModes] /\ unfinished' \subseteq Turns
  <2>1. <<>> \in Seq(Nat)
    OBVIOUS
  <2> QED
    BY <1>1, <1>3, <2>1 DEF TypeInv
<1>6. Viewed' \in [Turns -> Views]
  BY <1>1, <1>4, <1>5, ViewsTyped DEF TypeInv, IsTold, Said, Viewed
<1>7. ASSUME NEW t \in Turns
      PROVE  Viewed'[t].ended = Viewed[t].ended /\ (~Viewed[t].pending => Viewed'[t] = Viewed[t])
  <2>1. /\ Viewed'[t] = [said |-> said'[t], text |-> TextOf(Said', t), buffer |-> buffered'[t],
                         modes |-> modesOf'[t], pending |-> t \in unfinished',
                         ended |-> t \in ended', finished |-> IsClosed(Said', t)]
        /\ Viewed[t] = [said |-> said[t], text |-> TextOf(Said, t), buffer |-> buffered[t],
                        modes |-> modesOf[t], pending |-> t \in unfinished,
                        ended |-> t \in ended, finished |-> IsClosed(Said, t)]
    BY DEF Viewed, ViewsOf
  <2>2. Viewed'[t].ended = (t \in ended') /\ Viewed[t].ended = (t \in ended) /\ Viewed[t].pending = (t \in unfinished)
    BY <2>1
  <2>3. ASSUME t \notin unfinished PROVE Viewed'[t] = Viewed[t]
    <3>1. buffered'[t] = buffered[t] /\ (t \in unfinished') = (t \in unfinished)
      BY <1>3, <2>3
    <3> QED
      BY <1>1, <1>3, <1>4, <2>1, <3>1
  <2> HIDE DEF Viewed
  <2>4. ~Viewed[t].pending => t \notin unfinished
    BY <2>2, Zenon
  <2> QED
    BY <1>1, <2>2, <2>3, <2>4
<1>8. TurnsAre(Tail(Flight), Viewed', sent, adapter.turn)
  BY <1>1, <1>6, <1>7, ExitTurns
<1> QED
  BY <1>4, <1>5, <1>8, IngestNext

\* The events of a start leave the text as it is.
LEMMA StartedStep ==
    ASSUME TextInv, Ingest, Running, ingestion.event.type \in {"starting", "ready", "turn.started"}
    PROVE  NextText
<1> DEFINE e == ingestion.event
           m == SessionAfter(readModel, e, ingestion.session)
<1>1. /\ TypeInv /\ IsTold(readModel) /\ e \in Signals /\ IsTold(m) /\ MessagesOf(m) = Said
      /\ UNCHANGED <<said, ended>> /\ TurnsAre(Flight, Viewed, sent, adapter.turn)
      /\ Flight # <<>> /\ Head(Flight) = e
  BY IngestFacts, SessionSame
<1>2. readModel' = m /\ UNCHANGED <<buffered, unfinished, modesOf>>
  BY DEF Ingest
<1> HIDE DEF m
<1>3. Said' = Said /\ IsTold(readModel')
  BY <1>1, <1>2 DEF Said
<1>4. Viewed' = Viewed
  BY <1>1, <1>2, <1>3 DEF Viewed
<1>5. Viewed \in [Turns -> Views]
  BY <1>1 DEF TurnsAre
<1>6. \A t \in Turns : ~Concerns(Head(Flight), t)
  BY <1>1 DEF Concerns
<1>7. TurnsAre(Tail(Flight), Viewed', sent, adapter.turn)
  BY <1>1, <1>4, <1>5, <1>6, IngestedTurns
<1>8. buffered' \in [Turns -> Seq(Nat)] /\ modesOf' \in [Turns -> SUBSET DeliveryModes] /\ unfinished' \subseteq Turns
  BY <1>1, <1>2 DEF TypeInv
<1> QED
  BY <1>3, <1>7, <1>8, IngestNext

-----------------------------------------------------------------------------
(* The invariant holds *)

\* At the beginning nothing is in flight and every turn is fresh.
LEMMA TextInit == Init => TextInv
<1> SUFFICES ASSUME Init PROVE TextInv
  OBVIOUS
<1>1. SInv
  BY QInit DEF Init, Idle, NoSession, SInv, SessionsAreMapped
<1>2. IsModel(readModel) /\ Said = <<>>
  <2>1. AnswerInv
    BY AnswerInit
  <2>2. /\ "threads" \in DOMAIN readModel
        /\ readModel.threads = [x \in {T} |-> InitialThread]
    BY DEF Init, createEmptyReadModel
  <2>3. InitialThread.messages = <<>>
    BY DEF InitialThread, NewThread
  <2> QED
    BY <2>1, <2>2, <2>3 DEF AnswerInv, IsKept, Said, MessagesOf
<1>3. IsTalk(<<>>) /\ Users(<<>>) = {}
  BY DEF IsTalk, Users
<1>4. IsTold(readModel)
  BY <1>2, <1>3 DEF IsTold, Said
<1>5. TypeInv
  <2>1. <<>> \in Seq(Nat) /\ <<>> \in Seq(Signals) /\ <<>> \in Seq(DeliveryModes)
    OBVIOUS
  <2> QED
    BY <2>1 DEF Init, TypeInv, DeliveryModes
<1>6. MapInv
  BY DEF Init, MapInv, NoSession
<1>7. OrderInv
  <2>1. IsFiniteSet({}) /\ Cardinality({}) = 0
    BY FS_EmptySet
  <2>2. reactor = Idle /\ commandQueue = <<>> /\ sent = {}
    BY DEF Init
  <2>3. InHand(reactor) = {} /\ Queued(commandQueue) = {} /\ Starts(commandQueue) = {}
    BY <2>2 DEF InHand, Idle, Queued, Starts
  <2> QED
    BY <1>2, <1>3, <2>1, <2>2, <2>3 DEF OrderInv, Ordered
<1>8. Flight = <<>> /\ sent = {} /\ adapter.turn = Null
  BY DEF Init, Flight, InFlight, NoSession
<1>9. Viewed \in [Turns -> Views]
  BY <1>4, <1>5, ViewsTyped DEF TypeInv, IsTold, Said, Viewed
<1>10. ASSUME NEW t \in Turns PROVE Fresh(Flight, Viewed[t], t) /\ ~Viewed[t].ended /\ t # Null
  <2>1. /\ Viewed[t].said = said[t] /\ Viewed[t].text = TextOf(Said, t)
        /\ Viewed[t].buffer = buffered[t] /\ Viewed[t].modes = modesOf[t]
        /\ Viewed[t].pending = (t \in unfinished) /\ Viewed[t].ended = (t \in ended)
    BY ViewFacts DEF Viewed
  <2>2. TextOf(Said, t) = <<>>
    BY <1>2, TextNowhere DEF Ids
  <2>3. /\ said[t] = <<>> /\ buffered[t] = <<>> /\ modesOf[t] = {}
        /\ t \notin unfinished /\ t \notin ended
    BY DEF Init
  <2> HIDE DEF Viewed
  <2>4. ~Viewed[t].pending /\ ~Viewed[t].ended
    BY <2>1, <2>3, Zenon
  <2>5. t # Null
    BY TurnsFacts, LifecycleAssumption
  <2> QED
    BY <1>8, <2>1, <2>2, <2>3, <2>4, <2>5 DEF Fresh
<1>11. TurnsAre(Flight, Viewed, sent, adapter.turn)
  <2>1. <<>> \in Seq(Signals)
    OBVIOUS
  <2> QED
    BY <1>8, <1>9, <1>10, <2>1 DEF TurnsAre
<1> QED
  BY <1>1, <1>4, <1>5, <1>6, <1>7, <1>11 DEF TextInv

\* Every step keeps the invariant.
LEMMA TextStep ==
    ASSUME Codex, Room, TextInv, Next
    PROVE  TextInv'
<1>1. SInv /\ SInv' /\ Running /\ QInv
  BY StepKeepsMap DEF TextInv, Next, SInv
<1>2. CASE User
  BY <1>1, <1>2, UserStep DEF NextText, TextInv
<1>3. CASE Reactor
  BY <1>1, <1>3, ReactorStep DEF NextText, TextInv
<1>4. CASE StopAll
  BY <1>1, <1>4 DEF StopAll, TextInv
<1>5. CASE Provider
  BY <1>1, <1>5, SayStep, ItemStep, TurnStep, DeathStep DEF Provider, NextText, TextInv
<1>6. CASE TakeMode \/ TakeRuntimeEvent
  BY <1>1, <1>6, TakeStep DEF NextText, TextInv
<1>7. CASE Ingest
  <2>1. ingestion.event \in Signals
    BY <1>1, <1>7, IngestFacts
  <2>2. ingestion.event.type \in {"delta", "item.completed", "turn.completed", "session.exited",
                                  "starting", "ready", "turn.started"}
    BY <2>1 DEF Signals
  <2>3. NextText
    BY <1>1, <1>7, <2>2, DeltaStep, ItemCompletedStep, TurnCompletedStep, ExitStep, StartedStep
  <2> QED
    BY <1>1, <2>3 DEF NextText, TextInv
<1> QED
  BY <1>2, <1>3, <1>4, <1>5, <1>6, <1>7 DEF Next, Ingestion

\* Nothing is in flight: what was said in a turn that ended is in its message.
LEMMA TextArrived == TextInv => TextIsComplete
<1> SUFFICES ASSUME TextInv, IngestionSettled, NEW t \in ended, said[t] # <<>>
             PROVE  \E m \in ToSet(Thread.messages) :
                        /\ m.id = t /\ ~m.streaming
                        /\ Len(m.text) = Len(said[t]) /\ ToSet(m.text) = ToSet(said[t])
                        /\ Cardinality(modesOf[t]) <= 1 => m.text = said[t]
  BY DEF TextIsComplete
<1>1. TypeInv /\ IsTold(readModel) /\ TurnsAre(Flight, Viewed, sent, adapter.turn)
  BY DEF TextInv, IngestionSettled
<1>2. Flight = <<>>
  BY DEF Flight, InFlight, IngestionSettled
<1>3. t \in Turns
  BY <1>1 DEF TypeInv
<1> DEFINE v == Viewed[t]
<1>4. /\ v.said = said[t] /\ v.text = TextOf(Said, t) /\ v.modes = modesOf[t]
      /\ v.ended = (t \in ended) /\ v.finished = IsClosed(Said, t)
  BY <1>3, ViewFacts DEF Viewed
<1> HIDE DEF v
<1>5. v.ended
  BY <1>4, Zenon
<1>6. ~Open(<<>>, v, t)
  BY <1>5 DEF Open, Ends
<1>7. Final(<<>>, v, t)
  BY <1>1, <1>2, <1>3, <1>5, <1>6 DEF TurnsAre, v
<1>8. /\ v.finished /\ Len(v.text) = Len(v.said) /\ ToSet(v.text) = ToSet(v.said)
      /\ Alike(v) => v.text = v.said
  BY <1>4, <1>7 DEF Final
<1>9. IsClosed(Said, t)
  BY <1>4, <1>8, Zenon
<1>10. PICK i \in DOMAIN Said : Said[i].id = t /\ ~Said[i].streaming
  BY <1>9 DEF IsClosed
<1>11. TextOf(Said, t) = Said[i].text
  BY <1>1, <1>10, TextAt DEF IsTold, Said
<1>12. Said[i] \in ToSet(Thread.messages)
  BY <1>10 DEF Said, MessagesOf, Thread, ToSet
<1>13. Cardinality(modesOf[t]) <= 1 => Alike(v)
  BY <1>4 DEF Alike
<1> QED
  BY <1>4, <1>8, <1>10, <1>11, <1>12, <1>13

\* What the assistant said in a turn that was completed is in its message once the
\* runtime events are processed: every chunk once, in order if all met one delivery mode,
\* whatever was buffered, spilled, flushed at the end or given only by the completed item,
\* and however sessions are restarted, stopped, or die in between.
THEOREM TextIsCompleteHolds ==
    ASSUME Codex, Room
    PROVE  Spec => []TextIsComplete
<1>1. TextInv /\ [Next]_vars => TextInv'
  <2>1. TextInv /\ UNCHANGED vars => TextInv'
    BY DEF vars, provider, buffers, TextInv, SInv, QInv, IsRun, SessionsAreMapped, TypeInv, MapInv,
           IsTold, OrderInv, Flight, Viewed, Said
  <2> QED
    BY <2>1, TextStep
<1> QED
  BY <1>1, TextInit, TextArrived, PTL DEF Spec

(***************************************************************************)
(* The session that the thread shows and the turn that runs.  What is in   *)
(* flight between them is read as what the read model is still owed: each  *)
(* turn that is shown or about to be is the one that runs or is closed by  *)
(* an event in flight (WillClose); the one that runs is shown once all is  *)
(* processed (WillShow); and nothing starts before the one shown is closed *)
(* (InTurn), so that the session that the ingestion read some time before  *)
(* does not bring back a turn that the reactor has cleared (ReadBefore).   *)
(* BoundInv adds the row of the provider session directory.                *)
(***************************************************************************)

\* The turn of a session.
TurnOf(session) == IF session = Null THEN Null ELSE session.activeTurnId

\* What ends the turn that is shown, and what may only come when none is.
Closes(e, turn) == e.type = "session.exited" \/ (e.type = "turn.completed" /\ e.turn = turn)
Starting == {"starting", "ready", "turn.started"}

\* Of the events in flight none starts anything before the turn that is shown, or that an
\* earlier one starts, is closed.
InTurn(F, a) ==
    /\ \A i, j \in DOMAIN F : F[i].type = "turn.started" /\ F[j].type \in Starting /\ i < j
          => \E k \in DOMAIN F : i < k /\ k < j /\ Closes(F[k], F[i].turn)
    /\ a # Null => \A j \in DOMAIN F : F[j].type \in Starting
          => \E k \in DOMAIN F : k < j /\ Closes(F[k], a)

\* Each of these turns is the one that runs, or will be closed.
WillClose(F, a, turn) ==
    /\ \A i \in DOMAIN F : F[i].type = "turn.started"
          => F[i].turn = turn \/ \E k \in DOMAIN F : i < k /\ Closes(F[k], F[i].turn)
    /\ a # Null => a = turn \/ \E k \in DOMAIN F : Closes(F[k], a)

\* The turn that runs is about to be shown, or is, or else the session is shown as stopped.
WillShow(F, session, turn) ==
    turn # Null =>
        \/ \E i \in DOMAIN F : /\ F[i].type = "turn.started" /\ F[i].turn = turn
                               /\ \A k \in DOMAIN F : k > i => F[k].type = "delta"
        \/ /\ \A k \in DOMAIN F : F[k].type = "delta"
           /\ TurnOf(session) = turn \/ session = Null \/ session.status = "stopped"

\* A session that is gone has said so.
SaidGone(F) == F = <<>> \/ F[Len(F)].type = "session.exited"

\* The session that the ingestion read is the thread's, or the reactor has cleared that since.
ReadBefore ==
    ingestion # Nothing =>
        /\ TurnOf(ingestion.session) = TurnOf(Thread.session) \/ TurnOf(Thread.session) = Null
        /\ ingestion.event.type \in Starting => TurnOf(ingestion.session) = Null

\* What the queues and the text that was said consist of.
SignalsInv ==
    /\ runtimeQueue \in Seq(Signals) /\ (ingestion # Nothing => ingestion.event \in Signals)
    /\ said \in [Turns -> Seq(Nat)]

\* The directory has a row for every session that runs, and without a row the thread
\* shows none, or will not once an exit is processed or the stop is marked.
BoundInv ==
    /\ ~bound => ~adapter.active
    /\ ~bound => Flight # <<>> \/ ~HasSession(Thread) \/ reactor.phase = "markStopped"
    /\ ~adapter.active => SaidGone(Flight)
    /\ reactor.phase = "bind" => bound /\ adapter.turn = Null
    /\ adapter.alive => adapter.active

\* What is owed to the thread's session.
ShownOf(F, session, turn) ==
    /\ InTurn(F, TurnOf(session))
    /\ WillClose(F, TurnOf(session), turn)
    /\ WillShow(F, session, turn)
ShownInv == ShownOf(Flight, Thread.session, adapter.turn)

\* The inductive invariant.  Once the server is closed only the workers' part is claimed.
SessionInv ==
    /\ SInv
    /\ reactor.phase # "closed" =>
          IsModel(readModel) /\ SignalsInv /\ MapInv /\ ShownInv /\ ReadBefore /\ BoundInv

-----------------------------------------------------------------------------
(* What an event does to what is in flight *)

\* An event that is emitted: it starts something only while no turn runs, and the turn
\* that runs afterwards is the one before, or started by it, or none since it closes that.
Emitted(e, u, v) ==
    /\ e.type \in Starting => u = Null
    /\ e.type = "turn.started" => e.turn = v
    /\ v = u \/ u = Null \/ Closes(e, u)

\* Events of the signals.
LEMMA SignalTurns ==
    \A e \in Signals : e.type = "turn.started" => e.turn \in Turns /\ e.turn # Null
BY TurnsFacts, LifecycleAssumption DEF Signals

\* What is emitted keeps the order.
LEMMA EmittedInTurn ==
    ASSUME NEW F \in Seq(Signals), NEW e \in Signals, NEW a, NEW u, NEW v,
           InTurn(F, a), WillClose(F, a, u), Emitted(e, u, v)
    PROVE  InTurn(Append(F, e), a) /\ WillClose(Append(F, e), a, v)
<1> DEFINE H == Append(F, e)
           n == Len(F) + 1
<1>1. /\ H \in Seq(Signals) /\ DOMAIN H = 1..n /\ DOMAIN F = 1..(n - 1) /\ n \in Nat /\ n > 0
      /\ H[n] = e /\ \A i \in 1..(n - 1) : H[i] = F[i]
  OBVIOUS
<1>2. \A i \in DOMAIN F : F[i].type = "turn.started" => F[i].turn # Null
  BY SignalTurns, ElementOfSeq
<1> HIDE DEF H, n
<1>3. \A i \in 1..n : i \in 1..(n - 1) \/ i = n
  BY <1>1
<1>4. \A i \in 1..(n - 1) : i \in 1..n /\ i < n
  BY <1>1
<1>5. e.type \in Starting => /\ \A i \in DOMAIN F : F[i].type = "turn.started"
                                 => \E k \in DOMAIN F : i < k /\ Closes(F[k], F[i].turn)
                             /\ a # Null => \E k \in DOMAIN F : Closes(F[k], a)
  BY <1>2 DEF WillClose, Emitted
<1>6. InTurn(H, a)
  <2>1. ASSUME NEW i \in DOMAIN H, NEW j \in DOMAIN H, H[i].type = "turn.started",
               H[j].type \in Starting, i < j
        PROVE  \E k \in DOMAIN H : i < k /\ k < j /\ Closes(H[k], H[i].turn)
    <3>1. i \in 1..(n - 1) /\ H[i] = F[i]
      BY <1>1, <1>3, <2>1
    <3>2. CASE j = n
      <4>1. PICK k \in DOMAIN F : i < k /\ Closes(F[k], F[i].turn)
        BY <1>1, <1>5, <2>1, <3>1, <3>2
      <4> QED
        BY <1>1, <1>4, <3>1, <3>2, <4>1
    <3>3. CASE j # n
      <4>1. j \in 1..(n - 1) /\ H[j] = F[j]
        BY <1>1, <1>3, <3>3
      <4>2. PICK k \in DOMAIN F : i < k /\ k < j /\ Closes(F[k], F[i].turn)
        BY <1>1, <2>1, <3>1, <4>1 DEF InTurn
      <4> QED
        BY <1>1, <1>4, <3>1, <4>2
    <3> QED
      BY <3>2, <3>3
  <2>2. ASSUME a # Null, NEW j \in DOMAIN H, H[j].type \in Starting
        PROVE  \E k \in DOMAIN H : k < j /\ Closes(H[k], a)
    <3>1. CASE j = n
      <4>1. PICK k \in DOMAIN F : Closes(F[k], a)
        BY <1>1, <1>5, <2>2, <3>1
      <4> QED
        BY <1>1, <1>4, <3>1, <4>1
    <3>2. CASE j # n
      <4>1. j \in 1..(n - 1) /\ H[j] = F[j]
        BY <1>1, <1>3, <3>2
      <4>2. PICK k \in DOMAIN F : k < j /\ Closes(F[k], a)
        BY <1>1, <2>2, <4>1 DEF InTurn
      <4> QED
        BY <1>1, <1>4, <4>2
    <3> QED
      BY <3>1, <3>2
  <2> QED
    BY <2>1, <2>2 DEF InTurn
<1>7. WillClose(H, a, v)
  <2>1. ASSUME NEW t, t # Null, t = u \/ \E k \in DOMAIN F : Closes(F[k], t)
        PROVE  t = v \/ \E k \in DOMAIN H : Closes(H[k], t)
    BY <1>1, <1>4, <2>1 DEF Emitted
  <2>2. ASSUME NEW i \in DOMAIN H, H[i].type = "turn.started"
        PROVE  H[i].turn = v \/ \E k \in DOMAIN H : i < k /\ Closes(H[k], H[i].turn)
    <3>1. CASE i = n
      BY <1>1, <2>2, <3>1 DEF Emitted
    <3>2. CASE i # n
      <4>1. i \in 1..(n - 1) /\ H[i] = F[i] /\ i < n /\ n \in DOMAIN H
        BY <1>1, <1>3, <1>4, <3>2
      <4>2. F[i].turn # Null
        BY <1>1, <1>2, <2>2, <4>1
      <4>3. F[i].turn = u \/ \E k \in DOMAIN F : i < k /\ Closes(F[k], F[i].turn)
        BY <1>1, <2>2, <4>1 DEF WillClose
      <4>4. CASE F[i].turn = u
        BY <1>1, <4>1, <4>2, <4>4 DEF Emitted
      <4>5. CASE \E k \in DOMAIN F : i < k /\ Closes(F[k], F[i].turn)
        BY <1>1, <1>4, <4>1, <4>5
      <4> QED
        BY <4>3, <4>4, <4>5
    <3> QED
      BY <3>1, <3>2
  <2> QED
    BY <2>1, <2>2 DEF WillClose
<1> QED
  BY <1>6, <1>7 DEF H

\* The turn that runs says something, or a turn was started: it will be shown.
LEMMA SaidShows ==
    ASSUME NEW F \in Seq(Signals), NEW e \in Signals, NEW session, NEW u, NEW v,
           \/ e.type = "turn.started" /\ e.turn = v
           \/ e.type = "delta" /\ v = u /\ WillShow(F, session, u)
    PROVE  WillShow(Append(F, e), session, v)
<1> DEFINE H == Append(F, e)
           n == Len(F) + 1
<1>1. /\ DOMAIN H = 1..n /\ DOMAIN F = 1..(n - 1) /\ n \in Nat /\ n > 0
      /\ H[n] = e /\ \A i \in 1..(n - 1) : H[i] = F[i]
  OBVIOUS
<1> HIDE DEF H, n
<1>2. \A i \in 1..n : i \in 1..(n - 1) \/ i = n
  BY <1>1
<1>3. \A i \in 1..(n - 1) : i \in 1..n /\ i < n
  BY <1>1
<1>4. CASE e.type = "turn.started" /\ e.turn = v
  BY <1>1, <1>2, <1>4 DEF WillShow, H
<1>5. CASE e.type = "delta" /\ v = u /\ WillShow(F, session, u)
  <2>1. ASSUME NEW i \in DOMAIN F, \A k \in DOMAIN F : k > i => F[k].type = "delta"
        PROVE  \A k \in DOMAIN H : k > i => H[k].type = "delta"
    BY <1>1, <1>2, <1>5, <2>1
  <2>2. (\A k \in DOMAIN F : F[k].type = "delta") => \A k \in DOMAIN H : H[k].type = "delta"
    BY <1>1, <1>2, <1>5
  <2> QED
    BY <1>1, <1>3, <1>5, <2>1, <2>2 DEF WillShow, H
<1> QED
  BY <1>4, <1>5

\* The turn shown after an event that was read with session s.
ShownAfter(e, s, a) ==
    IF e.type \in {"delta", "item.completed"} \/ ~AppliesToSession(e, TurnOf(s)) THEN a
    ELSE nextActiveTurnId(e, TurnOf(s))

\* An event is processed.
LEMMA Processed ==
    ASSUME NEW F \in Seq(Signals), F # <<>>, NEW s, NEW a, NEW u, InTurn(F, a), WillClose(F, a, u),
           TurnOf(s) = a \/ a = Null, Head(F).type \in Starting => TurnOf(s) = Null
    PROVE  InTurn(Tail(F), ShownAfter(Head(F), s, a)) /\ WillClose(Tail(F), ShownAfter(Head(F), s, a), u)
<1> DEFINE e == Head(F)
           G == Tail(F)
           b == ShownAfter(e, s, a)
           n == Len(F)
<1>1. /\ n \in Nat /\ n > 0 /\ DOMAIN F = 1..n /\ DOMAIN G = 1..(n - 1) /\ e = F[1] /\ e \in Signals
      /\ \A i \in 1..(n - 1) : G[i] = F[i + 1]
  OBVIOUS
<1> HIDE DEF e, G, n
<1>2. /\ \A i \in 1..n : i = 1 \/ (i - 1 \in 1..(n - 1) /\ G[i - 1] = F[i])
      /\ \A i \in 1..(n - 1) : i + 1 \in 1..n /\ i + 1 > 1
  BY <1>1
<1>3. e.type \in {"delta", "item.completed", "turn.completed", "turn.started", "starting", "ready", "session.exited"}
  BY <1>1 DEF Signals
<1>4. \/ b = a /\ ~(a # Null /\ Closes(e, a))
      \/ b = Null
      \/ e.type = "turn.started" /\ b = e.turn
  <2>1. CASE e.type \in {"delta", "item.completed"}
    BY <2>1 DEF ShownAfter, Closes
  <2>2. CASE e.type = "turn.completed"
    BY <2>2 DEF AppliesToSession, nextActiveTurnId, ShownAfter, Closes
  <2>3. CASE e.type = "turn.started"
    BY <2>3 DEF AppliesToSession, nextActiveTurnId, ShownAfter, Closes
  <2>4. CASE e.type \in {"starting", "ready"}
    <3>1. TurnOf(s) = Null
      BY <2>4 DEF Starting, e
    <3> QED
      BY <2>4, <3>1 DEF AppliesToSession, nextActiveTurnId, ShownAfter
  <2>5. CASE e.type = "session.exited"
    BY <2>5 DEF AppliesToSession, nextActiveTurnId, ShownAfter
  <2> QED
    BY <1>3, <2>1, <2>2, <2>3, <2>4, <2>5
<1> HIDE DEF b
<1>0. \A k \in 1..n : k # 1 => k - 1 \in 1..(n - 1) /\ G[k - 1] = F[k] /\ \A i, j \in Nat : i + 1 < k /\ k < j + 1 => i < k - 1 /\ k - 1 < j
  BY <1>1, <1>2
<1>9. \A i \in 1..(n - 1) : i \in Nat /\ i + 1 \in 1..n /\ G[i] = F[i + 1] /\ 1 < i + 1 /\ 0 \in Nat /\ 0 + 1 = 1
  BY <1>1
<1>10. \A k \in 1..n : 1 < k => k # 1
  BY <1>1
<1>11. \A k \in 1..n, i \in 1..(n - 1) : i + 1 < k => k # 1 /\ 1 < k
  BY <1>1
<1>12. \A i, j \in 1..(n - 1) : i < j => i + 1 < j + 1
  BY <1>1
<1>5. \A i, j \in DOMAIN G : G[i].type = "turn.started" /\ G[j].type \in Starting /\ i < j
         => \E k \in DOMAIN G : i < k /\ k < j /\ Closes(G[k], G[i].turn)
  <2> SUFFICES ASSUME NEW i \in DOMAIN G, NEW j \in DOMAIN G, G[i].type = "turn.started",
                      G[j].type \in Starting, i < j
               PROVE  \E k \in DOMAIN G : i < k /\ k < j /\ Closes(G[k], G[i].turn)
    OBVIOUS
  <2>1. i + 1 \in DOMAIN F /\ j + 1 \in DOMAIN F /\ i + 1 < j + 1 /\ G[i] = F[i + 1] /\ G[j] = F[j + 1]
        /\ i \in Nat /\ j \in Nat /\ i \in 1..(n - 1)
    BY <1>1, <1>9, <1>12
  <2>2. PICK k \in DOMAIN F : i + 1 < k /\ k < j + 1 /\ Closes(F[k], F[i + 1].turn)
    BY <2>1 DEF InTurn
  <2>3. k \in 1..n /\ k # 1
    BY <1>1, <1>11, <2>1, <2>2
  <2>4. k - 1 \in DOMAIN G /\ G[k - 1] = F[k] /\ i < k - 1 /\ k - 1 < j
    BY <1>0, <1>1, <2>1, <2>2, <2>3
  <2> QED
    BY <2>1, <2>2, <2>4
<1>6. b # Null => \A j \in DOMAIN G : G[j].type \in Starting => \E k \in DOMAIN G : k < j /\ Closes(G[k], b)
  <2> SUFFICES ASSUME b # Null, NEW j \in DOMAIN G, G[j].type \in Starting
               PROVE  \E k \in DOMAIN G : k < j /\ Closes(G[k], b)
    OBVIOUS
  <2>1. j + 1 \in DOMAIN F /\ G[j] = F[j + 1] /\ j \in Nat /\ 1 < j + 1 /\ 1 \in DOMAIN F
    BY <1>1, <1>9
  <2>2. PICK k \in DOMAIN F : k # 1 /\ k < j + 1 /\ Closes(F[k], b)
    <3>1. CASE b = a /\ ~(a # Null /\ Closes(e, a))
      <4>1. PICK k \in DOMAIN F : k < j + 1 /\ Closes(F[k], a)
        BY <2>1, <3>1 DEF InTurn
      <4>2. k # 1
        BY <1>1, <3>1, <4>1
      <4> QED
        BY <3>1, <4>1, <4>2
    <3>2. CASE e.type = "turn.started" /\ b = e.turn
      <4>1. PICK k \in DOMAIN F : 1 < k /\ k < j + 1 /\ Closes(F[k], F[1].turn)
        BY <1>1, <2>1, <3>2 DEF InTurn
      <4> QED
        BY <1>1, <1>10, <3>2, <4>1
    <3> QED
      BY <1>4, <3>1, <3>2
  <2>3. k - 1 \in DOMAIN G /\ G[k - 1] = F[k]
    BY <1>0, <1>1, <2>2
  <2>4. k - 1 < j
    BY <1>1, <2>1, <2>2
  <2> QED
    BY <2>2, <2>3, <2>4
<1>7. \A i \in DOMAIN G : G[i].type = "turn.started"
         => G[i].turn = u \/ \E k \in DOMAIN G : i < k /\ Closes(G[k], G[i].turn)
  <2> SUFFICES ASSUME NEW i \in DOMAIN G, G[i].type = "turn.started", G[i].turn # u
               PROVE  \E k \in DOMAIN G : i < k /\ Closes(G[k], G[i].turn)
    OBVIOUS
  <2>1. i + 1 \in DOMAIN F /\ G[i] = F[i + 1] /\ i \in Nat /\ i \in 1..(n - 1)
    BY <1>1, <1>9
  <2>2. PICK k \in DOMAIN F : i + 1 < k /\ Closes(F[k], F[i + 1].turn)
    BY <2>1 DEF WillClose
  <2>3. k \in 1..n /\ k # 1
    BY <1>1, <1>11, <2>1, <2>2
  <2>4. k - 1 \in DOMAIN G /\ G[k - 1] = F[k]
    BY <1>0, <1>1, <2>3
  <2>5. i < k - 1
    BY <1>1, <2>1, <2>2
  <2> QED
    BY <2>1, <2>2, <2>4, <2>5
<1>8. b # Null => b = u \/ \E k \in DOMAIN G : Closes(G[k], b)
  <2> SUFFICES ASSUME b # Null, b # u PROVE \E k \in DOMAIN G : Closes(G[k], b)
    OBVIOUS
  <2>1. PICK k \in DOMAIN F : k # 1 /\ Closes(F[k], b)
    <3>1. CASE b = a /\ ~(a # Null /\ Closes(e, a))
      <4>1. PICK k \in DOMAIN F : Closes(F[k], a)
        BY <3>1 DEF WillClose
      <4> QED
        BY <1>1, <3>1, <4>1
    <3>2. CASE e.type = "turn.started" /\ b = e.turn
      <4>1. 1 \in DOMAIN F /\ F[1] = e
        BY <1>1
      <4>2. PICK k \in DOMAIN F : 1 < k /\ Closes(F[k], F[1].turn)
        BY <3>2, <4>1 DEF WillClose
      <4> QED
        BY <1>1, <1>10, <3>2, <4>1, <4>2
    <3> QED
      BY <1>4, <3>1, <3>2
  <2>2. k - 1 \in DOMAIN G /\ G[k - 1] = F[k]
    BY <1>0, <1>1, <2>1
  <2> QED
    BY <2>1, <2>2
<1> QED
  BY <1>5, <1>6, <1>7, <1>8 DEF InTurn, WillClose, e, G, b

-----------------------------------------------------------------------------
(* What each command does to the session *)

SameSession(m, n) == IsModel(n) /\ n.threads[T].session = m.threads[T].session

\* A change of other fields of the thread leaves the session.
LEMMA PatchSession ==
    ASSUME NEW m, IsModel(m), NEW n, IsModel(n), NEW p, n.threads[T] = Patch(m.threads[T], p)
    PROVE  /\ "session" \notin DOMAIN p => SameSession(m, n)
           /\ "session" \in DOMAIN p => n.threads[T].session = p.session
BY DEF SameSession, IsModel, Patch, ThreadFields

\* A session that is set is the thread's.
LEMMA SetSessionSets ==
    ASSUME NEW m, IsModel(m), NEW status, NEW turn, NEW mode
    PROVE  LET n == SetSession(m, status, turn, mode)
           IN  /\ IsModel(n)
               /\ n.threads[T].session = [status |-> status, activeTurnId |-> turn, runtimeMode |-> mode]
<1> DEFINE n == SetSession(m, status, turn, mode)
           s == [status |-> status, activeTurnId |-> turn, runtimeMode |-> mode]
           p == SessionPatch(m.threads[T], s)
<1>1. IsModel(n) /\ n.threads[T] = Patch(m.threads[T], p)
  BY SetSessionFacts
<1>2. "session" \in DOMAIN p /\ p.session = s
  BY DEF SessionPatch
<1> HIDE DEF n, p, s
<1>3. n.threads[T].session = s
  BY <1>1, <1>2, PatchSession
<1> QED
  BY <1>1, <1>3 DEF n, s

\* A mode, a failure and what is said leave the session.
LEMMA SetModeSession ==
    ASSUME NEW m, IsModel(m), NEW mode
    PROVE  SameSession(m, dispatch(m, [type |-> "thread.runtime-mode.set", runtimeMode |-> mode]))
<1> DEFINE n == dispatch(m, [type |-> "thread.runtime-mode.set", runtimeMode |-> mode])
           p == [runtimeMode |-> mode]
<1>1. IsModel(n) /\ n.threads[T] = Patch(m.threads[T], p)
  BY SetModeFacts
<1>2. "session" \notin DOMAIN p
  OBVIOUS
<1> HIDE DEF n, p
<1>3. SameSession(m, n)
  BY <1>1, <1>2, PatchSession
<1> QED
  BY <1>3 DEF n

LEMMA FailureSession ==
    ASSUME NEW m, IsModel(m), NEW id
    PROVE  SameSession(m, FailureActivity(m, id))
<1> DEFINE n == FailureActivity(m, id)
           p == [activities |-> KeepLast(UpsertById(m.threads[T].activities, [id |-> id, turnId |-> Null]),
                                         MAX_THREAD_ACTIVITIES)]
<1>1. IsModel(n) /\ n.threads[T] = Patch(m.threads[T], p)
  BY FailureFacts
<1>2. "session" \notin DOMAIN p
  OBVIOUS
<1> HIDE DEF n, p
<1>3. SameSession(m, n)
  BY <1>1, <1>2, PatchSession
<1> QED
  BY <1>3 DEF n

\* A change of the messages leaves the session.
LEMMA MessagesSession ==
    ASSUME NEW m, IsModel(m), NEW n, IsModel(n), NEW q, n.threads[T] = Patch(m.threads[T], [messages |-> q])
    PROVE  SameSession(m, n)
<1> DEFINE p == [messages |-> q]
<1>1. "session" \notin DOMAIN p
  OBVIOUS
<1> HIDE DEF p
<1>2. n.threads[T] = Patch(m.threads[T], p)
  BY DEF p
<1> QED
  BY <1>1, <1>2, PatchSession

LEMMA AskSession == ASSUME NEW m, IsModel(m), NEW id PROVE SameSession(m, AskTurn(m, id))
<1> DEFINE n == AskTurn(m, id)
<1>1. IsModel(n) /\ \E q : n.threads[T] = Patch(m.threads[T], [messages |-> q])
  BY TurnStartFacts
<1> HIDE DEF n
<1>2. SameSession(m, n)
  BY <1>1, MessagesSession
<1> QED
  BY <1>2 DEF n

LEMMA DeltaSession ==
    ASSUME NEW m, IsModel(m), NEW turn, NEW text
    PROVE  SameSession(m, AssistantDelta(m, turn, text))
<1>1. CASE text = <<>>
  BY <1>1 DEF AssistantDelta, SameSession
<1>2. CASE text # <<>>
  <2> DEFINE n == AssistantDelta(m, turn, text)
  <2>1. IsModel(n) /\ \E q : n.threads[T] = Patch(m.threads[T], [messages |-> q])
    BY <1>2, DeltaFacts
  <2> HIDE DEF n
  <2>2. SameSession(m, n)
    BY <2>1, MessagesSession
  <2> QED
    BY <2>2 DEF n
<1> QED
  BY <1>1, <1>2

LEMMA CompleteSession == ASSUME NEW m, IsModel(m), NEW turn PROVE SameSession(m, Complete(m, turn))
<1> DEFINE n == Complete(m, turn)
<1>1. IsModel(n) /\ \E q : n.threads[T] = Patch(m.threads[T], [messages |-> q])
  BY CompleteFacts
<1> HIDE DEF n
<1>2. SameSession(m, n)
  BY <1>1, MessagesSession
<1> QED
  BY <1>2 DEF n

LEMMA FinalizeSession ==
    ASSUME NEW m, IsModel(m), NEW turn, NEW text
    PROVE  SameSession(m, finalize(m, turn, text))
<1> DEFINE said0 == IF buffered[turn] # <<>> THEN buffered[turn] ELSE text
           n == AssistantDelta(m, turn, said0)
<1>1. finalize(m, turn, text) = Complete(n, turn)
  BY DEF finalize, Complete
<1>2. SameSession(m, n)
  BY DeltaSession
<1> HIDE DEF n
<1>3. SameSession(n, Complete(n, turn))
  BY <1>2, CompleteSession DEF SameSession
<1> QED
  BY <1>1, <1>2, <1>3 DEF SameSession

\* An event leads to a session, and nothing that follows it changes that.
LEMMA IngestSession ==
    ASSUME IsModel(readModel), Ingest
    PROVE  SameSession(SessionAfter(readModel, ingestion.event, ingestion.session), readModel')
<1> DEFINE event == ingestion.event
           m == SessionAfter(readModel, event, ingestion.session)
<1>1. IsModel(m)
  <2>1. m = readModel \/ \E status, turn, mode : m = SetSession(readModel, status, turn, mode)
    BY DEF SessionAfter
  <2> QED
    BY <2>1, SetSessionSets
<1> HIDE DEF m
<1>2. SameSession(m, m)
  BY <1>1 DEF SameSession
<1>3. CASE event.type = "delta"
  <2>1. Delta(m, event)
    BY <1>3 DEF Ingest, m
  <2>2. readModel' = m \/ \E text : readModel' = AssistantDelta(m, event.turn, text)
    BY <2>1 DEF Delta
  <2> QED
    BY <2>2, <1>1, <1>2, DeltaSession DEF m
<1>4. CASE event.type = "item.completed"
  <2>1. ItemCompleted(m, event)
    BY <1>4 DEF Ingest, m
  <2>2. \E text : readModel' = finalize(m, event.turn, text)
    BY <2>1 DEF ItemCompleted
  <2> QED
    BY <2>2, <1>1, <1>2, FinalizeSession DEF m
<1>5. CASE event.type \in {"turn.completed", "turn.failed"}
  <2>1. TurnCompleted(m, event)
    BY <1>5 DEF Ingest, m
  <2>2. readModel' = m \/ \E text : readModel' = finalize(m, event.turn, text)
    BY <2>1 DEF TurnCompleted
  <2> QED
    BY <2>2, <1>1, <1>2, FinalizeSession DEF m
<1>6. CASE event.type \notin {"delta", "item.completed", "turn.completed", "turn.failed"}
  <2>1. readModel' = m
    BY <1>6 DEF Ingest, SessionExited, m
  <2> QED
    BY <2>1, <1>2 DEF m
<1> QED
  BY <1>3, <1>4, <1>5, <1>6

\* The session after an event: it shows the turn that the event leads to, and an exit
\* leaves none.
LEMMA ShownSession ==
    ASSUME IsModel(readModel), Ingest
    PROVE  LET e == ingestion.event
           IN  /\ IsModel(readModel')
               /\ \/ Thread'.session = Null
                  \/ TurnOf(Thread'.session) = ShownAfter(e, ingestion.session, TurnOf(Thread.session))
               /\ e.type = "session.exited" => ~HasSession(Thread')
               /\ e.type = "delta" => Thread'.session = Thread.session
<1> DEFINE e == ingestion.event
           s == ingestion.session
           m == SessionAfter(readModel, e, s)
           mode == IF s = Null THEN Head(RuntimeModes) ELSE s.runtimeMode
           turn == nextActiveTurnId(e, TurnOf(s))
           x == [status |-> nextStatus(e, TurnOf(s)), activeTurnId |-> turn, runtimeMode |-> mode]
<1>1. IsModel(readModel') /\ Thread'.session = m.threads[T].session
  BY IngestSession DEF SameSession, Thread
<1>2. CASE e.type \in {"delta", "item.completed"} \/ ~AppliesToSession(e, TurnOf(s))
  <2>1. m = readModel
    BY <1>2 DEF SessionAfter, TurnOf
  <2>2. e.type # "session.exited"
    BY <1>2 DEF AppliesToSession
  <2> QED
    BY <1>1, <1>2, <2>1, <2>2 DEF ShownAfter, Thread
<1>3. CASE ~(e.type \in {"delta", "item.completed"} \/ ~AppliesToSession(e, TurnOf(s)))
  <2>1. m = SetSession(readModel, nextStatus(e, TurnOf(s)), turn, mode)
    BY <1>3 DEF SessionAfter, TurnOf
  <2>2. m.threads[T].session = x
    BY <2>1, SetSessionSets
  <2>3. x = Null \/ TurnOf(x) = turn
    BY DEF TurnOf
  <2>4. e.type = "session.exited" => x.status = "stopped"
    BY DEF nextStatus
  <2>5. ShownAfter(e, s, TurnOf(Thread.session)) = turn
    BY <1>3 DEF ShownAfter
  <2> QED
    BY <1>1, <1>3, <2>2, <2>3, <2>4, <2>5 DEF HasSession
<1> QED
  BY <1>2, <1>3

-----------------------------------------------------------------------------
(* What the Codex adapter emits *)

Exited == Event("session.exited", Null)
Begun == Event("starting", Null)
Started == Event("ready", Null)

LEMMA ExitedFacts ==
    /\ Exited \in Signals /\ Exited.type = "session.exited"
    /\ Started \in Signals /\ Started.type = "ready"
    /\ Begun \in Signals /\ Begun.type = "starting"
    /\ <<Exited>> \in Seq(Signals) /\ <<Begun>> \in Seq(Signals) /\ <<Started>> \in Seq(Signals)
    /\ <<Begun, Started>> \in Seq(Signals) /\ <<Begun, Exited>> \in Seq(Signals) /\ <<>> \in Seq(Signals)
<1>1. Exited \in Signals /\ Started \in Signals /\ Begun \in Signals
  BY DEF Exited, Started, Begun, Event, Signals
<1>2. Exited.type = "session.exited" /\ Started.type = "ready" /\ Begun.type = "starting"
  BY DEF Exited, Started, Begun, Event
<1> QED
  BY <1>1, <1>2

\* A stop is an exit; a start is the exit of the session that is replaced, and the two
\* events of a start; a start that fails begins and exits, if it got that far.
LEMMA CodexEmits ==
    ASSUME Codex
    PROVE  /\ \A a : /\ StopEvents(a) = <<Exited>>
                     /\ startSession(a).events = IF a.active THEN <<Exited>> \o <<Begun, Started>>
                                                             ELSE <<Begun, Started>>
                     /\ startSession(a).adapter.active = TRUE
                     /\ startSession(a).adapter.turn = Null
           /\ FailedStarts = {<<>>, <<Begun, Exited>>}
<1>1. /\ <<>> \o <<Exited>> = <<Exited>> /\ <<>> \o <<Begun, Started>> = <<Begun, Started>>
      /\ <<Begun>> \o <<Started>> = <<Begun, Started>>
  BY ConcatEmptySeq, ExitedFacts, PairIs
<1>2. \A a : StopEvents(a) = <<Exited>>
  BY <1>1 DEF StopEvents, Exited
<1>3. StartEvents = <<Begun, Started>> /\ FailedStarts = {<<>>, <<Begun, Exited>>}
  BY <1>1 DEF StartEvents, FailedStarts, Begun, Started, Exited
<1>4. \A a : StopsReplaced(a) <=> a.active
  BY DEF StopsReplaced
<1> QED
  BY <1>1, <1>2, <1>3, <1>4 DEF startSession

\* One event is emitted.
LEMMA OneEmitted ==
    ASSUME NEW F \in Seq(Signals), NEW e \in Signals, NEW a, NEW u, NEW v,
           InTurn(F, a), WillClose(F, a, u), Emitted(e, u, v)
    PROVE  LET H == F \o <<e>>
           IN  /\ H \in Seq(Signals) /\ H # <<>>
               /\ InTurn(H, a) /\ WillClose(H, a, v)
               /\ e.type = "session.exited" => SaidGone(H)
<1>1. F \o <<e>> = Append(F, e)
  BY AppendIs
<1>2. InTurn(Append(F, e), a) /\ WillClose(Append(F, e), a, v)
  BY EmittedInTurn
<1>3. Append(F, e) \in Seq(Signals) /\ Append(F, e) # <<>> /\ Append(F, e)[Len(Append(F, e))] = e
  OBVIOUS
<1> QED
  BY <1>1, <1>2, <1>3 DEF SaidGone

\* A session exits.
LEMMA ExitEmitted ==
    ASSUME NEW F \in Seq(Signals), NEW a, NEW u, InTurn(F, a), WillClose(F, a, u)
    PROVE  LET H == F \o <<Exited>>
           IN  H \in Seq(Signals) /\ H # <<>> /\ InTurn(H, a) /\ WillClose(H, a, Null) /\ SaidGone(H)
BY ExitedFacts, OneEmitted DEF Emitted, Closes, Starting

\* Two events of a session that starts while no turn runs.
LEMMA PairEmitted ==
    ASSUME NEW F \in Seq(Signals), NEW a, NEW x \in Signals, NEW y \in Signals,
           x.type # "turn.started", y.type # "turn.started", InTurn(F, a), WillClose(F, a, Null)
    PROVE  LET H == F \o <<x, y>>
           IN  /\ H \in Seq(Signals) /\ H # <<>> /\ InTurn(H, a) /\ WillClose(H, a, Null)
               /\ y.type = "session.exited" => SaidGone(H)
<1>1. Emitted(x, Null, Null) /\ Emitted(y, Null, Null)
  BY DEF Emitted
<1> DEFINE K == F \o <<x>>
<1>2. K \in Seq(Signals) /\ InTurn(K, a) /\ WillClose(K, a, Null)
  BY <1>1, OneEmitted
<1>3. <<x>> \in Seq(Signals) /\ <<y>> \in Seq(Signals) /\ <<x>> \o <<y>> = <<x, y>>
  BY PairIs
<1>4. F \o <<x, y>> = K \o <<y>>
  <2>1. F \o (<<x>> \o <<y>>) = (F \o <<x>>) \o <<y>>
    BY <1>3, ConcatAssociative
  <2> QED
    BY <2>1, <1>3
<1> HIDE DEF K
<1> QED
  BY <1>1, <1>2, <1>4, OneEmitted

\* A session starts, after the exit of the one that it replaces.
LEMMA StartEmitted ==
    ASSUME Codex, NEW F \in Seq(Signals), NEW a, NEW old, old.turn # Null => old.active,
           InTurn(F, a), WillClose(F, a, old.turn)
    PROVE  LET H == F \o startSession(old).events
           IN  H \in Seq(Signals) /\ H # <<>> /\ InTurn(H, a) /\ WillClose(H, a, Null)
               /\ startSession(old).events \in Seq(Signals)
<1> DEFINE x == <<Exited>>
           y == <<Begun, Started>>
<1>1. x \in Seq(Signals) /\ y \in Seq(Signals) /\ x \o y \in Seq(Signals)
  BY ExitedFacts, ConcatFacts
<1>2. ASSUME NEW K \in Seq(Signals), InTurn(K, a), WillClose(K, a, Null)
      PROVE  LET H == K \o y IN H \in Seq(Signals) /\ H # <<>> /\ InTurn(H, a) /\ WillClose(H, a, Null)
  BY <1>2, ExitedFacts, PairEmitted
<1>3. CASE old.active
  <2>1. startSession(old).events = x \o y
    BY <1>3, CodexEmits
  <2> DEFINE K == F \o x
  <2>2. K \in Seq(Signals) /\ InTurn(K, a) /\ WillClose(K, a, Null)
    BY ExitEmitted
  <2> HIDE DEF x, y
  <2>3. F \o (x \o y) = K \o y
    BY <1>1, ConcatAssociative
  <2> HIDE DEF K
  <2> QED
    BY <1>1, <1>2, <2>1, <2>2, <2>3
<1>4. CASE ~old.active
  <2>1. startSession(old).events = y /\ old.turn = Null
    BY <1>4, CodexEmits
  <2> HIDE DEF y
  <2> QED
    BY <1>1, <1>2, <2>1
<1> QED
  BY <1>3, <1>4

\* A session does not come up.
LEMMA FailEmitted ==
    ASSUME Codex, NEW F \in Seq(Signals), NEW a, NEW events \in FailedStarts,
           InTurn(F, a), WillClose(F, a, Null)
    PROVE  LET H == F \o events
           IN  /\ H \in Seq(Signals) /\ InTurn(H, a) /\ WillClose(H, a, Null)
               /\ F # <<>> => H # <<>>
               /\ SaidGone(F) => SaidGone(H)
               /\ events \in Seq(Signals)
<1>1. CASE events = <<>>
  BY <1>1, ConcatEmptySeq, ExitedFacts
<1>2. CASE events = <<Begun, Exited>>
  <2> DEFINE H == F \o <<Begun, Exited>>
  <2>1. H \in Seq(Signals) /\ H # <<>> /\ InTurn(H, a) /\ WillClose(H, a, Null) /\ SaidGone(H)
    BY ExitedFacts, PairEmitted
  <2> HIDE DEF H
  <2> QED
    BY <1>2, <2>1, ExitedFacts DEF H
<1> QED
  BY <1>1, <1>2, CodexEmits

-----------------------------------------------------------------------------
(* Steps *)

\* What is in flight has its type.
LEMMA FlightTyped ==
    ASSUME SessionInv, Running
    PROVE  /\ Flight \in Seq(Signals) /\ runtimeQueue \in Seq(Signals)
           /\ ingestion # Nothing => ingestion.event \in Signals
<1>1. SignalsInv
  BY DEF SessionInv, Running
<1>2. ingestion # Nothing => <<ingestion.event>> \in Seq(Signals)
  BY <1>1 DEF SignalsInv
<1> QED
  BY <1>1, <1>2, ConcatFacts DEF SignalsInv, Flight, InFlight

\* What a step that leaves the directory alone must establish.
NextShown == IsModel(readModel') /\ SignalsInv' /\ MapInv' /\ ShownInv' /\ ReadBefore'

\* What is emitted while the thread keeps its session.
LEMMA FlightNext ==
    ASSUME SessionInv, Running, SameSession(readModel, readModel'), UNCHANGED ingestion,
           said' \in [Turns -> Seq(Nat)], MapInv', runtimeQueue' \in Seq(Signals),
           ShownOf(Flight', Thread.session, adapter'.turn)
    PROVE  NextShown /\ Thread'.session = Thread.session
<1>1. IsModel(readModel) /\ SignalsInv /\ ShownInv /\ ReadBefore
  BY DEF SessionInv, Running
<1>2. IsModel(readModel') /\ Thread'.session = Thread.session
  BY DEF SameSession, Thread
<1>3. SignalsInv'
  BY <1>1 DEF SignalsInv
<1>4. ReadBefore'
  BY <1>1, <1>2 DEF ReadBefore
<1>5. ShownInv'
  BY <1>2 DEF ShownInv
<1> QED
  BY <1>2, <1>3, <1>4, <1>5 DEF NextShown

\* The same for what goes behind all that is in flight.
LEMMA EmittedNext ==
    ASSUME SessionInv, Running, SameSession(readModel, readModel'), UNCHANGED ingestion,
           said' \in [Turns -> Seq(Nat)], MapInv', NEW G \in Seq(Signals), runtimeQueue' = runtimeQueue \o G,
           ShownOf(Flight \o G, Thread.session, adapter'.turn)
    PROVE  NextShown /\ Flight' = Flight \o G /\ Thread'.session = Thread.session
<1>1. runtimeQueue \in Seq(Signals) /\ (ingestion # Nothing => ingestion.event \in Signals)
  BY DEF SessionInv, Running, SignalsInv
<1>2. runtimeQueue' \in Seq(Signals)
  BY <1>1, ConcatFacts
<1>3. Flight' = Flight \o G
  BY <1>1, FlightThen DEF Flight
<1> QED
  BY <1>2, <1>3, FlightNext

\* Nothing is emitted.
LEMMA NothingEmitted ==
    ASSUME SessionInv, Running, SameSession(readModel, readModel'),
           UNCHANGED <<ingestion, runtimeQueue, said, adapter>>
    PROVE  NextShown /\ Flight' = Flight /\ Thread'.session = Thread.session
<1>1. IsModel(readModel) /\ SignalsInv /\ ShownInv /\ ReadBefore /\ MapInv
  BY DEF SessionInv, Running
<1>2. IsModel(readModel') /\ Thread'.session = Thread.session
  BY DEF SameSession, Thread
<1>3. Flight' = Flight
  BY DEF Flight
<1>4. SignalsInv' /\ MapInv'
  BY <1>1 DEF SignalsInv, MapInv
<1>5. ReadBefore'
  BY <1>1, <1>2 DEF ReadBefore
<1>6. ShownInv'
  BY <1>1, <1>2, <1>3 DEF ShownInv
<1> QED
  BY <1>2, <1>3, <1>4, <1>5, <1>6 DEF NextShown

\* The thread's session has no turn any more.
LEMMA ClearedNext ==
    ASSUME SessionInv, Running, UNCHANGED <<ingestion, runtimeQueue, said, adapter>>,
           IsModel(readModel'), TurnOf(Thread'.session) = Null,
           adapter.turn = Null \/ ~HasSession(Thread')
    PROVE  NextShown /\ Flight' = Flight
<1>1. IsModel(readModel) /\ SignalsInv /\ ShownInv /\ ReadBefore /\ MapInv
  BY DEF SessionInv, Running
<1>2. Flight' = Flight
  BY DEF Flight
<1>3. SignalsInv' /\ MapInv'
  BY <1>1 DEF SignalsInv, MapInv
<1>4. ReadBefore'
  BY <1>1 DEF ReadBefore
<1>5. ShownInv'
  <2>1. InTurn(Flight, Null) /\ WillClose(Flight, Null, adapter.turn)
    BY <1>1 DEF ShownInv, ShownOf, InTurn, WillClose
  <2>2. WillShow(Flight, Thread'.session, adapter.turn)
    BY <1>1 DEF ShownInv, ShownOf, WillShow, HasSession
  <2> QED
    BY <1>2, <2>1, <2>2 DEF ShownInv, ShownOf
<1> QED
  BY <1>2, <1>3, <1>4, <1>5 DEF NextShown

\* The directory and the map are as before.
LEMMA BoundKept ==
    ASSUME BoundInv, UNCHANGED <<bound, adapter>>, Flight' = Flight, Thread'.session = Thread.session,
           reactor'.phase = "bind" => reactor.phase = "bind",
           reactor.phase = "markStopped" => reactor'.phase = "markStopped"
    PROVE  BoundInv'
<1>1. HasSession(Thread') <=> HasSession(Thread)
  BY DEF HasSession
<1> QED
  BY <1>1 DEF BoundInv

\* What the user asks for.
LEMMA UserShows == ASSUME SessionInv, Running, User PROVE NextShown /\ BoundInv'
<1>1. IsModel(readModel) /\ BoundInv
  BY DEF SessionInv, Running
<1>2. UNCHANGED <<reactor, runtimeQueue, ingestion, bound, said, adapter>>
  BY DEF User, StartTurn, SetRuntimeMode, Request, UserUnchanged, provider
<1>3. SameSession(readModel, readModel')
  <2>1. CASE \E t \in Turns, mode \in DeliveryModes : StartTurn(t, mode)
    <3>1. \E id : readModel' = AskTurn(readModel, id)
      BY <2>1 DEF StartTurn, AskTurn
    <3> QED
      BY <1>1, <3>1, AskSession
  <2>2. CASE \E mode \in ToSet(RuntimeModes) : SetRuntimeMode(mode)
    BY <1>1, <2>2, SetModeSession DEF SetRuntimeMode
  <2>3. CASE Request("interrupt") \/ Request("stop")
    BY <1>1, <2>3 DEF Request, SameSession
  <2> QED
    BY <2>1, <2>2, <2>3 DEF User
<1>4. NextShown /\ Flight' = Flight /\ Thread'.session = Thread.session
  BY <1>2, <1>3, NothingEmitted
<1> QED
  BY <1>1, <1>2, <1>4, BoundKept

\* The reactor takes a request, or a run ends with a call that failed before it did
\* anything.
LEMMA IdleShows ==
    ASSUME SessionInv, Running, UNCHANGED <<ingestion, runtimeQueue, said, adapter, bound>>,
           readModel' = readModel \/ \E id : readModel' = FailureActivity(readModel, id),
           reactor.phase # "markStopped", reactor'.phase # "bind"
    PROVE  NextShown /\ BoundInv'
<1>1. IsModel(readModel) /\ BoundInv
  BY DEF SessionInv, Running
<1>2. SameSession(readModel, readModel')
  BY <1>1, FailureSession DEF SameSession
<1>3. NextShown /\ Flight' = Flight /\ Thread'.session = Thread.session
  BY <1>2, NothingEmitted
<1> QED
  BY <1>1, <1>3, BoundKept

\* The reactor takes a request.
LEMMA TakeCommandShows ==
    ASSUME SessionInv, Running, TakeCommand
    PROVE  NextShown /\ BoundInv'
<1> DEFINE e == Head(commandQueue)
<1>1. QInv /\ e.type \in {"turn-start", "runtime-mode-set", "interrupt", "stop"}
  <2>1. QInv
    BY DEF SessionInv, SInv
  <2> QED
    BY <2>1, TakeRequest, RequestTypes
<1>2. UNCHANGED <<ingestion, runtimeQueue, said, adapter, bound>>
  BY DEF TakeCommand, ReactorUnchanged
<1>3. readModel' = readModel \/ \E id : readModel' = FailureActivity(readModel, id)
  BY DEF TakeCommand
<1>4. reactor.phase # "markStopped" /\ reactor'.phase # "bind"
  <2>1. reactor = Idle
    BY DEF TakeCommand
  <2>2. reactor' = Idle \/ \E phase \in Phases \ {"bind"} : reactor' = Run(phase, e)
    <3> HIDE DEF e
    <3>1. CASE e.type = "turn-start"
      BY <3>1 DEF TakeCommand, Phases, e
    <3>2. CASE e.type = "runtime-mode-set"
      BY <3>2 DEF TakeCommand, Phases, e
    <3>3. CASE e.type = "interrupt"
      BY <3>3 DEF TakeCommand, Phases, e
    <3>4. CASE e.type = "stop"
      BY <3>4 DEF TakeCommand, Phases, e
    <3> QED
      BY <1>1, <3>1, <3>2, <3>3, <3>4
  <2> QED
    BY <2>1, <2>2 DEF Idle, Run
<1> QED
  BY <1>2, <1>3, <1>4, IdleShows

\* A session that exits: no turn runs any more.
LEMMA ExitShows ==
    ASSUME SessionInv, Running, SameSession(readModel, readModel'), UNCHANGED <<ingestion, said>>,
           runtimeQueue' = runtimeQueue \o <<Exited>>, adapter'.turn = Null
    PROVE  /\ NextShown /\ Flight' # <<>> /\ SaidGone(Flight') /\ Thread'.session = Thread.session
<1>1. SignalsInv /\ ShownInv
  BY DEF SessionInv, Running
<1>2. Flight \in Seq(Signals)
  BY FlightTyped
<1> DEFINE H == Flight \o <<Exited>>
           a == TurnOf(Thread.session)
<1>3. InTurn(H, a) /\ WillClose(H, a, Null) /\ SaidGone(H) /\ H # <<>>
  BY <1>1, <1>2, ExitEmitted DEF ShownInv, ShownOf
<1>4. ShownOf(H, Thread.session, Null)
  BY <1>3 DEF ShownOf, WillShow
<1>5. <<Exited>> \in Seq(Signals)
  BY ExitedFacts
<1>6. said' \in [Turns -> Seq(Nat)] /\ MapInv'
  BY <1>1 DEF SignalsInv, MapInv
<1> HIDE DEF H
<1>7. NextShown /\ Flight' = H /\ Thread'.session = Thread.session
  BY <1>4, <1>5, <1>6, EmittedNext DEF H
<1> QED
  BY <1>3, <1>7

\* A session that starts: no turn runs in it.
LEMMA StartShows ==
    ASSUME Codex, SessionInv, Running, UNCHANGED <<readModel, ingestion, said>>,
           runtimeQueue' = runtimeQueue \o startSession(adapter).events,
           adapter' = startSession(adapter).adapter
    PROVE  /\ NextShown /\ Flight' # <<>> /\ adapter'.active = TRUE /\ adapter'.turn = Null
           /\ Thread'.session = Thread.session
<1>1. SignalsInv /\ ShownInv /\ MapInv /\ IsModel(readModel)
  BY DEF SessionInv, Running
<1>2. Flight \in Seq(Signals)
  BY FlightTyped
<1> DEFINE G == startSession(adapter).events
           H == Flight \o G
           a == TurnOf(Thread.session)
<1>3. InTurn(H, a) /\ WillClose(H, a, Null) /\ H # <<>> /\ G \in Seq(Signals)
  BY <1>1, <1>2, StartEmitted DEF ShownInv, ShownOf, MapInv
<1>4. ShownOf(H, Thread.session, Null)
  BY <1>3 DEF ShownOf, WillShow
<1>5. adapter'.active = TRUE /\ adapter'.turn = Null
  BY CodexEmits
<1>6. said' \in [Turns -> Seq(Nat)] /\ MapInv' /\ SameSession(readModel, readModel')
  BY <1>1, <1>5 DEF SignalsInv, MapInv, SameSession
<1> HIDE DEF G
<1>7. NextShown /\ Flight' = H /\ Thread'.session = Thread.session
  BY <1>3, <1>4, <1>5, <1>6, EmittedNext DEF G
<1> QED
  BY <1>3, <1>5, <1>7

\* A session that does not come up, after the exit of the one it was to replace.
LEMMA FailedShows ==
    ASSUME Codex, SessionInv, Running, SameSession(readModel, readModel'), UNCHANGED <<ingestion, said>>,
           NEW G, \/ G = <<>> /\ adapter.turn = Null
                  \/ G = <<Exited>>,
           NEW events \in FailedStarts, runtimeQueue' = runtimeQueue \o G \o events,
           adapter'.turn = Null
    PROVE  /\ NextShown /\ Thread'.session = Thread.session
           /\ G # <<>> \/ Flight # <<>> => Flight' # <<>>
           /\ G # <<>> \/ SaidGone(Flight) => SaidGone(Flight')
<1>1. SignalsInv /\ ShownInv
  BY DEF SessionInv, Running
<1>2. Flight \in Seq(Signals) /\ runtimeQueue \in Seq(Signals)
  BY FlightTyped
<1> DEFINE a == TurnOf(Thread.session)
           K == Flight \o G
           H == Flight \o (G \o events)
<1>3. /\ K \in Seq(Signals) /\ InTurn(K, a) /\ WillClose(K, a, Null) /\ G \in Seq(Signals)
      /\ G # <<>> \/ Flight # <<>> => K # <<>>
      /\ G # <<>> \/ SaidGone(Flight) => SaidGone(K)
  <2>1. CASE G = <<>> /\ adapter.turn = Null
    BY <1>1, <1>2, <2>1, ConcatEmptySeq, ExitedFacts DEF ShownInv, ShownOf
  <2>2. CASE G = <<Exited>>
    BY <1>1, <1>2, <2>2, ExitEmitted, ExitedFacts DEF ShownInv, ShownOf
  <2> QED
    BY <2>1, <2>2
<1>4. /\ K \o events \in Seq(Signals) /\ InTurn(K \o events, a) /\ WillClose(K \o events, a, Null)
      /\ K # <<>> => K \o events # <<>>
      /\ SaidGone(K) => SaidGone(K \o events)
      /\ events \in Seq(Signals)
  <2> HIDE DEF K
  <2> QED
    BY <1>3, FailEmitted
<1>5. K \o events = H /\ G \o events \in Seq(Signals) /\ runtimeQueue' = runtimeQueue \o (G \o events)
  <2>1. \A q \in Seq(Signals) : (q \o G) \o events = q \o (G \o events)
    BY <1>3, <1>4, ConcatAssociative
  <2> QED
    BY <1>2, <1>3, <1>4, <2>1, ConcatFacts
<1> HIDE DEF K
<1>6. ShownOf(H, Thread.session, Null)
  BY <1>4, <1>5 DEF ShownOf, WillShow
<1>7. said' \in [Turns -> Seq(Nat)] /\ MapInv'
  BY <1>1 DEF SignalsInv, MapInv
<1> HIDE DEF H
<1>8. NextShown /\ Flight' = H /\ Thread'.session = Thread.session
  BY <1>5, <1>6, <1>7, EmittedNext DEF H
<1> QED
  BY <1>3, <1>4, <1>5, <1>8

\* The same of a recovery.
LEMMA RecoveryShows ==
    ASSUME Codex, SessionInv, Running, RecoveryFails, UNCHANGED <<ingestion, said, adapter, bound>>,
           readModel' = readModel \/ \E id : readModel' = FailureActivity(readModel, id),
           reactor.phase # "markStopped", reactor'.phase # "bind"
    PROVE  NextShown /\ BoundInv'
<1>1. IsModel(readModel) /\ BoundInv /\ MapInv /\ runtimeQueue \in Seq(Signals)
  BY FlightTyped DEF SessionInv, Running
<1>2. PICK events \in (IF bound /\ ~adapter.active THEN FailedStarts ELSE {<<>>}) :
         runtimeQueue' = runtimeQueue \o events
  BY DEF RecoveryFails
<1>3. CASE bound /\ ~adapter.active
  <2>1. runtimeQueue' = runtimeQueue \o <<>> \o events /\ adapter.turn = Null
    BY <1>1, <1>2, <1>3, ConcatEmptySeq DEF MapInv
  <2>2. SameSession(readModel, readModel')
    BY <1>1, FailureSession DEF SameSession
  <2>3. NextShown /\ (SaidGone(Flight) => SaidGone(Flight'))
    BY <1>2, <1>3, <2>1, <2>2, FailedShows
  <2> QED
    BY <1>1, <1>3, <2>3 DEF BoundInv
<1>4. CASE ~(bound /\ ~adapter.active)
  <2>1. UNCHANGED runtimeQueue
    BY <1>1, <1>2, <1>4, ConcatEmptySeq
  <2> QED
    BY <2>1, IdleShows
<1> QED
  BY <1>3, <1>4

\* startSession adds the row of the directory.
LEMMA StartSessionShows ==
    ASSUME Codex, SessionInv, Running, StartSession
    PROVE  NextShown /\ BoundInv'
<1>1. /\ UNCHANGED <<readModel, ingestion, said>>
      /\ runtimeQueue' = runtimeQueue \o startSession(adapter).events
      /\ adapter' = startSession(adapter).adapter /\ bound' = TRUE
  BY DEF StartSession, ReactorUnchanged
<1>2. NextShown /\ adapter'.active = TRUE /\ adapter'.turn = Null
  BY <1>1, StartShows
<1> QED
  BY <1>1, <1>2 DEF BoundInv

\* A start that fails has stopped the session to be replaced.
LEMMA StartSessionFailsShows ==
    ASSUME Codex, SessionInv, Running, StartSessionFails
    PROVE  NextShown /\ BoundInv'
<1>1. /\ UNCHANGED <<ingestion, said, bound>> /\ reactor.phase = "start" /\ reactor'.phase = "idle"
      /\ readModel' = readModel \/ \E id : readModel' = FailureActivity(readModel, id)
  BY DEF StartSessionFails, ReactorUnchanged, Fails, Idle
<1>2. PICK events \in FailedStarts :
         IF StopsReplaced(adapter)
           THEN /\ runtimeQueue' = runtimeQueue \o StopEvents(adapter) \o events
                /\ adapter' = Stopped(adapter)
           ELSE runtimeQueue' = runtimeQueue \o events /\ UNCHANGED adapter
  BY DEF StartSessionFails
<1>3. /\ IsModel(readModel) /\ {"active", "alive", "turn", "orphans"} \subseteq DOMAIN adapter
      /\ BoundInv /\ MapInv /\ runtimeQueue \in Seq(Signals)
  BY FlightTyped DEF SessionInv, SInv, SessionsAreMapped, Running
<1>4. SameSession(readModel, readModel')
  BY <1>1, <1>3, FailureSession DEF SameSession
<1>5. CASE ~StopsReplaced(adapter)
  <2>1. ~adapter.active
    BY <1>5 DEF StopsReplaced
  <2>2. runtimeQueue' = runtimeQueue \o <<>> \o events /\ adapter.turn = Null /\ UNCHANGED adapter
    BY <1>2, <1>3, <1>5, <2>1, ConcatEmptySeq DEF MapInv
  <2>3. /\ NextShown /\ (SaidGone(Flight) => SaidGone(Flight')) /\ (Flight # <<>> => Flight' # <<>>)
        /\ Thread'.session = Thread.session
    BY <1>1, <1>4, <2>2, FailedShows
  <2>4. HasSession(Thread') <=> HasSession(Thread)
    BY <2>3 DEF HasSession
  <2> QED
    BY <1>1, <1>3, <2>2, <2>3, <2>4 DEF BoundInv
<1>6. CASE StopsReplaced(adapter)
  <2>1. /\ runtimeQueue' = runtimeQueue \o <<Exited>> \o events /\ adapter.active
        /\ adapter'.turn = Null /\ adapter'.active = FALSE /\ adapter'.alive = FALSE
    BY <1>2, <1>3, <1>6, CodexEmits DEF StopsReplaced, Stopped
  <2> DEFINE G == <<Exited>>
  <2>2. G # <<>> /\ G = <<Exited>>
    OBVIOUS
  <2>3. NextShown /\ Flight' # <<>> /\ SaidGone(Flight')
    <3>1. runtimeQueue' = runtimeQueue \o G \o events
      BY <2>1
    <3>2. \/ G = <<>> /\ adapter.turn = Null
          \/ G = <<Exited>>
      BY <2>2
    <3>3. /\ Running /\ SameSession(readModel, readModel') /\ UNCHANGED <<ingestion, said>>
          /\ adapter'.turn = Null /\ Codex /\ SessionInv
      BY <1>1, <1>4, <2>1
    <3> HIDE DEF G
    <3>4. /\ NextShown
          /\ G # <<>> \/ Flight # <<>> => Flight' # <<>>
          /\ G # <<>> \/ SaidGone(Flight) => SaidGone(Flight')
      BY <1>2, <3>1, <3>2, <3>3, FailedShows, ZenonT(60)
    <3> QED
      BY <2>2, <3>4
  <2> QED
    BY <1>1, <1>3, <2>1, <2>3 DEF BoundInv
<1> QED
  BY <1>5, <1>6

\* bindSessionToThread: the session that was started has no turn.
LEMMA BindShows ==
    ASSUME SessionInv, Running, Bind
    PROVE  NextShown /\ BoundInv'
<1>1. /\ UNCHANGED <<ingestion, runtimeQueue, said, adapter, bound>> /\ reactor.phase = "bind"
      /\ readModel' = SetSession(readModel, "ready", Null, reactor.mode)
  BY DEF Bind, ReactorUnchanged
<1>2. IsModel(readModel) /\ BoundInv /\ QInv /\ IsRun(reactor)
  <2>1. IsModel(readModel) /\ BoundInv /\ QInv
    BY DEF SessionInv, SInv, Running
  <2> QED
    BY <1>1, <2>1, PhaseFacts DEF Phases
<1>3. IsModel(readModel') /\ TurnOf(Thread'.session) = Null
  <2>1. /\ IsModel(readModel')
        /\ readModel'.threads[T].session
             = [status |-> "ready", activeTurnId |-> Null, runtimeMode |-> reactor.mode]
    BY <1>1, <1>2, SetSessionSets
  <2> QED
    BY <2>1 DEF Thread, TurnOf
<1>4. adapter.turn = Null /\ bound
  BY <1>1, <1>2 DEF BoundInv
<1>5. NextShown /\ Flight' = Flight
  BY <1>1, <1>3, <1>4, ClearedNext
<1>6. reactor'.phase # "bind"
  BY <1>2 DEF Bind, IsRun, Idle
<1> QED
  BY <1>1, <1>2, <1>4, <1>5, <1>6 DEF BoundInv

\* The session is marked as stopped, whatever runs in it.
LEMMA MarkStoppedShows ==
    ASSUME SessionInv, Running, MarkStopped
    PROVE  NextShown /\ BoundInv'
<1>1. /\ UNCHANGED <<ingestion, runtimeQueue, said, adapter, bound>> /\ reactor' = Idle
      /\ \E mode : readModel' = SetSession(readModel, "stopped", Null, mode)
  BY DEF MarkStopped, ReactorUnchanged
<1>2. IsModel(readModel) /\ BoundInv
  BY DEF SessionInv, Running
<1>3. IsModel(readModel') /\ TurnOf(Thread'.session) = Null /\ ~HasSession(Thread')
  <2>1. PICK mode : readModel' = SetSession(readModel, "stopped", Null, mode)
    BY <1>1
  <2>2. /\ IsModel(readModel')
        /\ readModel'.threads[T].session
             = [status |-> "stopped", activeTurnId |-> Null, runtimeMode |-> mode]
    BY <1>2, <2>1, SetSessionSets
  <2> QED
    BY <2>2 DEF Thread, TurnOf, HasSession
<1>4. NextShown /\ Flight' = Flight
  BY <1>1, <1>3, ClearedNext
<1> QED
  BY <1>1, <1>2, <1>3, <1>4 DEF BoundInv, Idle

\* A turn that is not sent.
LEMMA SendFailsShows ==
    ASSUME Codex, SessionInv, Running, SendFails
    PROVE  NextShown /\ BoundInv'
<1>1. /\ UNCHANGED <<ingestion, said, adapter, bound>>
      /\ reactor.phase = "send" /\ reactor'.phase = "idle"
      /\ readModel' = readModel \/ \E id : readModel' = FailureActivity(readModel, id)
  BY DEF SendFails, ReactorUnchanged, Fails, Idle
<1>2. UNCHANGED runtimeQueue \/ RecoveryFails
  BY DEF SendFails
<1> QED
  BY <1>1, <1>2, IdleShows, RecoveryShows

\* A turn start that nobody answers: the turn is never sent.
LEMMA SendHangsShows ==
    ASSUME SessionInv, Running, SendHangs
    PROVE  NextShown /\ BoundInv'
<1>1. /\ UNCHANGED <<ingestion, runtimeQueue, said, adapter, bound, readModel>>
      /\ reactor.phase = "send" /\ reactor' = [reactor EXCEPT !.phase = "hangs"]
  BY DEF SendHangs, ReactorUnchanged
<1>2. reactor'.phase # "bind"
  <2>1. QInv
    BY DEF SessionInv, SInv
  <2>2. IsRun(reactor)
    BY <1>1, <2>1, PhaseFacts DEF Phases
  <2> QED
    BY <1>1, <2>2 DEF IsRun
<1> QED
  BY <1>1, <1>2, IdleShows

\* interruptTurn recovers a session that is gone, or fails to.
LEMMA InterruptShows ==
    ASSUME Codex, SessionInv, Running, Interrupt
    PROVE  NextShown /\ BoundInv'
<1>1. /\ UNCHANGED <<readModel, ingestion, said, bound>> /\ reactor.phase = "interrupt" /\ reactor'.phase = "idle"
  BY DEF Interrupt, ReactorUnchanged, Idle
<1>2. CASE /\ bound
           /\ adapter' = startSession(adapter).adapter
           /\ runtimeQueue' = runtimeQueue \o startSession(adapter).events
  <2>1. NextShown /\ adapter'.active = TRUE /\ Flight' # <<>>
    BY <1>1, <1>2, StartShows
  <2> QED
    BY <1>1, <1>2, <2>1 DEF BoundInv
<1>3. CASE UNCHANGED <<adapter, runtimeQueue>>
  BY <1>1, <1>3, IdleShows
<1>4. CASE RecoveryFails /\ UNCHANGED adapter
  BY <1>1, <1>4, RecoveryShows
<1> QED
  BY <1>2, <1>3, <1>4 DEF Interrupt

\* stopSession drops the row: the session is marked as stopped next.
LEMMA StopSessionShows ==
    ASSUME Codex, SessionInv, Running, StopSession
    PROVE  NextShown /\ BoundInv'
<1>1. /\ UNCHANGED <<readModel, ingestion, said>> /\ reactor.phase = "stop" /\ bound' = FALSE
      /\ reactor' = IF bound THEN [reactor EXCEPT !.phase = "markStopped"] ELSE Idle
  BY DEF StopSession, ReactorUnchanged
<1>2. /\ IsModel(readModel) /\ {"active", "alive", "turn", "orphans"} \subseteq DOMAIN adapter
      /\ BoundInv /\ QInv /\ IsRun(reactor)
  <2>1. /\ IsModel(readModel) /\ {"active", "alive", "turn", "orphans"} \subseteq DOMAIN adapter
        /\ BoundInv /\ QInv
    BY DEF SessionInv, SInv, SessionsAreMapped, Running
  <2> QED
    BY <1>1, <2>1, PhaseFacts DEF Phases
<1>3. reactor'.phase = (IF bound THEN "markStopped" ELSE "idle") /\ SameSession(readModel, readModel')
  BY <1>1, <1>2 DEF IsRun, Idle, SameSession
<1>4. CASE bound /\ adapter.active
  <2>1. /\ runtimeQueue' = runtimeQueue \o <<Exited>> /\ adapter'.turn = Null
        /\ adapter'.active = FALSE /\ adapter'.alive = FALSE
    BY <1>2, <1>4, CodexEmits DEF StopSession, Stopped
  <2>2. NextShown /\ Flight' # <<>> /\ SaidGone(Flight')
    BY <1>1, <1>3, <2>1, ExitShows
  <2> QED
    BY <1>3, <1>4, <2>1, <2>2 DEF BoundInv
<1>5. CASE ~(bound /\ adapter.active)
  <2>1. UNCHANGED <<runtimeQueue, adapter>>
    BY <1>5 DEF StopSession
  <2>2. ~adapter.active
    BY <1>2, <1>5 DEF BoundInv
  <2>3. NextShown /\ Flight' = Flight /\ Thread'.session = Thread.session
    BY <1>1, <1>3, <2>1, NothingEmitted
  <2>4. HasSession(Thread') <=> HasSession(Thread)
    BY <2>3 DEF HasSession
  <2> QED
    BY <1>1, <1>2, <1>3, <2>1, <2>2, <2>3, <2>4 DEF BoundInv
<1> QED
  BY <1>4, <1>5

\* The turn that runs is completed.
LEMMA CompletedEmitted ==
    ASSUME NEW F \in Seq(Signals), NEW a, NEW u \in Turns \cup {Null}, InTurn(F, a), WillClose(F, a, u)
    PROVE  LET E == Completed(u, "turn.completed")
           IN  /\ E \in Seq(Signals) /\ F \o E \in Seq(Signals)
               /\ InTurn(F \o E, a) /\ WillClose(F \o E, a, Null)
<1>1. CASE u = Null
  <2>1. Completed(u, "turn.completed") = <<>> /\ F \o <<>> = F /\ <<>> \in Seq(Signals)
    BY <1>1, ConcatEmptySeq DEF Completed
  <2> QED
    BY <1>1, <2>1
<1>2. CASE u # Null
  <2> DEFINE e == Event("turn.completed", u)
  <2>1. Completed(u, "turn.completed") = <<e>> /\ e \in Signals /\ e.type = "turn.completed" /\ e.turn = u
    BY <1>2, QuietEvents DEF Completed
  <2> HIDE DEF e
  <2>2. Emitted(e, u, Null)
    BY <2>1 DEF Emitted, Closes, Starting
  <2>3. <<e>> \in Seq(Signals)
    BY <2>1
  <2> QED
    BY <2>1, <2>2, <2>3, OneEmitted
<1> QED
  BY <1>1, <1>2

\* A turn is started while none runs.
LEMMA SentEmitted ==
    ASSUME NEW F \in Seq(Signals), NEW session, NEW t \in Turns,
           InTurn(F, TurnOf(session)), WillClose(F, TurnOf(session), Null)
    PROVE  LET H == F \o <<Event("turn.started", t)>>
           IN  ShownOf(H, session, t) /\ H # <<>>
<1> DEFINE e == Event("turn.started", t)
<1>1. e \in Signals /\ e.type = "turn.started" /\ e.turn = t
  BY QuietEvents DEF Event
<1> HIDE DEF e
<1>2. Emitted(e, Null, t)
  BY <1>1 DEF Emitted
<1>3. InTurn(F \o <<e>>, TurnOf(session)) /\ WillClose(F \o <<e>>, TurnOf(session), t) /\ F \o <<e>> # <<>>
  BY <1>1, <1>2, OneEmitted
<1>4. WillShow(Append(F, e), session, t)
  BY <1>1, SaidShows
<1>5. Append(F, e) = F \o <<e>>
  BY <1>1, AppendIs
<1> QED
  BY <1>3, <1>4, <1>5 DEF ShownOf, e

\* A turn is sent.
LEMMA SendShows ==
    ASSUME Codex, SessionInv, Running, Send
    PROVE  NextShown /\ BoundInv'
<1> DEFINE t == reactor.event.turn
           u == adapter.turn
           a == IF adapter.active THEN adapter ELSE startSession(adapter).adapter
           G == IF adapter.active THEN <<>> ELSE startSession(adapter).events
           E == Completed(u, "turn.completed")
           B == <<Event("turn.started", t)>>
           s == TurnOf(Thread.session)
<1>1. /\ MapInv /\ BoundInv /\ SignalsInv /\ ShownInv /\ IsModel(readModel) /\ QInv
      /\ {"active", "alive", "turn", "orphans"} \subseteq DOMAIN adapter
      /\ Flight \in Seq(Signals) /\ runtimeQueue \in Seq(Signals)
      /\ ingestion # Nothing => ingestion.event \in Signals
  BY FlightTyped DEF SessionInv, SInv, SessionsAreMapped, Running
<1>2. /\ UNCHANGED <<ingestion, said, readModel, bound>>
      /\ reactor.phase = "send" /\ reactor'.phase = "idle" /\ bound
  BY DEF Send, ReactorUnchanged, Idle
<1>3. t \in Turns
  <2>1. IsRun(reactor)
    BY <1>1, <1>2, PhaseFacts DEF Phases
  <2> QED
    BY <1>2, <2>1, RequestTypes DEF IsRun
<1>4. \E done : SendTurn(a, G, done, t)
  BY DEF Send
<1>5. /\ a.turn = u /\ a.active /\ {"active", "alive", "turn", "orphans"} \subseteq DOMAIN a
      /\ G \in Seq(Signals) /\ InTurn(Flight \o G, s) /\ WillClose(Flight \o G, s, u)
      /\ Flight \o G \in Seq(Signals)
  <2>1. CASE adapter.active
    <3>1. a = adapter /\ G = <<>> /\ <<>> \in Seq(Signals) /\ Flight \o <<>> = Flight
      BY <1>1, <2>1, ConcatEmptySeq
    <3> HIDE DEF a, G
    <3> QED
      BY <3>1, <1>1, <2>1 DEF ShownInv, ShownOf
  <2>2. CASE ~adapter.active
    <3>1. a = startSession(adapter).adapter /\ G = startSession(adapter).events
      BY <2>2
    <3>2. u = Null
      BY <1>1, <2>2 DEF MapInv
    <3> HIDE DEF a, G
    <3>3. /\ a.turn = Null /\ a.active /\ {"active", "alive", "turn", "orphans"} \subseteq DOMAIN a
      BY <3>1, CodexFacts
    <3>4. InTurn(Flight \o G, s) /\ WillClose(Flight \o G, s, Null) /\ G \in Seq(Signals) /\ Flight \o G \in Seq(Signals)
      BY <1>1, <3>1, StartEmitted DEF MapInv, ShownInv, ShownOf
    <3> QED
      BY <3>2, <3>3, <3>4
  <2> QED
    BY <2>1, <2>2
<1> HIDE DEF a, G
<1>6. u \in Turns \cup {Null}
  BY <1>1 DEF MapInv
<1>7. CASE u # Null
  <2>1. adapter.active /\ a = adapter /\ G = <<>>
    BY <1>1, <1>7 DEF MapInv, a, G
  <2>2. UNCHANGED <<adapter, runtimeQueue>>
    BY <1>1, <1>4, <1>7, <2>1, ConcatEmptySeq DEF SendTurn
  <2> QED
    BY <1>2, <2>2, IdleShows
<1>8. CASE u = Null
  <2>1. /\ adapter' = [a EXCEPT !.turn = t]
        /\ runtimeQueue' = runtimeQueue \o G \o E \o B /\ E = <<>>
    BY <1>4, <1>5, <1>8 DEF SendTurn, Completed
  <2>2. /\ E \in Seq(Signals) /\ Flight \o G \o E \in Seq(Signals)
        /\ InTurn(Flight \o G \o E, s) /\ WillClose(Flight \o G \o E, s, Null)
    <3>1. \A q \in Seq(Signals) : q \o <<>> = q
      BY ConcatEmptySeq
    <3> HIDE DEF E, s
    <3> QED
      BY <1>5, <1>8, <2>1, <3>1, ExitedFacts
  <2> HIDE DEF E
  <2>3. ShownOf(Flight \o G \o E \o B, Thread.session, t) /\ Flight \o G \o E \o B # <<>>
    BY <1>3, <2>2, SentEmitted
  <2>4. B \in Seq(Signals)
    BY <1>3, QuietEvents
  <2> HIDE DEF B
  <2>5. runtimeQueue' = runtimeQueue \o G \o E \o B /\ runtimeQueue' \in Seq(Signals)
    BY <2>1, <1>1, <1>5, <2>2, <2>4, ConcatFacts
  <2>6. Flight' = Flight \o G \o E \o B
    <3>1. InFlight(ingestion, Joined(runtimeQueue, G, E, B)) = Joined(InFlight(ingestion, runtimeQueue), G, E, B)
      BY <1>1, <1>5, <2>2, <2>4, FlightThree
    <3> QED
      BY <3>1, <1>2, <2>5 DEF Flight, Joined
  <2>7. adapter'.turn = t /\ adapter'.active /\ MapInv'
    BY <1>3, <1>5, <2>1 DEF MapInv
  <2>8. NextShown
    <3>1. said' \in [Turns -> Seq(Nat)] /\ SameSession(readModel, readModel')
      BY <1>1, <1>2 DEF SignalsInv, SameSession
    <3> QED
      BY <3>1, <1>2, <2>3, <2>5, <2>6, <2>7, FlightNext
  <2> QED
    BY <1>2, <2>7, <2>8 DEF BoundInv
<1> QED
  BY <1>7, <1>8

-----------------------------------------------------------------------------

\* The provider says something while the session is there.
LEMMA ActiveShows ==
    ASSUME SessionInv, Running, UNCHANGED <<readModel, ingestion, bound, reactor>>,
           said' \in [Turns -> Seq(Nat)], MapInv', adapter.turn # Null, adapter'.active = adapter.active,
           NEW G \in Seq(Signals), runtimeQueue' = runtimeQueue \o G,
           ShownOf(Flight \o G, Thread.session, adapter'.turn)
    PROVE  NextShown /\ BoundInv'
<1>1. MapInv /\ BoundInv /\ IsModel(readModel)
  BY DEF SessionInv, Running
<1>2. NextShown
  BY <1>1, EmittedNext DEF SameSession
<1>3. adapter'.active /\ bound' /\ reactor'.phase # "bind"
  BY <1>1 DEF MapInv, BoundInv
<1> QED
  BY <1>2, <1>3 DEF BoundInv

\* The provider says a chunk.
LEMMA SayShows ==
    ASSUME SessionInv, Running, Say
    PROVE  NextShown /\ BoundInv'
<1> DEFINE t == adapter.turn
           c == Len(said[t]) + 1
           e == [Event("delta", t) EXCEPT !.text = <<c>>]
<1>1. /\ MapInv /\ SignalsInv /\ ShownInv /\ Flight \in Seq(Signals)
      /\ runtimeQueue \in Seq(Signals)
  BY FlightTyped DEF SessionInv, Running
<1>2. /\ t # Null /\ said' = [said EXCEPT ![t] = Append(@, c)] /\ runtimeQueue' = Append(runtimeQueue, e)
      /\ UNCHANGED <<readModel, ingestion, bound, reactor, adapter>>
  BY DEF Say, ProviderUnchanged
<1>3. t \in Turns /\ said[t] \in Seq(Nat) /\ c \in Nat
  BY <1>1, <1>2 DEF MapInv, SignalsInv
<1>4. e \in Signals /\ e.type = "delta" /\ e.turn = t
  <2>1. <<c>> \in Seq(Nat)
    BY <1>3
  <2> HIDE DEF c
  <2> QED
    BY <2>1, <1>3 DEF Event, Signals
<1>5. said' \in [Turns -> Seq(Nat)] /\ MapInv'
  <2>1. Append(said[t], c) \in Seq(Nat)
    BY <1>3
  <2> QED
    BY <2>1, <1>1, <1>2, <1>3 DEF SignalsInv, MapInv
<1> HIDE DEF e
<1>6. runtimeQueue' = runtimeQueue \o <<e>> /\ Append(Flight, e) = Flight \o <<e>> /\ <<e>> \in Seq(Signals)
  BY <1>1, <1>2, <1>4, AppendIs
<1>7. ShownOf(Flight \o <<e>>, Thread.session, adapter'.turn)
  <2>1. Emitted(e, t, t)
    BY <1>4 DEF Emitted, Starting
  <2>2. /\ InTurn(Append(Flight, e), TurnOf(Thread.session))
        /\ WillClose(Append(Flight, e), TurnOf(Thread.session), t)
    BY <1>1, <1>4, <2>1, EmittedInTurn DEF ShownInv, ShownOf
  <2>3. WillShow(Append(Flight, e), Thread.session, t)
    BY <1>1, <1>4, SaidShows DEF ShownInv, ShownOf
  <2> QED
    BY <1>2, <1>6, <2>2, <2>3 DEF ShownOf
<1> QED
  BY <1>2, <1>5, <1>6, <1>7, ActiveShows

\* The provider completes the turn.
LEMMA CompleteTurnShows ==
    ASSUME SessionInv, Running, CompleteTurn
    PROVE  NextShown /\ BoundInv'
<1> DEFINE t == adapter.turn
           G == Completed(t, "turn.completed")
<1>1. /\ MapInv /\ SignalsInv /\ ShownInv /\ Flight \in Seq(Signals) /\ runtimeQueue \in Seq(Signals)
      /\ {"active", "alive", "turn", "orphans"} \subseteq DOMAIN adapter
  BY FlightTyped DEF SessionInv, SInv, SessionsAreMapped, Running
<1>2. /\ t # Null /\ runtimeQueue' = Append(runtimeQueue, Event("turn.completed", t))
      /\ adapter' = [adapter EXCEPT !.turn = Null]
      /\ UNCHANGED <<readModel, ingestion, bound, reactor, said>>
  BY DEF CompleteTurn, ProviderUnchanged
<1>3. /\ G = <<Event("turn.completed", t)>> /\ t \in Turns /\ Event("turn.completed", t) \in Signals
  BY <1>1, <1>2, QuietEvents DEF Completed, MapInv
<1>4. runtimeQueue' = runtimeQueue \o G
  BY <1>1, <1>2, <1>3, AppendIs
<1>5. adapter'.turn = Null /\ adapter'.active = adapter.active
  BY <1>1, <1>2
<1>6. /\ G \in Seq(Signals) /\ InTurn(Flight \o G, TurnOf(Thread.session))
      /\ WillClose(Flight \o G, TurnOf(Thread.session), Null)
  BY <1>1, <1>3, CompletedEmitted DEF ShownInv, ShownOf
<1> HIDE DEF G
<1>7. ShownOf(Flight \o G, Thread.session, adapter'.turn)
  BY <1>5, <1>6 DEF ShownOf, WillShow
<1>8. MapInv' /\ said' \in [Turns -> Seq(Nat)]
  BY <1>1, <1>2, <1>5 DEF MapInv, SignalsInv
<1> QED
  BY <1>2, <1>4, <1>5, <1>6, <1>7, <1>8, ActiveShows

\* The provider completes the message, and the turn.
LEMMA CompleteItemShows ==
    ASSUME SessionInv, Running, CompleteItem
    PROVE  NextShown /\ BoundInv'
<1> DEFINE t == adapter.turn
           text == IF said[t] = <<>> THEN <<1>> ELSE said[t]
           x == [Event("item.completed", t) EXCEPT !.text = text]
           y == Event("turn.completed", t)
           s == TurnOf(Thread.session)
<1>1. /\ MapInv /\ SignalsInv /\ ShownInv /\ Flight \in Seq(Signals) /\ runtimeQueue \in Seq(Signals)
      /\ {"active", "alive", "turn", "orphans"} \subseteq DOMAIN adapter
  BY FlightTyped DEF SessionInv, SInv, SessionsAreMapped, Running
<1>2. /\ t # Null /\ runtimeQueue' = runtimeQueue \o <<x, y>> /\ said' = [said EXCEPT ![t] = text]
      /\ adapter' = [adapter EXCEPT !.turn = Null]
      /\ UNCHANGED <<readModel, ingestion, bound, reactor>>
  BY DEF CompleteItem, ProviderUnchanged
<1>3. t \in Turns /\ text \in Seq(Nat)
  <2>1. t \in Turns /\ said[t] \in Seq(Nat) /\ <<1>> \in Seq(Nat)
    BY <1>1, <1>2 DEF MapInv, SignalsInv
  <2> QED
    BY <2>1
<1>4. x \in Signals /\ x.type = "item.completed" /\ y \in Signals
  <2>1. y \in Signals
    BY <1>3, QuietEvents
  <2> HIDE DEF text
  <2> QED
    BY <2>1, <1>3 DEF Event, Signals
<1>5. adapter'.turn = Null /\ adapter'.active = adapter.active
  BY <1>1, <1>2
<1>6. MapInv' /\ said' \in [Turns -> Seq(Nat)]
  <2> HIDE DEF text
  <2> QED
    BY <1>1, <1>2, <1>3, <1>5 DEF MapInv, SignalsInv
<1>7. <<y>> = Completed(t, "turn.completed")
  BY <1>2 DEF Completed
<1> HIDE DEF x, y
<1>8. <<x>> \in Seq(Signals) /\ <<y>> \in Seq(Signals) /\ <<x, y>> \in Seq(Signals) /\ <<x>> \o <<y>> = <<x, y>>
  BY <1>4, PairIs
<1> DEFINE K == Flight \o <<x>>
<1>9. K \in Seq(Signals) /\ InTurn(K, s) /\ WillClose(K, s, t)
  <2>1. Emitted(x, t, t)
    BY <1>4 DEF Emitted, Starting
  <2> QED
    BY <1>1, <1>4, <2>1, OneEmitted DEF ShownInv, ShownOf
<1>10. K \o <<y>> = Flight \o <<x, y>>
  <2>1. Flight \o (<<x>> \o <<y>>) = (Flight \o <<x>>) \o <<y>>
    BY <1>1, <1>8, ConcatAssociative
  <2> QED
    BY <2>1, <1>8
<1> HIDE DEF K
<1>11. InTurn(K \o <<y>>, s) /\ WillClose(K \o <<y>>, s, Null)
  BY <1>3, <1>7, <1>9, CompletedEmitted
<1>12. ShownOf(Flight \o <<x, y>>, Thread.session, adapter'.turn)
  BY <1>5, <1>10, <1>11 DEF ShownOf, WillShow
<1> QED
  BY <1>2, <1>5, <1>6, <1>8, <1>12, ActiveShows

\* A session ends by itself.
LEMMA SessionDiesShows ==
    ASSUME Codex, SessionInv, Running, NEW k \in 0..Len(adapter.orphans), SessionDies(k)
    PROVE  NextShown /\ BoundInv'
<1>1. /\ BoundInv /\ IsModel(readModel) /\ adapter.orphans = <<>> /\ runtimeQueue \in Seq(Signals)
  BY FlightTyped DEF SessionInv, SInv, SessionsAreMapped, Running
<1>2. /\ UNCHANGED <<readModel, ingestion, bound, reactor, said>>
      /\ adapter'.turn = Null /\ adapter'.active = TRUE
  BY DEF SessionDies, ProviderUnchanged
<1>3. runtimeQueue' = runtimeQueue \o <<Exited>>
  <2>1. runtimeQueue' = runtimeQueue \o <<>> \o <<Exited>>
    BY DEF SessionDies, Exited
  <2>2. runtimeQueue \o <<>> = runtimeQueue
    BY <1>1, ConcatEmptySeq
  <2> QED
    BY <2>1, <2>2
<1>4. bound
  <2>1. adapter.alive
    BY <1>1 DEF SessionDies
  <2> QED
    BY <1>1, <2>1 DEF BoundInv
<1>5. NextShown /\ Flight' # <<>> /\ SaidGone(Flight')
  BY <1>1, <1>2, <1>3, ExitShows DEF SameSession
<1> QED
  BY <1>1, <1>2, <1>4, <1>5 DEF BoundInv

\* The turn that runs still is, or will be, shown after an event was processed.
LEMMA StillShows ==
    ASSUME NEW F \in Seq(Signals), F # <<>>, NEW s, NEW n, NEW u, WillShow(F, s, u),
           Head(F).type = "delta" => n = s,
           Head(F).type = "turn.started" => n = Null \/ TurnOf(n) = Head(F).turn
    PROVE  WillShow(Tail(F), n, u)
<1> DEFINE G == Tail(F)
<1>1. /\ DOMAIN G = 1..(Len(F) - 1) /\ Head(F) = F[1] /\ Len(F) \in Nat /\ DOMAIN F = 1..Len(F) /\ 1 \in DOMAIN F
      /\ \A i \in DOMAIN G : G[i] = F[i + 1] /\ i + 1 \in DOMAIN F
      /\ \A i \in DOMAIN F : i = 1 \/ (i - 1 \in DOMAIN G /\ G[i - 1] = F[i])
  BY TailFacts
<1> HIDE DEF G
<1>2. \A i \in DOMAIN G : i \in Nat /\ i + 1 > 1
  BY <1>1
<1> SUFFICES ASSUME u # Null PROVE WillShow(G, n, u)
  BY DEF WillShow, G
<1>3. CASE \E i \in DOMAIN F : /\ F[i].type = "turn.started" /\ F[i].turn = u
                               /\ \A k \in DOMAIN F : k > i => F[k].type = "delta"
  <2>1. PICK i \in DOMAIN F : /\ F[i].type = "turn.started" /\ F[i].turn = u
                              /\ \A k \in DOMAIN F : k > i => F[k].type = "delta"
    BY <1>3
  <2>2. CASE i = 1
    <3>1. \A k \in DOMAIN G : G[k].type = "delta"
      BY <1>1, <1>2, <2>1, <2>2
    <3>2. n = Null \/ TurnOf(n) = u
      BY <1>1, <2>1, <2>2
    <3> QED
      BY <3>1, <3>2 DEF WillShow
  <2>3. CASE i # 1
    <3>1. i - 1 \in DOMAIN G /\ G[i - 1] = F[i]
      BY <1>1, <2>3
    <3>2. \A k \in DOMAIN G : k > i - 1 => k + 1 > i
      BY <1>1
    <3>3. \A k \in DOMAIN G : k > i - 1 => G[k].type = "delta"
      BY <1>1, <2>1, <3>2
    <3> QED
      BY <2>1, <3>1, <3>3 DEF WillShow
  <2> QED
    BY <2>2, <2>3
<1>4. CASE /\ \A k \in DOMAIN F : F[k].type = "delta"
           /\ TurnOf(s) = u \/ s = Null \/ s.status = "stopped"
  <2>1. n = s /\ \A k \in DOMAIN G : G[k].type = "delta"
    BY <1>1, <1>4
  <2> QED
    BY <1>4, <2>1 DEF WillShow
<1> QED
  BY <1>3, <1>4 DEF WillShow

\* The ingestion takes a delivery mode or an event.
LEMMA TakeShows ==
    ASSUME SessionInv, Running, TakeMode \/ TakeRuntimeEvent
    PROVE  NextShown /\ BoundInv'
<1>1. /\ IsModel(readModel) /\ BoundInv /\ SignalsInv /\ ShownInv /\ MapInv
  BY DEF SessionInv, Running
<1>2. UNCHANGED <<readModel, reactor, adapter, said, bound>> /\ ingestion = Nothing
  BY DEF TakeMode, TakeRuntimeEvent, IngestionUnchanged, provider
<1>3. Thread'.session = Thread.session /\ SameSession(readModel, readModel')
  BY <1>1, <1>2 DEF Thread, SameSession
<1>4. CASE TakeMode
  <2>1. UNCHANGED <<ingestion, runtimeQueue>>
    BY <1>4 DEF TakeMode
  <2>2. NextShown /\ Flight' = Flight
    BY <1>2, <1>3, <2>1, NothingEmitted
  <2> QED
    BY <1>1, <1>2, <1>3, <2>2, BoundKept
<1>5. CASE TakeRuntimeEvent
  <2>1. /\ ingestion' = [event |-> Head(runtimeQueue), session |-> Thread.session]
        /\ runtimeQueue' = Tail(runtimeQueue) /\ runtimeQueue # <<>>
    BY <1>5 DEF TakeRuntimeEvent
  <2>2. /\ <<Head(runtimeQueue)>> \o Tail(runtimeQueue) = runtimeQueue
        /\ Head(runtimeQueue) \in Signals /\ Tail(runtimeQueue) \in Seq(Signals)
    BY <1>1, <2>1, HeadTail DEF SignalsInv
  <2>3. ingestion' # Nothing /\ ingestion'.event = Head(runtimeQueue) /\ ingestion'.session = Thread.session
    <3>1. Head(runtimeQueue).type # "none"
      BY <2>2 DEF Signals
    <3>2. ingestion'.event = Head(runtimeQueue) /\ ingestion'.session = Thread.session
      BY <2>1
    <3>3. Nothing.event.type = "none"
      BY DEF Nothing
    <3> QED
      BY <3>1, <3>2, <3>3
  <2>4. Flight' = Flight /\ Flight = runtimeQueue
    <3>1. Flight = runtimeQueue
      BY <1>2 DEF Flight, InFlight
    <3>2. Flight' = <<Head(runtimeQueue)>> \o Tail(runtimeQueue)
      BY <2>1, <2>3 DEF Flight, InFlight
    <3> QED
      BY <3>1, <3>2, <2>2
  <2>5. SignalsInv' /\ MapInv' /\ ShownInv' /\ IsModel(readModel')
    BY <1>1, <1>2, <1>3, <2>1, <2>2, <2>3, <2>4 DEF SignalsInv, MapInv, ShownInv
  <2>6. ReadBefore'
    <3>1. ASSUME Head(runtimeQueue).type \in Starting PROVE TurnOf(Thread.session) = Null
      <4>1. 1 \in DOMAIN Flight /\ Flight[1] = Head(runtimeQueue) /\ DOMAIN Flight = 1..Len(Flight) /\ Len(Flight) \in Nat
        BY <1>1, <2>1, <2>4, TailFacts DEF SignalsInv
      <4>2. ~\E k \in DOMAIN Flight : k < 1
        BY <4>1
      <4> QED
        BY <1>1, <3>1, <4>1, <4>2 DEF ShownInv, ShownOf, InTurn
    <3> QED
      BY <1>3, <2>3, <3>1 DEF ReadBefore
  <2>7. BoundInv'
    BY <1>1, <1>2, <1>3, <2>4, BoundKept
  <2> QED
    BY <2>5, <2>6, <2>7 DEF NextShown
<1> QED
  BY <1>4, <1>5

\* An event is processed.
LEMMA IngestShows ==
    ASSUME SessionInv, Running, Ingest
    PROVE  NextShown /\ BoundInv'
<1> DEFINE e == ingestion.event
           s == ingestion.session
           a == TurnOf(Thread.session)
           b == ShownAfter(e, s, a)
           u == adapter.turn
           n == Thread'.session
<1>1. /\ IsModel(readModel) /\ BoundInv /\ SignalsInv /\ ShownInv /\ MapInv /\ ReadBefore
      /\ Flight \in Seq(Signals) /\ runtimeQueue \in Seq(Signals)
  BY FlightTyped DEF SessionInv, Running
<1>2. /\ UNCHANGED <<reactor, adapter, bound, said, runtimeQueue>>
      /\ ingestion # Nothing /\ ingestion' = Nothing
  BY DEF Ingest, IngestionUnchanged, provider
<1>3. /\ e \in Signals
      /\ TurnOf(s) = a \/ a = Null
      /\ e.type \in Starting => TurnOf(s) = Null
  BY <1>1, <1>2 DEF SignalsInv, ReadBefore
<1>4. /\ Flight # <<>> /\ Head(Flight) = e /\ Tail(Flight) = Flight'
  <2>1. Flight = <<e>> \o runtimeQueue /\ Flight' = runtimeQueue
    BY <1>2 DEF Flight, InFlight
  <2> QED
    BY <1>1, <1>3, <2>1, HeadOf
<1>5. /\ IsModel(readModel')
      /\ n = Null \/ TurnOf(n) = b
      /\ e.type = "session.exited" => ~HasSession(Thread')
      /\ e.type = "delta" => n = Thread.session
  BY <1>1, ShownSession
<1> HIDE DEF n
<1>6. InTurn(Flight', b) /\ WillClose(Flight', b, u)
  BY <1>1, <1>3, <1>4, Processed DEF ShownInv, ShownOf
<1>7. e.type = "turn.started" => n = Null \/ TurnOf(n) = e.turn
  <2> SUFFICES ASSUME e.type = "turn.started" PROVE b = e.turn
    BY <1>5
  <2>1. TurnOf(s) = Null
    BY <1>3 DEF Starting
  <2> QED
    BY <2>1 DEF ShownAfter, AppliesToSession, nextActiveTurnId
<1> HIDE DEF b
<1>8. WillShow(Flight', n, u)
  BY <1>1, <1>4, <1>5, <1>7, StillShows DEF ShownInv, ShownOf
<1>9. InTurn(Flight', TurnOf(n)) /\ WillClose(Flight', TurnOf(n), u)
  <2>1. CASE n = Null
    <3>1. TurnOf(n) = Null
      BY <2>1 DEF TurnOf
    <3> QED
      BY <1>6, <3>1 DEF InTurn, WillClose
  <2>2. CASE TurnOf(n) = b
    BY <1>6, <2>2
  <2> QED
    BY <1>5, <2>1, <2>2
<1>10. ShownInv'
  BY <1>2, <1>8, <1>9 DEF ShownInv, ShownOf, n
<1>11. SignalsInv' /\ MapInv' /\ ReadBefore'
  BY <1>1, <1>2 DEF SignalsInv, MapInv, ReadBefore
<1>12. ~bound => Flight' # <<>> \/ ~HasSession(Thread')
  <2> SUFFICES ASSUME ~bound, Flight' = <<>> PROVE e.type = "session.exited"
    BY <1>5
  <2>1. SaidGone(Flight)
    BY <1>1 DEF BoundInv
  <2>2. Len(Flight) = 1 /\ Flight[1] = e
    <3> DEFINE F == Flight
    <3>1. F \in Seq(Signals) /\ F # <<>> /\ Tail(F) = <<>> /\ Head(F) = e
      BY <1>1, <1>4
    <3> HIDE DEF F
    <3>2. DOMAIN Tail(F) = 1..(Len(F) - 1) /\ Head(F) = F[1] /\ Len(F) \in Nat /\ 1 \in 1..Len(F)
      BY <3>1, TailFacts
    <3>3. DOMAIN Tail(F) = {}
      BY <3>1
    <3>4. 1 \notin 1..(Len(F) - 1)
      BY <3>2, <3>3
    <3>5. \A n0 \in Nat : 1 \in 1..n0 /\ 1 \notin 1..(n0 - 1) => n0 = 1
      OBVIOUS
    <3>6. Len(F) = 1
      BY <3>2, <3>4, <3>5
    <3> QED
      BY <3>1, <3>2, <3>6 DEF F
  <2> QED
    BY <1>4, <2>1, <2>2 DEF SaidGone
<1>13. ~adapter.active => SaidGone(Flight')
  <2> SUFFICES ASSUME ~adapter.active, Flight' # <<>> PROVE Flight'[Len(Flight')].type = "session.exited"
    BY DEF SaidGone
  <2>1. Flight[Len(Flight)].type = "session.exited"
    BY <1>1, <1>4 DEF BoundInv, SaidGone
  <2>2. Flight'[Len(Flight')] = Flight[Len(Flight)]
    <3> DEFINE F == Flight
               G == Tail(Flight)
    <3>1. F \in Seq(Signals) /\ G # <<>> /\ F # <<>>
      BY <1>1, <1>4
    <3> HIDE DEF F
    <3>2. Tail(F)[Len(Tail(F))] = F[Len(F)]
      BY <3>1 DEF F
    <3> QED
      BY <1>4, <3>2 DEF F
  <2> QED
    BY <2>1, <2>2
<1>14. BoundInv'
  BY <1>1, <1>2, <1>12, <1>13 DEF BoundInv
<1> QED
  BY <1>5, <1>10, <1>11, <1>14 DEF NextShown

-----------------------------------------------------------------------------

\* At the beginning there is no session, and nothing is in flight.
LEMMA SessionInit == Init => SessionInv
<1> SUFFICES ASSUME Init PROVE SessionInv
  OBVIOUS
<1>1. SInv
  BY QInit DEF Init, Idle, NoSession, SInv, SessionsAreMapped
<1>2. IsModel(readModel)
  BY AnswerInit DEF AnswerInv, IsKept
<1>3. Thread.session = Null
  <2>1. readModel.threads = [x \in {T} |-> InitialThread]
    BY DEF Init, createEmptyReadModel
  <2>2. InitialThread.session = Null
    BY DEF InitialThread, NewThread
  <2> QED
    BY <2>1, <2>2 DEF Thread
<1>4. /\ Flight = <<>> /\ adapter.turn = Null /\ reactor.phase = "idle"
      /\ adapter.active = FALSE /\ adapter.alive = FALSE
      /\ runtimeQueue = <<>> /\ ingestion = Nothing
  BY DEF Init, Flight, InFlight, NoSession, Idle
<1>5. TurnOf(Thread.session) = Null /\ ~HasSession(Thread)
  BY <1>3 DEF TurnOf, HasSession
<1>6. SignalsInv /\ MapInv /\ ReadBefore
  <2>1. <<>> \in Seq(Signals) /\ <<>> \in Seq(Nat)
    OBVIOUS
  <2> QED
    BY <2>1, <1>4 DEF Init, SignalsInv, MapInv, ReadBefore
<1>7. ShownInv
  <2>1. DOMAIN <<>> = {}
    OBVIOUS
  <2> QED
    BY <1>4, <1>5, <2>1 DEF ShownInv, ShownOf, InTurn, WillClose, WillShow
<1>8. BoundInv
  BY <1>4, <1>5 DEF BoundInv, SaidGone
<1> QED
  BY <1>1, <1>2, <1>6, <1>7, <1>8 DEF SessionInv

\* Every step keeps the invariant.
LEMMA SessionStep ==
    ASSUME Codex, SessionInv, Next
    PROVE  SessionInv'
<1>1. SInv /\ SInv' /\ Running
  BY StepKeepsMap DEF SessionInv, Next
<1>2. CASE User
  BY <1>1, <1>2, UserShows DEF NextShown, SessionInv
<1>3. CASE Reactor
  <2>1. NextShown /\ BoundInv'
    BY <1>1, <1>3, TakeCommandShows, StartSessionShows, StartSessionFailsShows, BindShows, SendShows,
       SendHangsShows, SendFailsShows, InterruptShows, StopSessionShows, MarkStoppedShows DEF Reactor
  <2> QED
    BY <1>1, <2>1 DEF NextShown, SessionInv
<1>4. CASE StopAll
  BY <1>1, <1>4 DEF StopAll, SessionInv
<1>5. CASE Provider
  <2>1. NextShown /\ BoundInv'
    BY <1>1, <1>5, SayShows, CompleteItemShows, CompleteTurnShows, SessionDiesShows DEF Provider
  <2> QED
    BY <1>1, <2>1 DEF NextShown, SessionInv
<1>6. CASE Ingestion
  <2>1. NextShown /\ BoundInv'
    BY <1>1, <1>6, TakeShows, IngestShows DEF Ingestion
  <2> QED
    BY <1>1, <2>1 DEF NextShown, SessionInv
<1> QED
  BY <1>2, <1>3, <1>4, <1>5, <1>6 DEF Next

\* Nothing is in flight: what the thread shows is what runs.
LEMMA SettledShows == SessionInv => SettledThreadAgrees
<1> SUFFICES ASSUME SessionInv, Settled, HasSession(Thread)
             PROVE  Thread.session.activeTurnId = adapter.turn /\ bound
  BY DEF SettledThreadAgrees
<1>1. ShownInv /\ BoundInv /\ reactor.phase # "markStopped"
  BY DEF SessionInv, Settled, IngestionSettled, Idle
<1>2. Flight = <<>> /\ DOMAIN Flight = {}
  BY DEF Flight, InFlight, Settled, IngestionSettled
<1>3. bound
  BY <1>1, <1>2 DEF BoundInv
<1>4. Thread.session # Null /\ Thread.session.status # "stopped"
      /\ TurnOf(Thread.session) = Thread.session.activeTurnId
  BY DEF HasSession, TurnOf
<1>5. TurnOf(Thread.session) = adapter.turn
  BY <1>1, <1>2, <1>4 DEF ShownInv, ShownOf, WillClose, WillShow
<1> QED
  BY <1>3, <1>4, <1>5

\* Once all is processed a thread that shows a session shows the turn that runs in it,
\* and the directory has the session's row, however restarts, recoveries, stops, deaths of
\* sessions and updates computed from an older thread come between.
THEOREM SettledThreadAgreesHolds ==
    ASSUME Codex
    PROVE  Spec => []SettledThreadAgrees
<1>1. SessionInv /\ [Next]_vars => SessionInv'
  <2>1. SessionInv /\ UNCHANGED vars => SessionInv'
    BY DEF vars, provider, buffers, SessionInv, SInv, QInv, IsRun, SessionsAreMapped, SignalsInv, MapInv,
           ShownInv, ReadBefore, BoundInv, Flight, Thread
  <2> QED
    BY <2>1, SessionStep
<1> QED
  BY <1>1, SessionInit, SettledShows, PTL DEF Spec
=============================================================================
