----------------------------- MODULE TuiClientProofs -----------------------------
(***************************************************************************)
(* Proofs about the client and its connections, for every number of        *)
(* commands, faults and reconnections: a client gets its welcome before    *)
(* any domain event, a command runs once at most, and what the interface   *)
(* shows never goes back to an older state.                                *)
(*                                                                         *)
(* PushInv follows a connection from its opening to the broadcast set: it  *)
(* is in the set, or about to be, or its welcome is queued, never two of   *)
(* these, and only the first two let events reach it.  Whatever the client *)
(* does only takes from what was sent to it, or adds nothing that counts:  *)
(* Grows says so of two states of the connections.                         *)
(*                                                                         *)
(* A request that was not executed waits in one place, the outbound queue  *)
(* or one connection, and leaves it for the log; whoever hears of its      *)
(* success hears of a run.                                                 *)
(*                                                                         *)
(* The refresh runner has one snapshot request at a time, and every answer *)
(* to it, sent or not, is of a log no shorter than what is shown (Newer).  *)
(***************************************************************************)
EXTENDS TuiClient, SequenceTheorems, FiniteSetTheorems, TLAPS

IsSeq(s) == \E S : s \in Seq(S)

MessageTypes == {"serverWelcome", "domainEvent", "response"}

IsMail(d) == IsSeq(d) /\ \A i \in DOMAIN d : d[i].type \in MessageTypes

HasEvent(d) == \E i \in DOMAIN d : d[i].type = "domainEvent"

WelcomeLeads(d) ==
    \A i, j \in DOMAIN d :
        d[i].type = "domainEvent" /\ d[j].type = "serverWelcome" => j < i

-----------------------------------------------------------------------------
(* Sequences of messages *)

LEMMA SeqFacts ==
    ASSUME NEW s, IsSeq(s)
    PROVE  DOMAIN s = 1..Len(s) /\ Len(s) \in Nat
BY DEF IsSeq

LEMMA NilFacts == IsSeq(<<>>) /\ DOMAIN <<>> = {} /\ Len(<<>>) = 0
<1>1. <<>> \in Seq({})
  OBVIOUS
<1>2. IsSeq(<<>>)
  BY <1>1 DEF IsSeq
<1>3. Len(<<>>) = 0
  OBVIOUS
<1> QED
  BY <1>2, <1>3, SeqFacts

LEMMA AppendFacts ==
    ASSUME NEW s, IsSeq(s), NEW e
    PROVE  /\ IsSeq(Append(s, e))
           /\ Len(Append(s, e)) = Len(s) + 1
           /\ DOMAIN Append(s, e) = DOMAIN s \cup {Len(s) + 1}
           /\ \A i \in DOMAIN s : Append(s, e)[i] = s[i]
           /\ Append(s, e)[Len(s) + 1] = e
<1>1. PICK S : s \in Seq(S)
  BY DEF IsSeq
<1>2. s \in Seq(S \cup {e})
  BY <1>1
<1>3. Append(s, e) \in Seq(S \cup {e})
  BY <1>2
<1>4. IsSeq(Append(s, e))
  BY <1>3 DEF IsSeq
<1>5. /\ Len(Append(s, e)) = Len(s) + 1 /\ Len(s) \in Nat
      /\ \A i \in 1..Len(s) : Append(s, e)[i] = s[i]
      /\ Append(s, e)[Len(s) + 1] = e
  BY <1>2
<1> QED
  BY <1>4, <1>5, SeqFacts

LEMMA TailFacts ==
    ASSUME NEW s, IsSeq(s), s # <<>>
    PROVE  /\ IsSeq(Tail(s))
           /\ \A i \in DOMAIN Tail(s) : i + 1 \in DOMAIN s /\ Tail(s)[i] = s[i + 1]
           /\ 1 \in DOMAIN s /\ Head(s) = s[1]
<1>1. PICK S : s \in Seq(S)
  BY DEF IsSeq
<1>2. Tail(s) \in Seq(S) /\ Len(Tail(s)) = Len(s) - 1 /\ Len(s) \in Nat /\ Len(s) > 0
      /\ \A i \in 1..Len(Tail(s)) : Tail(s)[i] = s[i + 1]
  BY <1>1
<1>3. IsSeq(Tail(s))
  BY <1>2 DEF IsSeq
<1>4. Head(s) = s[1]
  BY <1>1
<1> QED
  BY <1>2, <1>3, <1>4, SeqFacts

\* The client takes the first message.
LEMMA TailKeepsOrder ==
    ASSUME NEW d, IsSeq(d), d # <<>>
    PROVE  /\ HasEvent(Tail(d)) => HasEvent(d)
           /\ WelcomeLeads(d) => WelcomeLeads(Tail(d))
<1>1. HasEvent(Tail(d)) => HasEvent(d)
  BY TailFacts DEF HasEvent
<1>2. ASSUME WelcomeLeads(d), NEW i \in DOMAIN Tail(d), NEW j \in DOMAIN Tail(d),
             Tail(d)[i].type = "domainEvent", Tail(d)[j].type = "serverWelcome"
      PROVE  j < i
  <2>1. i \in Nat /\ j \in Nat
    BY TailFacts, SeqFacts
  <2>2. j + 1 < i + 1
    BY <1>2, TailFacts DEF WelcomeLeads
  <2> QED
    BY <2>1, <2>2
<1> QED
  BY <1>1, <1>2 DEF WelcomeLeads

\* The server sends a message: an event at any time after the welcome, the welcome
\* only to whom no event was sent.
LEMMA AppendKeepsOrder ==
    ASSUME NEW d, IsSeq(d), NEW m
    PROVE  /\ m.type # "domainEvent" /\ HasEvent(Append(d, m)) => HasEvent(d)
           /\ WelcomeLeads(d) /\ (m.type = "serverWelcome" => ~HasEvent(d))
                => WelcomeLeads(Append(d, m))
<1>1. m.type # "domainEvent" /\ HasEvent(Append(d, m)) => HasEvent(d)
  BY AppendFacts DEF HasEvent
<1>2. ASSUME WelcomeLeads(d), m.type = "serverWelcome" => ~HasEvent(d),
             NEW i \in DOMAIN Append(d, m), NEW j \in DOMAIN Append(d, m),
             Append(d, m)[i].type = "domainEvent", Append(d, m)[j].type = "serverWelcome"
      PROVE  j < i
  <2>1. CASE i \in DOMAIN d /\ j \in DOMAIN d
    BY <1>2, <2>1, AppendFacts DEF WelcomeLeads
  <2>2. CASE i \in DOMAIN d /\ j = Len(d) + 1
    <3>1. Append(d, m)[j] = m /\ Append(d, m)[i] = d[i]
      BY <2>2, AppendFacts
    <3> QED
      BY <1>2, <2>2, <3>1 DEF HasEvent
  <2>3. CASE i = Len(d) + 1 /\ j \in DOMAIN d
    BY <2>3, SeqFacts
  <2>4. CASE i = Len(d) + 1 /\ j = Len(d) + 1
    <3>1. Append(d, m)[i] = m /\ Append(d, m)[j] = m
      BY <2>4, AppendFacts
    <3> QED
      BY <1>2, <3>1
  <2> QED
    BY <2>1, <2>2, <2>3, <2>4, AppendFacts
<1> QED
  BY <1>1, <1>2 DEF WelcomeLeads

LEMMA NilKeepsOrder == ~HasEvent(<<>>) /\ WelcomeLeads(<<>>) /\ IsMail(<<>>)
BY NilFacts DEF HasEvent, WelcomeLeads, IsMail

LEMMA MailChanges ==
    ASSUME NEW d, IsMail(d)
    PROVE  /\ d # <<>> => IsMail(Tail(d)) /\ Head(d).type \in MessageTypes
           /\ \A m : m.type \in MessageTypes => IsMail(Append(d, m))
<1>1. ASSUME d # <<>> PROVE IsMail(Tail(d)) /\ Head(d).type \in MessageTypes
  BY <1>1, TailFacts DEF IsMail
<1>2. ASSUME NEW m, m.type \in MessageTypes PROVE IsMail(Append(d, m))
  BY <1>2, AppendFacts DEF IsMail
<1> QED
  BY <1>1, <1>2

-----------------------------------------------------------------------------
(* Connections *)

Fields == {"client", "server", "broken", "up", "down", "welcomed"}

\* A broken connection has nothing under way to the client.
Sound(conn) ==
    /\ Fields \subseteq DOMAIN conn
    /\ IsMail(conn.down)
    /\ conn.broken => conn.down = <<>>

SoundAll(conns) == IsSeq(conns) /\ \A c \in DOMAIN conns : Sound(conns[c])

\* From a to b a connection got no welcome and no event.
Milder(a, b) ==
    /\ Sound(b)
    /\ b.welcomed = a.welcomed
    /\ b.server = "none" => a.server = "none"
    /\ HasEvent(b.down) => HasEvent(a.down)
    /\ WelcomeLeads(a.down) => WelcomeLeads(b.down)

Grows(conns, more) ==
    /\ IsSeq(more)
    /\ \A c \in DOMAIN conns : c \in DOMAIN more /\ Milder(conns[c], more[c])
    /\ \A c \in DOMAIN more \ DOMAIN conns : more[c] = Connection

LEMMA NewIsSound == Sound(Connection)
BY NilKeepsOrder DEF Connection, Sound, Fields

LEMMA GrowsIsSound == ASSUME NEW conns, NEW more, Grows(conns, more) PROVE SoundAll(more)
BY NewIsSound DEF Grows, Milder, SoundAll

LEMMA GrowsReflexive == ASSUME NEW conns, SoundAll(conns) PROVE Grows(conns, conns)
BY DEF Grows, Milder, SoundAll

LEMMA GrowsTransitive ==
    ASSUME NEW a, NEW b, NEW d, Grows(a, b), Grows(b, d),
           DOMAIN d = DOMAIN b, DOMAIN b = DOMAIN a
    PROVE  Grows(a, d)
<1>1. ASSUME NEW c \in DOMAIN a PROVE c \in DOMAIN d /\ Milder(a[c], d[c])
  BY DEF Grows, Milder
<1> QED
  BY <1>1 DEF Grows

\* One connection changes.
LEMMA UpdateGrows ==
    ASSUME NEW conns, SoundAll(conns), NEW c \in DOMAIN conns, NEW e, Milder(conns[c], e)
    PROVE  /\ Grows(conns, [conns EXCEPT ![c] = e])
           /\ DOMAIN [conns EXCEPT ![c] = e] = DOMAIN conns
<1> DEFINE more == [conns EXCEPT ![c] = e]
<1>1. DOMAIN more = DOMAIN conns
  OBVIOUS
<1>2. \A k \in DOMAIN conns : more[k] = IF k = c THEN e ELSE conns[k]
  OBVIOUS
<1>3. IsSeq(more)
  <2>1. PICK S : conns \in Seq(S)
    BY DEF SoundAll, IsSeq
  <2>2. conns \in Seq(S \cup {e})
    BY <2>1
  <2>3. c \in 1..Len(conns)
    BY <2>2
  <2>4. more \in Seq(S \cup {e})
    BY <2>2, <2>3, ExceptSeq
  <2> QED
    BY <2>4 DEF IsSeq
<1>4. \A k \in DOMAIN conns : Milder(conns[k], more[k])
  BY <1>2, GrowsReflexive DEF Grows
<1> QED
  BY <1>1, <1>3, <1>4 DEF Grows

LEMMA DownFieldMilder ==
    ASSUME NEW a, Sound(a), NEW d, IsMail(d), a.broken => d = <<>>,
           HasEvent(d) => HasEvent(a.down), WelcomeLeads(a.down) => WelcomeLeads(d)
    PROVE  Milder(a, [a EXCEPT !.down = d])
BY DEF Milder, Sound, Fields

LEMMA OtherFieldsMilder ==
    ASSUME NEW a, Sound(a), NEW x
    PROVE  /\ Milder(a, [a EXCEPT !.up = x])
           /\ Milder(a, [a EXCEPT !.client = x])
           /\ x # "none" => Milder(a, [a EXCEPT !.server = x])
BY DEF Milder, Sound, Fields

\* A connection breaks: what was under way to the client is lost.
LEMMA BrokenMilder ==
    ASSUME NEW a, Sound(a), NEW received
    PROVE  Milder(a, Broken(a, received))
BY NilKeepsOrder DEF Milder, Sound, Fields, Broken

LEMMA SendUpGrows ==
    ASSUME NEW conns, SoundAll(conns), NEW c \in DOMAIN conns, NEW ids
    PROVE  Grows(conns, SendUp(conns, c, ids)) /\ DOMAIN SendUp(conns, c, ids) = DOMAIN conns
<1> DEFINE up == IF conns[c].broken THEN conns[c].up ELSE conns[c].up \cup ids
           conn == [conns[c] EXCEPT !.up = up]
<1>1. SendUp(conns, c, ids) = [conns EXCEPT ![c] = conn]
  BY DEF SendUp
<1>2. Milder(conns[c], conn)
  BY OtherFieldsMilder DEF SoundAll
<1> HIDE DEF conn
<1> DEFINE more == [conns EXCEPT ![c] = conn]
<1>5. Grows(conns, more) /\ DOMAIN more = DOMAIN conns
  BY <1>2, UpdateGrows
<1>6. SendUp(conns, c, ids) = more
  BY <1>1
<1> HIDE DEF more
<1> QED
  BY <1>5, <1>6

LEMMA SendDownGrows ==
    ASSUME NEW conns, SoundAll(conns), NEW c \in DOMAIN conns, NEW m,
           m.type = "response"
    PROVE  Grows(conns, SendDown(conns, c, m)) /\ DOMAIN SendDown(conns, c, m) = DOMAIN conns
<1> DEFINE down == IF conns[c].broken THEN conns[c].down ELSE Append(conns[c].down, m)
           conn == [conns[c] EXCEPT !.down = down]
<1>1. SendDown(conns, c, m) = [conns EXCEPT ![c] = conn]
  BY DEF SendDown
<1>2. Sound(conns[c])
  BY DEF SoundAll
<1>3. /\ IsMail(down) /\ (conns[c].broken => down = <<>>)
      /\ HasEvent(down) => HasEvent(conns[c].down)
      /\ WelcomeLeads(conns[c].down) => WelcomeLeads(down)
  <2>1. CASE conns[c].broken
    BY <1>2, <2>1 DEF Sound
  <2>2. CASE ~conns[c].broken
    <3>1. down = Append(conns[c].down, m) /\ IsMail(conns[c].down) /\ IsSeq(conns[c].down)
      BY <1>2, <2>2 DEF Sound, IsMail
    <3>2. m.type \in MessageTypes /\ m.type # "domainEvent" /\ m.type # "serverWelcome"
      BY DEF MessageTypes
    <3> HIDE DEF down
    <3> QED
      BY <2>2, <3>1, <3>2, MailChanges, AppendKeepsOrder
  <2> QED
    BY <2>1, <2>2
<1>4. Milder(conns[c], conn)
  BY <1>2, <1>3, DownFieldMilder
<1> HIDE DEF conn
<1> DEFINE more == [conns EXCEPT ![c] = conn]
<1>5. Grows(conns, more) /\ DOMAIN more = DOMAIN conns
  BY <1>4, UpdateGrows
<1>6. SendDown(conns, c, m) = more
  BY <1>1
<1> HIDE DEF more
<1> QED
  BY <1>5, <1>6

-----------------------------------------------------------------------------
(* What the client and the requests do *)

LEMMA RequestGrows ==
    ASSUME NEW t, NEW conns, SoundAll(conns), t.ws # 0 => t.ws \in DOMAIN conns, NEW kind
    PROVE  Grows(conns, request(t, conns, kind)[2]) /\ DOMAIN request(t, conns, kind)[2] = DOMAIN conns
<1>1. CASE IsOpen(t, conns)
  <2>1. t.ws \in DOMAIN conns
    BY <1>1 DEF IsOpen
  <2>2. request(t, conns, kind)[2] = SendUp(conns, t.ws, {Len(t.requests) + 1})
    BY <1>1 DEF request
  <2> QED
    BY <2>1, <2>2, SendUpGrows
<1>2. CASE ~IsOpen(t, conns)
  <2>1. request(t, conns, kind)[2] = conns
    BY <1>2 DEF request
  <2> QED
    BY <2>1, GrowsReflexive
<1> QED
  BY <1>1, <1>2

LEMMA FunctionIsSeq ==
    ASSUME NEW n \in Nat, NEW f, f = [i \in 1..n |-> f[i]]
    PROVE  IsSeq(f)
<1> DEFINE S == {f[i] : i \in 1..n}
<1>1. f \in [1..n -> S]
  OBVIOUS
<1> HIDE DEF S
<1>2. f \in Seq(S)
  BY <1>1
<1> QED
  BY <1>2 DEF IsSeq

TransportFields == {"ws", "outboundQueue", "requests", "reconnectTimer", "latestWelcome"}

\* The transport's socket is one of the connections.
Attached(t, conns) ==
    /\ TransportFields \subseteq DOMAIN t
    /\ t.ws # 0 => t.ws \in DOMAIN conns

ClientInv ==
    /\ SoundAll(connections)
    /\ Attached(transport, connections)
    /\ \A h \in handling : h.connection \in DOMAIN connections

LEMMA SettleAttached ==
    ASSUME NEW t, NEW conns, Attached(t, conns), NEW ids, NEW state
    PROVE  Attached(Settle(t, ids, state), conns)
BY DEF Attached, TransportFields, Settle

LEMMA CloseAttached ==
    ASSUME NEW t, NEW conns, Attached(t, conns)
    PROVE  Attached(handleClose(t), conns)
<1> DEFINE unsent == ToSet(t.outboundQueue) \cap pending(t)
           s == Settle(Settle(t, pending(t), "closed"), unsent, "unsent")
<1>1. Attached(s, conns)
  BY SettleAttached
<1>2. handleClose(t) = [s EXCEPT !.ws = 0, !.outboundQueue = <<>>, !.reconnectTimer = TRUE]
  BY DEF handleClose
<1> HIDE DEF s
<1> QED
  BY <1>1, <1>2 DEF Attached, TransportFields

LEMMA RequestAttached ==
    ASSUME NEW t, NEW conns, SoundAll(conns), Attached(t, conns), NEW kind
    PROVE  Attached(request(t, conns, kind)[1], request(t, conns, kind)[2])
<1>1. DOMAIN request(t, conns, kind)[2] = DOMAIN conns
  BY RequestGrows DEF Attached
<1>2. /\ TransportFields \subseteq DOMAIN request(t, conns, kind)[1]
      /\ request(t, conns, kind)[1].ws = t.ws
  BY DEF request, Attached, TransportFields
<1> QED
  BY <1>1, <1>2 DEF Attached

\* Whatever the refresh runner decides, all it sends is a request.
LEMMA EndsGrows ==
    ASSUME NEW t, NEW conns, SoundAll(conns), Attached(t, conns), NEW u, NEW asks,
           Ends(t, conns, u, asks)
    PROVE  /\ Grows(conns, connections') /\ DOMAIN connections' = DOMAIN conns
           /\ Attached(transport', connections')
<1>1. CASE asks
  <2>1. /\ transport' = request(t, conns, "snapshot")[1]
        /\ connections' = request(t, conns, "snapshot")[2]
    BY <1>1 DEF Ends
  <2> QED
    BY <2>1, RequestGrows, RequestAttached DEF Attached
<1>2. CASE ~asks
  <2>1. transport' = t /\ connections' = conns
    BY <1>2 DEF Ends
  <2> QED
    BY <2>1, GrowsReflexive
<1> QED
  BY <1>1, <1>2

LEMMA RefreshGrows ==
    ASSUME NEW t, NEW conns, SoundAll(conns), Attached(t, conns), NEW u,
           Refresh(t, conns, u) \/ RunnerGoesOn(t, conns, u) \/ RefreshFails(t, conns, u)
    PROVE  /\ Grows(conns, connections') /\ DOMAIN connections' = DOMAIN conns
           /\ Attached(transport', connections')
<1> DEFINE Done == /\ Grows(conns, connections') /\ DOMAIN connections' = DOMAIN conns
                   /\ Attached(transport', connections')
<1>1. ASSUME NEW v, RunnerGoesOn(t, conns, v) PROVE Done
  <2>1. CASE v.pendingReason
    <3>1. Ends(t, conns, [v EXCEPT !.pendingReason = FALSE], TRUE)
      BY <1>1, <2>1 DEF RunnerGoesOn
    <3> QED
      BY <3>1, EndsGrows
  <2>2. CASE ~v.pendingReason /\ ~v.subscribed
    <3>1. Ends(t, conns, [v EXCEPT !.subscribed = TRUE, !.running = t.latestWelcome],
               t.latestWelcome)
      BY <1>1, <2>2 DEF RunnerGoesOn
    <3> QED
      BY <3>1, EndsGrows
  <2>3. CASE ~v.pendingReason /\ v.subscribed
    <3>1. Ends(t, conns, [v EXCEPT !.running = FALSE], FALSE)
      BY <1>1, <2>3 DEF RunnerGoesOn
    <3> QED
      BY <3>1, EndsGrows
  <2> QED
    BY <2>1, <2>2, <2>3
<1>2. CASE Refresh(t, conns, u)
  <2>1. CASE u.running
    <3>1. Ends(t, conns, [u EXCEPT !.pendingReason = TRUE], FALSE)
      BY <1>2, <2>1 DEF Refresh
    <3> QED
      BY <3>1, EndsGrows
  <2>2. CASE ~u.running
    <3>1. Ends(t, conns, [u EXCEPT !.running = TRUE], TRUE)
      BY <1>2, <2>2 DEF Refresh
    <3> QED
      BY <3>1, EndsGrows
  <2> QED
    BY <2>1, <2>2
<1>3. CASE RefreshFails(t, conns, u)
  BY <1>1, <1>3 DEF RefreshFails
<1> QED
  BY <1>1, <1>2, <1>3

-----------------------------------------------------------------------------
(* Steps that send the client nothing but responses *)

LEMMA ConnectGrows ==
    ASSUME ClientInv, Connect
    PROVE  Grows(connections, connections') /\ Attached(transport', connections')
<1>1. /\ connections' = Append(connections, Connection)
      /\ transport' = [transport EXCEPT !.reconnectTimer = FALSE, !.ws = Len(connections) + 1]
  BY DEF Connect, connect
<1>2. /\ IsSeq(connections') /\ DOMAIN connections' = DOMAIN connections \cup {Len(connections) + 1}
      /\ \A c \in DOMAIN connections : connections'[c] = connections[c]
      /\ connections'[Len(connections) + 1] = Connection
  BY <1>1, AppendFacts DEF ClientInv, SoundAll
<1>3. \A c \in DOMAIN connections : Milder(connections[c], connections'[c])
  BY <1>2, GrowsReflexive DEF ClientInv, Grows
<1>4. Grows(connections, connections')
  BY <1>2, <1>3 DEF Grows
<1>5. Attached(transport', connections')
  BY <1>1, <1>2 DEF ClientInv, Attached, TransportFields
<1> QED
  BY <1>4, <1>5

\* conns is what a step made of one connection before the refresh runner went on.
LEMMA ThenGrows ==
    ASSUME ClientInv, NEW conns, Grows(connections, conns), DOMAIN conns = DOMAIN connections,
           NEW t, Attached(t, connections), NEW u,
           \/ \E asks : Ends(t, conns, u, asks)
           \/ Refresh(t, conns, u) \/ RunnerGoesOn(t, conns, u) \/ RefreshFails(t, conns, u)
    PROVE  Grows(connections, connections') /\ Attached(transport', connections')
<1>1. SoundAll(conns) /\ Attached(t, conns)
  BY GrowsIsSound DEF Attached
<1>2. /\ Grows(conns, connections') /\ DOMAIN connections' = DOMAIN conns
      /\ Attached(transport', connections')
  BY <1>1, EndsGrows, RefreshGrows
<1> QED
  BY <1>2, GrowsTransitive

LEMMA RejectedGrows ==
    ASSUME ClientInv, NEW conns, Grows(connections, conns), DOMAIN conns = DOMAIN connections,
           NEW t, Attached(t, connections), Rejected(t, conns)
    PROVE  Grows(connections, connections') /\ Attached(transport', connections')
<1>1. RefreshFails(t, conns, ui) \/ Ends(t, conns, ui, FALSE)
  BY DEF Rejected
<1> QED
  BY <1>1, ThenGrows

LEMMA ClientCloseGrows ==
    ASSUME ClientInv, NEW c \in DOMAIN connections, ClientClose(c)
    PROVE  Grows(connections, connections') /\ Attached(transport', connections')
<1> DEFINE conns == [connections EXCEPT ![c].client = "closed"]
<1>1. Grows(connections, conns) /\ DOMAIN conns = DOMAIN connections
  <2> DEFINE conn == [connections[c] EXCEPT !.client = "closed"]
  <2>1. Milder(connections[c], conn)
    BY OtherFieldsMilder DEF ClientInv, SoundAll
  <2> HIDE DEF conn
  <2>2. Grows(connections, [connections EXCEPT ![c] = conn])
    BY <2>1, UpdateGrows DEF ClientInv
  <2> QED
    BY <2>2 DEF conn
<1>2. Rejected(handleClose(transport), conns)
  BY DEF ClientClose
<1>3. Attached(handleClose(transport), connections)
  BY CloseAttached DEF ClientInv
<1> HIDE DEF conns
<1> QED
  BY <1>1, <1>2, <1>3, RejectedGrows

LEMMA TimeOutGrows ==
    ASSUME ClientInv, NEW id, RequestTimesOut(id)
    PROVE  Grows(connections, connections') /\ Attached(transport', connections')
<1>1. Attached(TimeOut(transport, id), connections)
  BY SettleAttached DEF ClientInv, TimeOut
<1>2. Grows(connections, connections)
  BY GrowsReflexive DEF ClientInv
<1>3. Rejected(TimeOut(transport, id), connections)
  BY DEF RequestTimesOut
<1> QED
  BY <1>1, <1>2, <1>3, RejectedGrows

LEMMA ReceiveGrows ==
    ASSUME ClientInv, NEW c \in DOMAIN connections, Receive(c)
    PROVE  Grows(connections, connections') /\ Attached(transport', connections')
<1> DEFINE m == Head(connections[c].down)
           conns == [connections EXCEPT ![c].down = Tail(@)]
           t == SettleResponse(transport, m)
           welcomed == [transport EXCEPT !.latestWelcome = TRUE]
<1>1. connections[c].down # <<>>
  BY DEF Receive
<1>2. Grows(connections, conns) /\ DOMAIN conns = DOMAIN connections
  <2> DEFINE down == Tail(connections[c].down)
             conn == [connections[c] EXCEPT !.down = down]
  <2>1. Sound(connections[c])
    BY DEF ClientInv, SoundAll
  <2>2. IsMail(down) /\ ~connections[c].broken
    BY <1>1, <2>1, MailChanges DEF Sound
  <2>3. /\ HasEvent(down) => HasEvent(connections[c].down)
        /\ WelcomeLeads(connections[c].down) => WelcomeLeads(down)
    BY <1>1, <2>1, TailKeepsOrder DEF Sound, IsMail
  <2>4. Milder(connections[c], conn)
    BY <2>1, <2>2, <2>3, DownFieldMilder
  <2> HIDE DEF conn
  <2>5. Grows(connections, [connections EXCEPT ![c] = conn])
    BY <2>4, UpdateGrows DEF ClientInv
  <2> QED
    BY <2>5 DEF conn
<1>3. Attached(t, connections) /\ Attached(transport, connections)
  BY SettleAttached DEF ClientInv, SettleResponse
<1>4. Attached(welcomed, connections)
  BY <1>3 DEF Attached, TransportFields
<1>5. CASE m.type = "serverWelcome"
  <2>1. Refresh(welcomed, conns, ui) \/ Ends(welcomed, conns, ui, FALSE)
    BY <1>5 DEF Receive
  <2> HIDE DEF conns, welcomed
  <2> QED
    BY <1>2, <1>4, <2>1, ThenGrows
<1>6. CASE m.type = "domainEvent"
  <2>1. Refresh(transport, conns, ui) \/ Ends(transport, conns, ui, FALSE)
    BY <1>6 DEF Receive
  <2> HIDE DEF conns
  <2> QED
    BY <1>2, <1>3, <2>1, ThenGrows
<1>7. CASE m.type = "response"
  <2>1. \/ Ends(transport, conns, ui, FALSE)
        \/ \E u : RunnerGoesOn(t, conns, u)
        \/ Ends(t, conns, IF m.ok THEN [ui EXCEPT !.snapshot = m.result]
                     ELSE [ui EXCEPT !.refreshTimer = TRUE], FALSE)
        \/ Ends(t, conns, ui, FALSE)
    BY <1>7 DEF Receive
  <2> HIDE DEF conns, t
  <2> QED
    BY <1>2, <1>3, <2>1, ThenGrows
<1>8. m.type \in MessageTypes
  BY <1>1, MailChanges DEF ClientInv, SoundAll, Sound
<1> QED
  BY <1>5, <1>6, <1>7, <1>8 DEF MessageTypes

LEMMA OpenGrows ==
    ASSUME ClientInv, NEW c \in DOMAIN connections, Open(c)
    PROVE  Grows(connections, connections') /\ Attached(transport', connections')
<1> DEFINE conn == [[connections[c] EXCEPT !.client = "open"] EXCEPT !.server = "open"]
           conns == [connections EXCEPT ![c] = conn]
<1>1. Milder(connections[c], conn)
  BY DEF ClientInv, SoundAll, Milder, Sound, Fields
<1>2. /\ connections' = SendUp(conns, c, ToSet(transport.outboundQueue))
      /\ transport' = [transport EXCEPT !.outboundQueue = <<>>]
  BY DEF Open, handleOpen
<1> HIDE DEF conn
<1>3. Grows(connections, conns) /\ DOMAIN conns = DOMAIN connections
  BY <1>1, UpdateGrows DEF ClientInv
<1> HIDE DEF conns
<1>4. Grows(conns, connections') /\ DOMAIN connections' = DOMAIN conns
  BY <1>2, <1>3, GrowsIsSound, SendUpGrows
<1>5. Grows(connections, connections')
  BY <1>3, <1>4, GrowsTransitive
<1>6. Attached(transport', connections')
  BY <1>2, <1>3, <1>4 DEF ClientInv, Attached, TransportFields
<1> QED
  BY <1>5, <1>6

LEMMA RouteGrows ==
    ASSUME ClientInv, NEW c \in DOMAIN connections, NEW id, RouteRequest(c, id)
    PROVE  Grows(connections, connections') /\ DOMAIN connections' = DOMAIN connections
<1> DEFINE conn == [connections[c] EXCEPT !.up = connections[c].up \ {id}]
<1>1. connections' = [connections EXCEPT ![c] = conn]
  BY DEF RouteRequest
<1>2. Milder(connections[c], conn)
  BY OtherFieldsMilder DEF ClientInv, SoundAll
<1> HIDE DEF conn
<1>3. Grows(connections, [connections EXCEPT ![c] = conn])
      /\ DOMAIN [connections EXCEPT ![c] = conn] = DOMAIN connections
  BY <1>2, UpdateGrows DEF ClientInv
<1> QED
  BY <1>1, <1>3, Zenon

LEMMA ResponseGrows ==
    ASSUME ClientInv, NEW h \in handling, NEW ok, SendResponse(h, ok)
    PROVE  Grows(connections, connections') /\ DOMAIN connections' = DOMAIN connections
<1> DEFINE m == [type |-> "response", id |-> h.id, ok |-> ok, result |-> h.result]
<1>1. connections' = SendDown(connections, h.connection, m) \/ connections' = connections
  BY DEF SendResponse
<1>2. m.type = "response"
  OBVIOUS
<1> HIDE DEF m
<1>3. Grows(connections, SendDown(connections, h.connection, m))
      /\ DOMAIN SendDown(connections, h.connection, m) = DOMAIN connections
  BY <1>2, SendDownGrows DEF ClientInv
<1> QED
  BY <1>1, <1>3, GrowsReflexive DEF ClientInv

LEMMA BreakGrows ==
    ASSUME ClientInv, NEW c \in DOMAIN connections, Break(c)
    PROVE  Grows(connections, connections') /\ DOMAIN connections' = DOMAIN connections
<1>1. PICK received : connections' = [connections EXCEPT ![c] = Broken(connections[c], received)]
  BY DEF Break
<1> DEFINE conn == Broken(connections[c], received)
<1>2. Milder(connections[c], conn)
  BY BrokenMilder DEF ClientInv, SoundAll
<1>3. connections' = [connections EXCEPT ![c] = conn]
  BY <1>1
<1> HIDE DEF conn
<1>4. Grows(connections, [connections EXCEPT ![c] = conn])
      /\ DOMAIN [connections EXCEPT ![c] = conn] = DOMAIN connections
  BY <1>2, UpdateGrows DEF ClientInv
<1> QED
  BY <1>3, <1>4, Zenon

\* The steps that send neither welcomes nor events.
QuietStep ==
    \/ ClientStep \/ Dispatch
    \/ \E c \in DOMAIN connections : Open(c) \/ Break(c)
    \/ \E c \in DOMAIN connections : \E id \in connections[c].up : RouteRequest(c, id)
    \/ \E h \in handling : Respond(h) \/ SnapshotFails(h)
    \/ \E id \in DOMAIN transport.requests : RequestTimesOut(id)

LEMMA QuietGrows ==
    ASSUME ClientInv, QuietStep
    PROVE  /\ Grows(connections, connections') /\ ClientInv'
           /\ UNCHANGED <<queue, clients, joining>>
<1> USE DEF server, pushVars
<1> DEFINE Done == Grows(connections, connections') /\ Attached(transport', connections')
<1>1. CASE Connect
  <2>1. Done
    BY <1>1, ConnectGrows
  <2>2. UNCHANGED <<queue, clients, joining, handling>>
    BY <1>1 DEF Connect
  <2> QED
    BY <2>1, <2>2, GrowsIsSound DEF ClientInv, Grows
<1>2. CASE \E c \in DOMAIN connections : ClientClose(c) \/ Receive(c)
  <2>1. Done
    BY <1>2, ClientCloseGrows, ReceiveGrows
  <2>2. UNCHANGED <<queue, clients, joining, handling>>
    BY <1>2 DEF ClientClose, Receive
  <2> QED
    BY <2>1, <2>2, GrowsIsSound DEF ClientInv, Grows
<1>3. CASE Retry
  <2>1. Refresh(transport, connections, [ui EXCEPT !.refreshTimer = FALSE])
    BY <1>3 DEF Retry
  <2>2. Done
    BY <2>1, RefreshGrows DEF ClientInv
  <2>3. UNCHANGED <<queue, clients, joining, handling>>
    BY <1>3 DEF Retry
  <2> QED
    BY <2>2, <2>3, GrowsIsSound DEF ClientInv, Grows
<1>4. CASE Dispatch
  <2>1. /\ transport' = request(transport, connections, "dispatch")[1]
        /\ connections' = request(transport, connections, "dispatch")[2]
    BY <1>4 DEF Dispatch
  <2>2. Done
    BY <2>1, RequestGrows, RequestAttached DEF ClientInv, Attached
  <2>3. UNCHANGED <<queue, clients, joining, handling>>
    BY <1>4 DEF Dispatch
  <2> QED
    BY <2>2, <2>3, GrowsIsSound DEF ClientInv, Grows
<1>5. CASE \E c \in DOMAIN connections : Open(c)
  <2>1. Done
    BY <1>5, OpenGrows
  <2>2. UNCHANGED <<queue, clients, joining, handling>>
    BY <1>5 DEF Open
  <2> QED
    BY <2>1, <2>2, GrowsIsSound DEF ClientInv, Grows
<1>6. CASE \E c \in DOMAIN connections : Break(c)
  <2>1. Grows(connections, connections') /\ DOMAIN connections' = DOMAIN connections
    BY <1>6, BreakGrows
  <2>2. UNCHANGED <<queue, clients, joining, transport>> /\ handling' \subseteq handling
    BY <1>6 DEF Break
  <2> QED
    BY <2>1, <2>2, GrowsIsSound DEF ClientInv, Attached
<1>7. CASE \E c \in DOMAIN connections : \E id \in connections[c].up : RouteRequest(c, id)
  <2>1. PICK c \in DOMAIN connections : \E id : RouteRequest(c, id)
    BY <1>7
  <2>2. Grows(connections, connections') /\ DOMAIN connections' = DOMAIN connections
    BY <2>1, RouteGrows
  <2>3. /\ UNCHANGED <<queue, clients, joining, transport>>
        /\ \A h \in handling' : h \in handling \/ h.connection = c
    BY <2>1 DEF RouteRequest
  <2> QED
    BY <2>2, <2>3, GrowsIsSound DEF ClientInv, Attached
<1>8. CASE \E h \in handling : Respond(h) \/ SnapshotFails(h)
  <2>1. PICK h \in handling : \E ok : SendResponse(h, ok)
    BY <1>8 DEF Respond, SnapshotFails
  <2>2. Grows(connections, connections') /\ DOMAIN connections' = DOMAIN connections
    BY <2>1, ResponseGrows
  <2>3. UNCHANGED <<queue, clients, joining, transport>> /\ handling' \subseteq handling
    BY <2>1 DEF SendResponse
  <2> QED
    BY <2>2, <2>3, GrowsIsSound DEF ClientInv, Attached
<1>9. CASE \E id \in DOMAIN transport.requests : RequestTimesOut(id)
  <2>1. Done
    BY <1>9, TimeOutGrows
  <2>2. UNCHANGED <<queue, clients, joining, handling>>
    BY <1>9 DEF RequestTimesOut
  <2> QED
    BY <2>1, <2>2, GrowsIsSound DEF ClientInv, Grows
<1> QED
  BY <1>1, <1>2, <1>3, <1>4, <1>5, <1>6, <1>7, <1>8, <1>9 DEF QuietStep, ClientStep

-----------------------------------------------------------------------------
(* Where a connection is on its way to the broadcast set *)

Reached == clients \cup joining
Targets(q) == {q[i].target : i \in DOMAIN q}

IsJob(job, conns) ==
    \/ job.channel = "domainEvent" /\ job.target = 0
    \/ job.channel = "serverWelcome" /\ job.target \in DOMAIN conns

QueueInv(q, conns) ==
    /\ IsSeq(q)
    /\ \A i \in DOMAIN q : IsJob(q[i], conns)
    /\ \A i, j \in DOMAIN q : q[i].target = q[j].target /\ q[i].target # 0 => i = j

\* conn is connection c, when reached holds those that events may reach and queued
\* those whose welcome is queued.
OnItsWay(c, conn, reached, queued) ==
    /\ conn.server = "none" => ~conn.welcomed
    /\ c \in reached \cup queued => conn.welcomed
    /\ c \in queued => c \notin reached
    /\ c \notin reached => ~HasEvent(conn.down)
    /\ WelcomeLeads(conn.down)

PushInv ==
    /\ QueueInv(queue, connections)
    /\ Reached \subseteq DOMAIN connections
    /\ \A c \in DOMAIN connections :
          OnItsWay(c, connections[c], Reached, Targets(queue))

LEMMA MilderOnItsWay ==
    ASSUME NEW a, NEW b, Milder(a, b), NEW c, NEW reached, NEW queued,
           OnItsWay(c, a, reached, queued)
    PROVE  OnItsWay(c, b, reached, queued)
BY DEF Milder, OnItsWay

LEMMA NewOnItsWay ==
    ASSUME NEW c, NEW reached, NEW queued, c \notin reached, c \notin queued
    PROVE  OnItsWay(c, Connection, reached, queued)
BY NilKeepsOrder DEF Connection, OnItsWay

\* The queue when a job was taken from it.
LEMMA QueueTail ==
    ASSUME NEW q, NEW conns, QueueInv(q, conns), q # <<>>
    PROVE  /\ QueueInv(Tail(q), conns)
           /\ IsJob(Head(q), conns) /\ Head(q).target \in Targets(q)
           /\ Targets(Tail(q)) \subseteq Targets(q)
           /\ Head(q).target # 0 => Head(q).target \notin Targets(Tail(q))
<1>1. /\ IsSeq(Tail(q)) /\ 1 \in DOMAIN q /\ Head(q) = q[1]
      /\ \A i \in DOMAIN Tail(q) : i + 1 \in DOMAIN q /\ Tail(q)[i] = q[i + 1]
      /\ \A i \in DOMAIN Tail(q) : i \in Nat /\ i > 0
  BY TailFacts, SeqFacts DEF QueueInv
<1>2. \A i, j \in DOMAIN Tail(q) :
         Tail(q)[i].target = Tail(q)[j].target /\ Tail(q)[i].target # 0 => i = j
  <2>1. ASSUME NEW i \in DOMAIN Tail(q), NEW j \in DOMAIN Tail(q),
               Tail(q)[i].target = Tail(q)[j].target, Tail(q)[i].target # 0
        PROVE  i = j
    <3>1. i + 1 = j + 1
      BY <1>1, <2>1 DEF QueueInv
    <3> QED
      BY <1>1, <3>1
  <2> QED
    BY <2>1
<1>3. QueueInv(Tail(q), conns)
  BY <1>1, <1>2 DEF QueueInv
<1>4. IsJob(Head(q), conns) /\ Head(q).target \in Targets(q)
  BY <1>1 DEF QueueInv, Targets
<1>5. Targets(Tail(q)) \subseteq Targets(q)
  BY <1>1 DEF Targets
<1>6. ASSUME NEW i \in DOMAIN Tail(q), Tail(q)[i].target = Head(q).target, Head(q).target # 0
      PROVE  FALSE
  <2>1. i + 1 = 1
    BY <1>1, <1>6 DEF QueueInv
  <2> QED
    BY <1>1, <2>1
<1> QED
  BY <1>3, <1>4, <1>5, <1>6 DEF Targets

LEMMA QueueAppend ==
    ASSUME NEW q, NEW conns, QueueInv(q, conns), NEW job, IsJob(job, conns),
           job.target # 0 => job.target \notin Targets(q)
    PROVE  /\ QueueInv(Append(q, job), conns)
           /\ Targets(Append(q, job)) = Targets(q) \cup {job.target}
<1> DEFINE more == Append(q, job)
<1>1. /\ IsSeq(more) /\ DOMAIN more = DOMAIN q \cup {Len(q) + 1}
      /\ \A i \in DOMAIN q : more[i] = q[i]
      /\ more[Len(q) + 1] = job
  BY AppendFacts DEF QueueInv
<1> HIDE DEF more
<1>2. Targets(more) = Targets(q) \cup {job.target}
  BY <1>1 DEF Targets
<1>3. \A i \in DOMAIN more : IsJob(more[i], conns)
  BY <1>1 DEF QueueInv
<1>4. \A i, j \in DOMAIN more : more[i].target = more[j].target /\ more[i].target # 0 => i = j
  BY <1>1 DEF QueueInv, Targets
<1> QED
  BY <1>1, <1>2, <1>3, <1>4 DEF QueueInv, more

\* Connections that only grow keep the jobs.
LEMMA QueueGrows ==
    ASSUME NEW q, NEW conns, NEW more, DOMAIN conns \subseteq DOMAIN more, QueueInv(q, conns)
    PROVE  QueueInv(q, more)
BY DEF QueueInv, IsJob

LEMMA QuietKeepsPush ==
    ASSUME ClientInv, PushInv, Grows(connections, connections'),
           UNCHANGED <<queue, clients, joining>>
    PROVE  PushInv'
<1>1. /\ UNCHANGED Reached /\ UNCHANGED Targets(queue)
      /\ DOMAIN connections \subseteq DOMAIN connections'
  BY DEF Reached, Targets, Grows
<1>2. QueueInv(queue, connections)'
  BY <1>1, QueueGrows DEF PushInv
<1>3. ASSUME NEW c \in DOMAIN connections'
      PROVE  OnItsWay(c, connections'[c], Reached, Targets(queue))
  <2>1. CASE c \in DOMAIN connections
    BY <2>1, MilderOnItsWay DEF Grows, PushInv
  <2>2. CASE c \notin DOMAIN connections
    <3>1. c # 0
      BY SeqFacts DEF Grows
    <3>2. \A i \in DOMAIN queue : queue[i].target # c
      BY <2>2, <3>1 DEF PushInv, QueueInv, IsJob
    <3>3. c \notin Reached /\ c \notin Targets(queue)
      BY <2>2, <3>2 DEF PushInv, Targets
    <3>4. connections'[c] = Connection
      BY <2>2 DEF Grows
    <3> QED
      BY <3>3, <3>4, NewOnItsWay
  <2> QED
    BY <2>1, <2>2
<1> QED
  BY <1>1, <1>2, <1>3 DEF PushInv

-----------------------------------------------------------------------------
(* Steps of the push bus and the connection handler *)

LEMMA WelcomeKeepsPush ==
    ASSUME ClientInv, PushInv, NEW c \in DOMAIN connections, publishWelcome(c), UNCHANGED handling
    PROVE  ClientInv' /\ PushInv'
<1> DEFINE job == Job("serverWelcome", 0, c)
           conn == [connections[c] EXCEPT !.welcomed = TRUE]
<1>1. /\ connections[c].server = "open" /\ ~connections[c].welcomed
      /\ queue' = Append(queue, job)
      /\ connections' = [connections EXCEPT ![c] = conn]
      /\ UNCHANGED <<transport, clients, joining>>
  BY DEF publishWelcome
<1>2. Sound(connections[c]) /\ OnItsWay(c, connections[c], Reached, Targets(queue))
  BY DEF ClientInv, SoundAll, PushInv
<1>3. /\ Sound(conn) /\ conn.welcomed /\ conn.server = "open" /\ conn.down = connections[c].down
  BY <1>1, <1>2 DEF Sound, Fields
<1>4. /\ DOMAIN connections' = DOMAIN connections
      /\ \A k \in DOMAIN connections : connections'[k] = IF k = c THEN conn ELSE connections[k]
  BY <1>1
<1>5. IsSeq(connections')
  <2>1. PICK S : connections \in Seq(S)
    BY DEF ClientInv, SoundAll, IsSeq
  <2>2. connections \in Seq(S \cup {conn}) /\ c \in 1..Len(connections)
    BY <2>1
  <2> HIDE DEF conn
  <2>3. [connections EXCEPT ![c] = conn] \in Seq(S \cup {conn})
    BY <2>2, ExceptSeq
  <2> QED
    BY <1>1, <2>3 DEF IsSeq
<1>6. job.target = c /\ IsJob(job, connections)
  BY DEF Job, IsJob
<1>7. c \notin Reached /\ c \notin Targets(queue)
  BY <1>1, <1>2 DEF OnItsWay
<1> HIDE DEF conn, job
<1>8. /\ QueueInv(queue', connections) /\ Targets(queue') = Targets(queue) \cup {c}
  BY <1>1, <1>6, <1>7, QueueAppend DEF PushInv
<1>9. QueueInv(queue', connections')
  BY <1>4, <1>8, QueueGrows
<1>10. Reached' = Reached
  BY <1>1 DEF Reached
<1>11. ASSUME NEW k \in DOMAIN connections
       PROVE  OnItsWay(k, connections'[k], Reached, Targets(queue'))
  <2>1. OnItsWay(k, connections[k], Reached, Targets(queue))
    BY DEF PushInv
  <2>2. CASE k = c
    BY <1>2, <1>3, <1>4, <1>7, <2>2 DEF OnItsWay
  <2>3. CASE k # c
    BY <1>4, <1>8, <2>1, <2>3 DEF OnItsWay
  <2> QED
    BY <2>2, <2>3
<1>12. ClientInv'
  BY <1>1, <1>2, <1>3, <1>4, <1>5 DEF ClientInv, SoundAll, Attached
<1> QED
  BY <1>4, <1>8, <1>9, <1>10, <1>11, <1>12 DEF PushInv

LEMMA StreamKeepsPush ==
    ASSUME ClientInv, PushInv, StreamEvent
    PROVE  ClientInv' /\ PushInv'
<1> DEFINE job == Job("domainEvent", streamed', 0)
<1>1. queue' = Append(queue, job) /\ UNCHANGED <<transport, connections, clients, joining, handling>>
  BY DEF StreamEvent, publishAll
<1>2. job.target = 0 /\ IsJob(job, connections)
  BY DEF Job, IsJob
<1> HIDE DEF job
<1>3. QueueInv(queue', connections) /\ Targets(queue') = Targets(queue) \cup {0}
  BY <1>1, <1>2, QueueAppend DEF PushInv
<1>4. \A c \in DOMAIN connections : c # 0
  BY SeqFacts DEF ClientInv, SoundAll
<1>5. \A c \in DOMAIN connections : OnItsWay(c, connections[c], Reached, Targets(queue'))
  BY <1>3, <1>4 DEF PushInv, OnItsWay
<1> QED
  BY <1>1, <1>3, <1>5 DEF PushInv, Reached, ClientInv

LEMMA JoinKeepsPush ==
    ASSUME ClientInv, PushInv, NEW c, join(c), UNCHANGED handling
    PROVE  ClientInv' /\ PushInv'
<1>1. UNCHANGED <<transport, connections, queue>> /\ Reached' = Reached
  BY DEF join, Reached
<1> QED
  BY <1>1 DEF ClientInv, PushInv

LEMMA ServerCloseKeepsPush ==
    ASSUME ClientInv, PushInv, NEW c \in DOMAIN connections, ServerClose(c)
    PROVE  ClientInv' /\ PushInv'
<1> DEFINE conn == [connections[c] EXCEPT !.server = "closed"]
<1>1. /\ connections[c].broken /\ c \notin joining
      /\ connections' = [connections EXCEPT ![c] = conn]
      /\ clients' = clients \ {c}
      /\ UNCHANGED <<transport, queue, joining, handling>>
  BY DEF ServerClose
<1>2. Milder(connections[c], conn) /\ conn.down = connections[c].down
  BY OtherFieldsMilder DEF ClientInv, SoundAll, Sound, Fields
<1> HIDE DEF conn
<1>3. Grows(connections, connections') /\ DOMAIN connections' = DOMAIN connections
      /\ \A k \in DOMAIN connections : connections'[k] = IF k = c THEN conn ELSE connections[k]
  <2>1. Grows(connections, [connections EXCEPT ![c] = conn])
    BY <1>2, UpdateGrows DEF ClientInv
  <2>2. Grows(connections, connections')
    BY <1>1, <2>1, Zenon
  <2> QED
    BY <1>1, <2>2
<1>4. Reached' = Reached \ {c}
  BY <1>1 DEF Reached
<1>5. ASSUME NEW k \in DOMAIN connections
      PROVE  OnItsWay(k, connections'[k], Reached', Targets(queue))
  <2>1. OnItsWay(k, connections'[k], Reached, Targets(queue))
    BY <1>3, MilderOnItsWay DEF Grows, PushInv
  <2>2. CASE k = c
    <3>1. ~HasEvent(connections'[k].down)
      BY <1>1, <1>2, <1>3, <2>2, NilKeepsOrder DEF ClientInv, SoundAll, Sound
    <3> QED
      BY <1>4, <2>1, <3>1 DEF OnItsWay
  <2>3. CASE k # c
    BY <1>4, <2>1, <2>3 DEF OnItsWay
  <2> QED
    BY <2>2, <2>3
<1>6. QueueInv(queue, connections')
  BY <1>3, QueueGrows DEF PushInv
<1>7. ClientInv'
  BY <1>1, <1>3, GrowsIsSound DEF ClientInv, Attached
<1> QED
  BY <1>1, <1>3, <1>4, <1>5, <1>6, <1>7 DEF PushInv

LEMMA CrashKeepsPush ==
    ASSUME ClientInv, PushInv, CrashServer
    PROVE  ClientInv' /\ PushInv'
<1>1. /\ connections' = [c \in DOMAIN connections |->
                            IF connections[c].server = "none" THEN connections[c]
                            ELSE [Broken(connections[c], {}) EXCEPT !.server = "closed"]]
      /\ queue' = <<>> /\ clients' = {} /\ joining' = {} /\ handling' = {}
      /\ UNCHANGED transport
  BY DEF CrashServer
<1>2. Len(connections) \in Nat /\ DOMAIN connections = 1..Len(connections)
  BY SeqFacts DEF ClientInv, SoundAll
<1>3. IsSeq(connections')
  BY <1>1, <1>2, FunctionIsSeq
<1>4. ASSUME NEW c \in DOMAIN connections
      PROVE  /\ Milder(connections[c], connections'[c])
             /\ OnItsWay(c, connections'[c], {}, {})
  <2>1. Sound(connections[c]) /\ OnItsWay(c, connections[c], Reached, Targets(queue))
    BY DEF ClientInv, SoundAll, PushInv
  <2>2. CASE connections[c].server = "none"
    <3>1. connections'[c] = connections[c] /\ Milder(connections[c], connections[c])
      BY <1>1, <2>2, GrowsReflexive DEF ClientInv, Grows
    <3> QED
      BY <2>1, <2>2, <3>1 DEF OnItsWay
  <2>3. CASE connections[c].server # "none"
    <3> DEFINE b == Broken(connections[c], {})
    <3>1. Milder(connections[c], b) /\ b.down = <<>>
      BY <2>1, BrokenMilder DEF Broken, Sound, Fields
    <3> HIDE DEF b
    <3>2. Milder(b, [b EXCEPT !.server = "closed"]) /\ [b EXCEPT !.server = "closed"].down = <<>>
          /\ [b EXCEPT !.server = "closed"].server = "closed"
      BY <3>1, OtherFieldsMilder DEF Milder, Sound, Fields
    <3>3. connections'[c] = [b EXCEPT !.server = "closed"]
      BY <1>1, <2>3 DEF b
    <3>4. Milder(connections[c], connections'[c])
      BY <2>3, <3>1, <3>2, <3>3 DEF Milder
    <3> QED
      BY <3>2, <3>3, <3>4, NilKeepsOrder DEF OnItsWay
  <2> QED
    BY <2>2, <2>3
<1>5. Reached' = {} /\ Targets(queue') = {}
  BY <1>1, NilFacts DEF Reached, Targets
<1>6. QueueInv(queue', connections')
  BY <1>1, NilFacts DEF QueueInv
<1>7. ClientInv'
  BY <1>1, <1>3, <1>4 DEF ClientInv, SoundAll, Milder, Attached
<1> QED
  BY <1>1, <1>4, <1>5, <1>6, <1>7 DEF PushInv

\* The worker sends a job: an event reaches those that had their welcome, a
\* welcome a connection that no event has reached.
LEMMA SendKeepsPush ==
    ASSUME ClientInv, PushInv, send, UNCHANGED handling
    PROVE  ClientInv' /\ PushInv'
<1> DEFINE job == Head(queue)
           m == [type |-> job.channel, sequence |-> job.sequence]
           addressed == IF job.target = 0 THEN clients ELSE {job.target}
<1>1. PICK open : open = {c \in addressed : connections[c].server = "open"}
  OBVIOUS
<1>2. /\ queue # <<>> /\ queue' = Tail(queue)
      /\ connections' = [c \in DOMAIN connections |->
            IF c \in open /\ ~connections[c].broken
              THEN [connections[c] EXCEPT !.down = Append(@, m)] ELSE connections[c]]
      /\ joining' = IF job.target \in open THEN joining \cup {job.target} ELSE joining
      /\ UNCHANGED <<transport, clients>>
  BY <1>1 DEF send
<1>3. /\ QueueInv(Tail(queue), connections) /\ IsJob(job, connections)
      /\ job.target \in Targets(queue) /\ Targets(Tail(queue)) \subseteq Targets(queue)
      /\ job.target # 0 => job.target \notin Targets(Tail(queue))
  BY <1>2, QueueTail DEF PushInv
<1>4. m.type = job.channel /\ m.type \in MessageTypes
  BY <1>3 DEF IsJob, MessageTypes
<1>5. /\ DOMAIN connections = 1..Len(connections) /\ Len(connections) \in Nat
      /\ 0 \notin DOMAIN connections
  BY SeqFacts DEF ClientInv, SoundAll
<1>6. open \subseteq DOMAIN connections /\ 0 \notin open
  BY <1>1, <1>3, <1>5 DEF PushInv, Reached, IsJob
<1> HIDE DEF job, m, addressed
<1>7. Reached' = Reached \cup {c \in open : c = job.target}
  BY <1>2 DEF Reached
<1>8. ASSUME NEW c \in open
      PROVE  IF m.type = "domainEvent" THEN c \in Reached
             ELSE /\ c = job.target /\ c \in Targets(queue) /\ c \notin Targets(Tail(queue))
                  /\ m.type = "serverWelcome"
  <2>1. CASE job.channel = "domainEvent"
    <3>1. job.target = 0 \/ job.channel = "serverWelcome"
      BY <1>3 DEF IsJob
    <3> QED
      BY <1>1, <1>4, <2>1, <3>1 DEF addressed, Reached
  <2>2. CASE job.channel = "serverWelcome"
    <3>1. job.target \in DOMAIN connections
      BY <1>3, <2>2 DEF IsJob
    <3>2. job.target # 0 /\ c = job.target
      BY <1>1, <1>5, <3>1 DEF addressed
    <3> QED
      BY <1>3, <1>4, <2>2, <3>2
  <2> QED
    BY <1>3, <2>1, <2>2 DEF IsJob
<1>9. ASSUME NEW c \in DOMAIN connections
      PROVE  /\ Sound(connections'[c])
             /\ OnItsWay(c, connections'[c], Reached', Targets(queue'))
  <2>1. Sound(connections[c]) /\ OnItsWay(c, connections[c], Reached, Targets(queue))
    BY DEF ClientInv, SoundAll, PushInv
  <2>2. /\ c \in Reached' => c \in Reached \/ (c = job.target /\ c \in open)
        /\ c \in Reached => c \in Reached'
        /\ c \in Targets(queue') => c \in Targets(queue) /\ c # job.target
    BY <1>2, <1>3, <1>5, <1>7
  <2>3. c \in open => c \in Reached'
    BY <1>7, <1>8
  <2>4. c \in open /\ m.type = "serverWelcome" => c \notin Reached /\ ~HasEvent(connections[c].down)
    BY <1>8, <2>1 DEF OnItsWay
  <2>5. /\ c \in Reached' \cup Targets(queue') => connections[c].welcomed
        /\ c \in Targets(queue') => c \notin Reached'
        /\ c \notin Reached' => ~HasEvent(connections[c].down)
    BY <1>3, <2>1, <2>2 DEF OnItsWay
  <2>6. CASE c \in open /\ ~connections[c].broken
    <3> DEFINE d == Append(connections[c].down, m)
               conn == [connections[c] EXCEPT !.down = d]
    <3>1. connections'[c] = conn
      BY <1>2, <2>6
    <3>2. /\ conn.down = d /\ conn.welcomed = connections[c].welcomed
          /\ conn.server = connections[c].server /\ conn.broken = connections[c].broken
          /\ Fields \subseteq DOMAIN conn
      BY <2>1 DEF Sound, Fields
    <3>3. IsMail(d)
      BY <1>4, <2>1, MailChanges DEF Sound
    <3>4. WelcomeLeads(d)
      BY <2>1, <2>4, <2>6, AppendKeepsOrder DEF Sound, IsMail, OnItsWay
    <3> HIDE DEF conn, d
    <3>5. Sound(conn)
      BY <2>6, <3>2, <3>3 DEF Sound
    <3>6. OnItsWay(c, conn, Reached', Targets(queue'))
      BY <2>1, <2>3, <2>5, <2>6, <3>2, <3>4 DEF OnItsWay
    <3> QED
      BY <3>1, <3>5, <3>6
  <2>7. CASE ~(c \in open /\ ~connections[c].broken)
    <3>1. connections'[c] = connections[c]
      BY <1>2, <2>7
    <3> QED
      BY <2>1, <2>5, <3>1 DEF OnItsWay
  <2> QED
    BY <2>6, <2>7
<1>10. DOMAIN connections' = DOMAIN connections /\ IsSeq(connections')
  BY <1>2, <1>5, FunctionIsSeq
<1>11. Reached' \subseteq DOMAIN connections'
  BY <1>6, <1>7, <1>10 DEF PushInv
<1>12. QueueInv(queue', connections')
  BY <1>2, <1>3, <1>10, QueueGrows
<1>13. ClientInv'
  BY <1>2, <1>9, <1>10 DEF ClientInv, SoundAll, Attached
<1> QED
  BY <1>9, <1>10, <1>11, <1>12, <1>13 DEF PushInv

-----------------------------------------------------------------------------
(* The invariant *)

LEMMA InitPush == Init => ClientInv /\ PushInv
<1> SUFFICES ASSUME Init PROVE ClientInv /\ PushInv
  OBVIOUS
<1> DEFINE t == [InitTransport EXCEPT !.ws = 1]
           conns == <<Connection>>
<1>1. /\ transport = request(t, conns, "snapshot")[1]
      /\ connections = request(t, conns, "snapshot")[2]
      /\ queue = <<>> /\ clients = {} /\ joining = {} /\ handling = {}
  BY DEF Init, InitPushBus
<1>2. DOMAIN conns = {1} /\ conns[1] = Connection /\ IsSeq(conns)
  <2>1. conns \in Seq({Connection}) /\ Len(conns) = 1 /\ conns[1] = Connection
    OBVIOUS
  <2>2. IsSeq(conns)
    BY <2>1 DEF IsSeq
  <2> HIDE DEF conns
  <2>3. DOMAIN conns = 1..1
    BY <2>1, <2>2, SeqFacts
  <2> QED
    BY <2>1, <2>2, <2>3
<1>3. SoundAll(conns)
  BY <1>2, NewIsSound DEF SoundAll
<1>4. Attached(t, conns)
  BY <1>2 DEF Attached, InitTransport, TransportFields
<1> HIDE DEF t, conns
<1>5. /\ Grows(conns, connections) /\ DOMAIN connections = {1}
      /\ Attached(transport, connections)
  BY <1>1, <1>2, <1>3, <1>4, RequestGrows, RequestAttached DEF Attached
<1>6. ClientInv
  BY <1>1, <1>5, GrowsIsSound DEF ClientInv
<1>7. Reached = {} /\ Targets(queue) = {}
  BY <1>1, NilFacts DEF Reached, Targets
<1>8. OnItsWay(1, connections[1], {}, {})
  BY <1>2, <1>5, NewOnItsWay, MilderOnItsWay DEF Grows
<1>9. QueueInv(queue, connections)
  BY <1>1, NilFacts DEF QueueInv
<1> QED
  BY <1>5, <1>6, <1>7, <1>8, <1>9 DEF PushInv

LEMMA StepKeepsPush ==
    ASSUME ClientInv, PushInv, [Next]_vars
    PROVE  ClientInv' /\ PushInv'
<1>1. CASE QuietStep
  BY <1>1, QuietGrows, QuietKeepsPush
<1>2. CASE \E c \in DOMAIN connections : ServerClose(c)
  BY <1>2, ServerCloseKeepsPush
<1>3. CASE StreamEvent
  BY <1>3, StreamKeepsPush
<1>4. CASE PushStep
  <2>1. UNCHANGED handling
    BY <1>4 DEF PushStep
  <2>2. CASE send
    BY <2>1, <2>2, SendKeepsPush
  <2>3. CASE MarkReady
    BY <2>1, <2>3 DEF MarkReady, ClientInv, PushInv, Reached
  <2>4. CASE \E c \in DOMAIN connections : welcome(c)
    BY <2>1, <2>4, WelcomeKeepsPush DEF welcome
  <2>5. CASE \E c \in DOMAIN connections : join(c)
    BY <2>1, <2>5, JoinKeepsPush
  <2> QED
    BY <1>4, <2>2, <2>3, <2>4, <2>5 DEF PushStep
<1>5. CASE CrashServer
  BY <1>5, CrashKeepsPush
<1>6. CASE OtherCommand \/ UNCHANGED vars
  <2>1. UNCHANGED <<transport, connections, queue, clients, joining, handling>>
    BY <1>6 DEF OtherCommand, vars, pushVars
  <2> QED
    BY <2>1 DEF ClientInv, PushInv, Reached
<1> QED
  BY <1>1, <1>2, <1>3, <1>4, <1>5, <1>6 DEF Next, ServerStep, FaultStep, QuietStep

LEMMA PushGivesOrder == ClientInv /\ PushInv => WelcomeComesFirst
BY DEF ClientInv, PushInv, SoundAll, Sound, OnItsWay, HasEvent, WelcomeLeads, WelcomeComesFirst

\* Whatever breaks, times out or crashes, and however often a client reconnects: no
\* domain event is on its way to a client whose welcome was not sent before it
\* (wsServer.ts, "Send welcome before adding to broadcast set ...").
THEOREM WelcomeComesFirstHolds == Spec => []WelcomeComesFirst
<1>1. ClientInv /\ PushInv /\ [Next]_vars => (ClientInv /\ PushInv)'
  BY StepKeepsPush
<1> QED
  BY InitPush, <1>1, PushGivesOrder, PTL DEF Spec

-----------------------------------------------------------------------------
(* Where a request is *)

Ran(id, lg) == \E i \in DOMAIN lg : lg[i] = id

Waits(id, queued, conns) == id \in queued \/ \E c \in DOMAIN conns : id \in conns[c].up

Responses(d) == {d[i] : i \in {j \in DOMAIN d : d[j].type = "response"}}

\* The answers that are under way to the client.
Answers(conns) == UNION {Responses(conns[c].down) : c \in DOMAIN conns}

AreRequests(reqs) ==
    /\ IsSeq(reqs)
    /\ \A id \in DOMAIN reqs : {"kind", "state"} \subseteq DOMAIN reqs[id]

IsCommand(id, reqs) == reqs[id].kind = "dispatch"

WaitsOnce(queued, conns) ==
    \A c \in DOMAIN conns :
        /\ conns[c].up \cap queued = {}
        /\ \A d \in DOMAIN conns : d # c => conns[c].up \cap conns[d].up = {}

WaitingDidNotRun(reqs, queued, conns, lg) ==
    \A id : Waits(id, queued, conns) =>
        id \in DOMAIN reqs /\ (IsCommand(id, reqs) => ~Ran(id, lg))

RanOnce(reqs, lg) ==
    /\ IsSeq(lg)
    /\ \A i \in DOMAIN lg : lg[i] = 0 \/ lg[i] \in DOMAIN reqs
    /\ \A i, j \in DOMAIN lg : lg[i] = lg[j] /\ lg[i] # 0 => i = j

\* ms are answers, sent or not.
AnsweredRan(reqs, ms, lg) ==
    \A m \in ms : m.id \in DOMAIN reqs /\ (IsCommand(m.id, reqs) => Ran(m.id, lg))

StatesAreTrue(reqs, queued, conns, lg) ==
    \A id \in DOMAIN reqs : IsCommand(id, reqs) =>
        /\ reqs[id].state = "resolved" => Ran(id, lg)
        /\ reqs[id].state = "unsent" => ~Ran(id, lg) /\ ~Waits(id, queued, conns)

Once(reqs, queued, conns, lg, handled) ==
    /\ AreRequests(reqs)
    /\ WaitsOnce(queued, conns)
    /\ WaitingDidNotRun(reqs, queued, conns, lg)
    /\ RanOnce(reqs, lg)
    /\ AnsweredRan(reqs, handled \cup Answers(conns), lg)
    /\ StatesAreTrue(reqs, queued, conns, lg)

\* With the client in state t.
OnceFor(t, conns, lg, handled) ==
    /\ IsSeq(t.outboundQueue)
    /\ Once(t.requests, ToSet(t.outboundQueue), conns, lg, handled)

OnceInv == OnceFor(transport, connections, log, handling)

-----------------------------------------------------------------------------
(* Connections that carry no more than before *)

\* conn carries at most the requests in up and the responses in answers.
Carries(conn, up, answers) == conn.up \subseteq up /\ Responses(conn.down) \subseteq answers

LEMMA ResponsesOfTail ==
    ASSUME NEW d, IsSeq(d), d # <<>>
    PROVE  Responses(Tail(d)) \subseteq Responses(d)
BY TailFacts DEF Responses

LEMMA ResponsesOfAppend ==
    ASSUME NEW d, IsSeq(d), NEW m
    PROVE  Responses(Append(d, m)) \subseteq
              Responses(d) \cup (IF m.type = "response" THEN {m} ELSE {})
BY AppendFacts DEF Responses

LEMMA ResponsesOfNothing == Responses(<<>>) = {}
BY NilFacts DEF Responses

LEMMA NewCarriesNothing == Carries(Connection, {}, {})
BY ResponsesOfNothing DEF Carries, Connection

LEMMA LessOnce ==
    ASSUME NEW reqs, NEW queued, NEW conns, NEW lg, NEW handled,
           Once(reqs, queued, conns, lg, handled), NEW more,
           \A c \in DOMAIN more :
              IF c \in DOMAIN conns
                THEN Carries(more[c], conns[c].up, Responses(conns[c].down) \cup handled)
                ELSE Carries(more[c], {}, {})
    PROVE  Once(reqs, queued, more, lg, handled)
<1>1. \A id : Waits(id, queued, more) => Waits(id, queued, conns)
  BY DEF Waits, Carries
<1>2. WaitsOnce(queued, more)
  BY DEF Once, WaitsOnce, Carries
<1>3. Answers(more) \subseteq Answers(conns) \cup handled
  BY DEF Answers, Carries
<1> QED
  BY <1>1, <1>2, <1>3 DEF Once, WaitingDidNotRun, AnsweredRan, StatesAreTrue

\* Fewer of the answers not sent yet.
LEMMA HandledOnce ==
    ASSUME NEW reqs, NEW queued, NEW conns, NEW lg, NEW handled,
           Once(reqs, queued, conns, lg, handled), NEW fewer, fewer \subseteq handled
    PROVE  Once(reqs, queued, conns, lg, fewer)
BY DEF Once, AnsweredRan

-----------------------------------------------------------------------------
(* Requests *)

LEMMA RequestOnce ==
    ASSUME NEW t, NEW conns, NEW lg, NEW handled, OnceFor(t, conns, lg, handled),
           SoundAll(conns), Attached(t, conns), NEW kind
    PROVE  OnceFor(request(t, conns, kind)[1], request(t, conns, kind)[2], lg, handled)
<1> DEFINE id == Len(t.requests) + 1
           r == [kind |-> kind, state |-> "waiting"]
           reqs == Append(t.requests, r)
           t1 == [t EXCEPT !.requests = reqs]
           q == ToSet(t.outboundQueue)
<1>1. /\ IsSeq(reqs) /\ DOMAIN reqs = DOMAIN t.requests \cup {id}
      /\ \A i \in DOMAIN t.requests : reqs[i] = t.requests[i]
      /\ reqs[id] = r
  BY AppendFacts DEF OnceFor, Once, AreRequests
<1>2. id \notin DOMAIN t.requests /\ id # 0
  BY SeqFacts DEF OnceFor, Once, AreRequests
<1>3. t1.requests = reqs /\ t1.outboundQueue = t.outboundQueue /\ t1.ws = t.ws
      /\ TransportFields \subseteq DOMAIN t1
  BY DEF Attached, TransportFields
<1>4. r.kind = kind /\ r.state = "waiting" /\ {"kind", "state"} \subseteq DOMAIN r
  OBVIOUS
<1> HIDE DEF r, reqs, id
<1>5. ~Waits(id, q, conns) /\ ~Ran(id, lg)
  BY <1>2 DEF OnceFor, Once, WaitingDidNotRun, RanOnce, Ran
<1>6. Once(reqs, q, conns, lg, handled)
  <2>1. AreRequests(reqs)
    BY <1>1, <1>4 DEF OnceFor, Once, AreRequests
  <2>2. WaitingDidNotRun(reqs, q, conns, lg)
    BY <1>1 DEF OnceFor, Once, WaitingDidNotRun, IsCommand
  <2>3. RanOnce(reqs, lg)
    BY <1>1 DEF OnceFor, Once, RanOnce
  <2>4. AnsweredRan(reqs, handled \cup Answers(conns), lg)
    BY <1>1 DEF OnceFor, Once, AnsweredRan, IsCommand
  <2>5. StatesAreTrue(reqs, q, conns, lg)
    BY <1>1, <1>4 DEF OnceFor, Once, StatesAreTrue, IsCommand
  <2> QED
    BY <2>1, <2>2, <2>3, <2>4, <2>5 DEF OnceFor, Once
<1>7. CASE IsOpen(t, conns)
  <2> DEFINE ups == SendUp(conns, t.ws, {id})
  <2>1. request(t, conns, kind)[1] = t1 /\ request(t, conns, kind)[2] = ups
    BY <1>7 DEF request, id, reqs, r
  <2>2. t.ws \in DOMAIN conns
    BY <1>7 DEF IsOpen, Attached
  <2>3. /\ DOMAIN ups = DOMAIN conns
        /\ \A c \in DOMAIN conns : ups[c].down = conns[c].down
              /\ ups[c].up = (IF c = t.ws /\ ~conns[c].broken THEN conns[c].up \cup {id}
                                                             ELSE conns[c].up)
    BY <2>2 DEF SendUp, SoundAll, Sound, Fields
  <2> HIDE DEF ups
  <2>4. WaitsOnce(q, ups)
    <3>1. WaitsOnce(q, conns) /\ id \notin q /\ \A c \in DOMAIN conns : id \notin conns[c].up
      BY <1>5, <1>6 DEF Once, Waits
    <3>2. ASSUME NEW c \in DOMAIN conns PROVE ups[c].up \cap q = {}
      BY <2>3, <3>1 DEF WaitsOnce
    <3>3. ASSUME NEW c \in DOMAIN conns, NEW d \in DOMAIN conns, d # c
          PROVE  ups[c].up \cap ups[d].up = {}
      <4>1. conns[c].up \cap conns[d].up = {}
        BY <3>1, <3>3 DEF WaitsOnce
      <4> QED
        BY <2>3, <3>1, <3>3, <4>1
    <3> QED
      BY <2>3, <3>2, <3>3 DEF WaitsOnce
  <2>5. \A i : Waits(i, q, ups) => Waits(i, q, conns) \/ i = id
    BY <2>3 DEF Waits
  <2>6. Answers(ups) = Answers(conns)
    BY <2>3 DEF Answers
  <2>7. WaitingDidNotRun(reqs, q, ups, lg)
    BY <1>1, <1>5, <1>6, <2>5 DEF Once, WaitingDidNotRun
  <2>8. StatesAreTrue(reqs, q, ups, lg)
    BY <1>1, <1>4, <1>6, <2>5 DEF Once, StatesAreTrue
  <2>9. Once(reqs, q, ups, lg, handled)
    BY <1>6, <2>4, <2>6, <2>7, <2>8 DEF Once
  <2> QED
    BY <1>3, <2>1, <2>9 DEF OnceFor
<1>8. CASE ~IsOpen(t, conns)
  <2> DEFINE more == Append(t.outboundQueue, id)
             t2 == [t1 EXCEPT !.outboundQueue = more]
  <2>1. request(t, conns, kind)[1] = t2 /\ request(t, conns, kind)[2] = conns
    <3>1. request(t, conns, kind) = <<[t1 EXCEPT !.outboundQueue = Append(@, id)], conns>>
      BY <1>8 DEF request, id, reqs, r
    <3> HIDE DEF t1
    <3>2. [t1 EXCEPT !.outboundQueue = Append(@, id)] = t2
      BY <1>3
    <3> HIDE DEF t2
    <3> QED
      BY <3>1, <3>2
  <2>2. IsSeq(more) /\ ToSet(more) = q \cup {id}
    BY AppendFacts DEF OnceFor, ToSet
  <2>3. t2.requests = reqs /\ t2.outboundQueue = more
    BY <1>3 DEF TransportFields
  <2>4. \A i : Waits(i, q \cup {id}, conns) => Waits(i, q, conns) \/ i = id
    BY DEF Waits
  <2>5. WaitsOnce(q \cup {id}, conns)
    BY <1>5, <1>6 DEF Once, WaitsOnce, Waits
  <2>6. WaitingDidNotRun(reqs, q \cup {id}, conns, lg)
    BY <1>1, <1>5, <1>6, <2>4 DEF Once, WaitingDidNotRun
  <2>7. StatesAreTrue(reqs, q \cup {id}, conns, lg)
    BY <1>1, <1>4, <1>6, <2>4 DEF Once, StatesAreTrue
  <2>8. Once(reqs, q \cup {id}, conns, lg, handled)
    BY <1>6, <2>5, <2>6, <2>7 DEF Once
  <2> HIDE DEF more, t2
  <2> QED
    BY <2>1, <2>2, <2>3, <2>8 DEF OnceFor
<1> QED
  BY <1>7, <1>8

-----------------------------------------------------------------------------
(* What becomes of requests *)

\* reqs with the state of those in ids changed to state; snapshot requests apart.
Settled(reqs, more, ids, state) ==
    /\ IsSeq(more) /\ DOMAIN more = DOMAIN reqs
    /\ \A id \in DOMAIN reqs :
          /\ {"kind", "state"} \subseteq DOMAIN more[id]
          /\ more[id].kind = reqs[id].kind
          /\ IsCommand(id, reqs) =>
                more[id].state = IF id \in ids THEN state ELSE reqs[id].state

LEMMA SettleFacts ==
    ASSUME NEW t, AreRequests(t.requests), TransportFields \subseteq DOMAIN t, NEW ids, NEW state
    PROVE  /\ Settled(t.requests, Settle(t, ids, state).requests, ids, state)
           /\ Settle(t, ids, state).outboundQueue = t.outboundQueue
           /\ TransportFields \subseteq DOMAIN Settle(t, ids, state)
<1> DEFINE new(id) == IF t.requests[id].kind = "snapshot" THEN "settled" ELSE state
           f == [id \in DOMAIN t.requests |-> IF id \notin ids THEN t.requests[id]
                                             ELSE [t.requests[id] EXCEPT !.state = new(id)]]
<1>1. Settle(t, ids, state).requests = f
      /\ Settle(t, ids, state).outboundQueue = t.outboundQueue
      /\ TransportFields \subseteq DOMAIN Settle(t, ids, state)
  BY DEF Settle, TransportFields
<1>2. /\ DOMAIN t.requests = 1..Len(t.requests) /\ Len(t.requests) \in Nat
  BY SeqFacts DEF AreRequests
<1>3. IsSeq(f)
  BY <1>2, FunctionIsSeq
<1>4. ASSUME NEW id \in DOMAIN t.requests
      PROVE  /\ {"kind", "state"} \subseteq DOMAIN f[id]
             /\ f[id].kind = t.requests[id].kind
             /\ IsCommand(id, t.requests) =>
                   f[id].state = IF id \in ids THEN state ELSE t.requests[id].state
  BY DEF AreRequests, IsCommand
<1> HIDE DEF f
<1>5. DOMAIN f = DOMAIN t.requests
  BY DEF f
<1> QED
  BY <1>1, <1>3, <1>4, <1>5 DEF Settled

\* Success is told of what ran, and unsent of what did not and waits nowhere.
LEMMA SettledOnce ==
    ASSUME NEW reqs, NEW queued, NEW conns, NEW lg, NEW handled,
           Once(reqs, queued, conns, lg, handled), NEW ids, NEW state, NEW more,
           Settled(reqs, more, ids, state),
           \A id \in ids : id \in DOMAIN reqs /\ IsCommand(id, reqs) =>
              /\ state = "resolved" => Ran(id, lg)
              /\ state = "unsent" => ~Ran(id, lg) /\ ~Waits(id, queued, conns)
    PROVE  Once(more, queued, conns, lg, handled)
<1>1. AreRequests(more) /\ DOMAIN more = DOMAIN reqs
      /\ \A id \in DOMAIN reqs : IsCommand(id, more) <=> IsCommand(id, reqs)
  BY DEF Settled, AreRequests, IsCommand
<1>2. StatesAreTrue(more, queued, conns, lg)
  <2>1. ASSUME NEW id \in DOMAIN more, IsCommand(id, more)
        PROVE  /\ more[id].state = "resolved" => Ran(id, lg)
               /\ more[id].state = "unsent" => ~Ran(id, lg) /\ ~Waits(id, queued, conns)
    <3>1. CASE id \in ids
      BY <1>1, <2>1, <3>1 DEF Settled
    <3>2. CASE id \notin ids
      BY <1>1, <2>1, <3>2 DEF Settled, Once, StatesAreTrue
    <3> QED
      BY <3>1, <3>2
  <2> QED
    BY <2>1 DEF StatesAreTrue
<1> QED
  BY <1>1, <1>2 DEF Once, WaitingDidNotRun, RanOnce, AnsweredRan

LEMMA SettleOnce ==
    ASSUME NEW t, NEW conns, NEW lg, NEW handled, OnceFor(t, conns, lg, handled),
           TransportFields \subseteq DOMAIN t, NEW ids, NEW state, state # "unsent",
           state = "resolved" =>
              \A id \in ids : id \in DOMAIN t.requests /\ IsCommand(id, t.requests) => Ran(id, lg)
    PROVE  OnceFor(Settle(t, ids, state), conns, lg, handled)
<1> DEFINE s == Settle(t, ids, state)
<1>1. Settled(t.requests, s.requests, ids, state) /\ s.outboundQueue = t.outboundQueue
  BY SettleFacts DEF OnceFor, Once
<1> HIDE DEF s
<1>2. Once(s.requests, ToSet(t.outboundQueue), conns, lg, handled)
  BY <1>1, SettledOnce DEF OnceFor
<1> QED
  BY <1>1, <1>2 DEF OnceFor, s

\* What was queued when the connection closed will not be sent.
LEMMA CloseOnce ==
    ASSUME NEW t, NEW conns, NEW lg, NEW handled, OnceFor(t, conns, lg, handled),
           TransportFields \subseteq DOMAIN t
    PROVE  OnceFor(handleClose(t), conns, lg, handled)
<1> DEFINE q == ToSet(t.outboundQueue)
           unsent == q \cap pending(t)
           t1 == Settle(t, pending(t), "closed")
           t2 == Settle(t1, unsent, "unsent")
<1>1. OnceFor(t1, conns, lg, handled) /\ TransportFields \subseteq DOMAIN t1
      /\ t1.outboundQueue = t.outboundQueue
  BY SettleOnce, SettleFacts DEF OnceFor, Once
<1>2. handleClose(t) = [t2 EXCEPT !.ws = 0, !.outboundQueue = <<>>, !.reconnectTimer = TRUE]
  BY DEF handleClose
<1>3. \A id \in unsent : id \in q
  OBVIOUS
<1> HIDE DEF t1, unsent
<1>4. /\ Settled(t1.requests, t2.requests, unsent, "unsent")
      /\ TransportFields \subseteq DOMAIN t2
  BY <1>1, SettleFacts DEF OnceFor, Once
<1> HIDE DEF t2
<1>5. Once(t1.requests, q, conns, lg, handled)
  BY <1>1 DEF OnceFor
<1> HIDE DEF q
<1>6. Once(t1.requests, {}, conns, lg, handled)
  <2>1. \A id : Waits(id, {}, conns) => Waits(id, q, conns)
    BY DEF Waits
  <2> QED
    BY <1>5, <2>1 DEF Once, WaitsOnce, WaitingDidNotRun, StatesAreTrue
<1>7. ASSUME NEW id \in unsent, id \in DOMAIN t1.requests, IsCommand(id, t1.requests)
      PROVE  ~Ran(id, lg) /\ ~Waits(id, {}, conns)
  BY <1>3, <1>5, <1>7 DEF Once, WaitsOnce, WaitingDidNotRun, Waits
<1>8. Once(t2.requests, {}, conns, lg, handled)
  BY <1>4, <1>6, <1>7, SettledOnce
<1>9. handleClose(t).outboundQueue = <<>> /\ handleClose(t).requests = t2.requests
  BY <1>2, <1>4 DEF TransportFields
<1>10. ToSet(<<>>) = {} /\ IsSeq(<<>>)
  BY NilFacts DEF ToSet
<1> QED
  BY <1>8, <1>9, <1>10 DEF OnceFor

-----------------------------------------------------------------------------
(* The client *)

\* Whatever the refresh runner decides ends the step with a request or without.
LEMMA RunnerEnds ==
    ASSUME NEW t, NEW conns, NEW u,
           Refresh(t, conns, u) \/ RunnerGoesOn(t, conns, u) \/ RefreshFails(t, conns, u)
    PROVE  \E v, asks : Ends(t, conns, v, asks)
<1>1. ASSUME NEW v, RunnerGoesOn(t, conns, v) PROVE \E w, asks : Ends(t, conns, w, asks)
  <2>1. \/ Ends(t, conns, [v EXCEPT !.pendingReason = FALSE], TRUE)
        \/ Ends(t, conns, [v EXCEPT !.subscribed = TRUE, !.running = t.latestWelcome],
                t.latestWelcome)
        \/ Ends(t, conns, [v EXCEPT !.running = FALSE], FALSE)
    BY <1>1 DEF RunnerGoesOn
  <2> QED
    BY <2>1
<1>2. CASE Refresh(t, conns, u)
  <2>1. \/ Ends(t, conns, [u EXCEPT !.pendingReason = TRUE], FALSE)
        \/ Ends(t, conns, [u EXCEPT !.running = TRUE], TRUE)
        \/ Ends(t, conns, u, FALSE)
    BY <1>2 DEF Refresh
  <2> QED
    BY <2>1
<1>3. CASE RefreshFails(t, conns, u)
  BY <1>1, <1>3 DEF RefreshFails
<1> QED
  BY <1>1, <1>2, <1>3

\* A step of the client that made t of the transport and conns of the connections
\* before the refresh runner went on.
LEMMA EndsOnce ==
    ASSUME NEW t, NEW conns, OnceFor(t, conns, log, handling), SoundAll(conns),
           Attached(t, conns), UNCHANGED <<log, handling>>,
           \/ \E u, asks : Ends(t, conns, u, asks)
           \/ \E u : Refresh(t, conns, u) \/ RunnerGoesOn(t, conns, u) \/ RefreshFails(t, conns, u)
           \/ Rejected(t, conns)
    PROVE  OnceInv'
<1>1. \E u, asks : Ends(t, conns, u, asks)
  BY RunnerEnds DEF Rejected
<1>2. PICK u : \E asks : Ends(t, conns, u, asks)
  BY <1>1
<1>3. PICK asks : Ends(t, conns, u, asks)
  BY <1>2
<1>4. CASE asks
  <2>1. /\ transport' = request(t, conns, "snapshot")[1]
        /\ connections' = request(t, conns, "snapshot")[2]
    BY <1>3, <1>4 DEF Ends
  <2>2. OnceFor(transport', connections', log, handling)
    BY <2>1, RequestOnce
  <2> QED
    BY <2>2 DEF OnceInv
<1>5. CASE ~asks
  <2>1. transport' = t /\ connections' = conns
    BY <1>3, <1>5 DEF Ends
  <2> QED
    BY <2>1 DEF OnceInv
<1> QED
  BY <1>4, <1>5

\* A step changed one connection, which carries no more than before.
LEMMA UpdateOnce ==
    ASSUME NEW t, NEW conns, NEW lg, NEW handled, OnceFor(t, conns, lg, handled),
           NEW c \in DOMAIN conns, NEW e,
           Carries(e, conns[c].up, Responses(conns[c].down) \cup handled)
    PROVE  OnceFor(t, [conns EXCEPT ![c] = e], lg, handled)
<1> DEFINE more == [conns EXCEPT ![c] = e]
<1>1. \A k \in DOMAIN more : k \in DOMAIN conns
         /\ Carries(more[k], conns[k].up, Responses(conns[k].down) \cup handled)
  BY DEF Carries
<1> HIDE DEF more
<1>2. Once(t.requests, ToSet(t.outboundQueue), more, lg, handled)
  BY <1>1, LessOnce DEF OnceFor
<1> QED
  BY <1>2 DEF OnceFor, more

-----------------------------------------------------------------------------
(* Runs and answers *)

\* A command runs, or one of others.
LEMMA RunOnce ==
    ASSUME NEW reqs, NEW queued, NEW conns, NEW lg, NEW handled,
           Once(reqs, queued, conns, lg, handled), NEW id,
           id # 0 => /\ id \in DOMAIN reqs /\ reqs[id].state # "unsent"
                     /\ ~Ran(id, lg) /\ ~Waits(id, queued, conns)
    PROVE  /\ Once(reqs, queued, conns, Append(lg, id), handled)
           /\ Ran(id, Append(lg, id))
<1> DEFINE more == Append(lg, id)
<1>1. /\ IsSeq(more) /\ DOMAIN more = DOMAIN lg \cup {Len(lg) + 1}
      /\ \A i \in DOMAIN lg : more[i] = lg[i]
      /\ more[Len(lg) + 1] = id
  BY AppendFacts DEF Once, RanOnce
<1> HIDE DEF more
<1>2. /\ \A i : Ran(i, lg) => Ran(i, more)
      /\ \A i : Ran(i, more) => Ran(i, lg) \/ i = id
      /\ Ran(id, more)
  BY <1>1 DEF Ran
<1>3. \A i \in DOMAIN reqs : i # 0
  BY SeqFacts DEF Once, AreRequests
<1>4. RanOnce(reqs, more)
  <2>1. \A i, j \in DOMAIN more : more[i] = more[j] /\ more[i] # 0 => i = j
    BY <1>1 DEF Once, RanOnce, Ran
  <2> QED
    BY <1>1, <2>1 DEF Once, RanOnce
<1>5. WaitingDidNotRun(reqs, queued, conns, more)
  BY <1>2, <1>3 DEF Once, WaitingDidNotRun
<1>6. AnsweredRan(reqs, handled \cup Answers(conns), more)
  BY <1>2 DEF Once, AnsweredRan
<1>7. StatesAreTrue(reqs, queued, conns, more)
  BY <1>2, <1>3 DEF Once, StatesAreTrue
<1> QED
  BY <1>2, <1>4, <1>5, <1>6, <1>7 DEF Once, more

\* Something answers a request that is no command, or a command that ran.
LEMMA AnswerOnce ==
    ASSUME NEW reqs, NEW queued, NEW conns, NEW lg, NEW handled,
           Once(reqs, queued, conns, lg, handled), NEW m, m.id \in DOMAIN reqs,
           IsCommand(m.id, reqs) => Ran(m.id, lg)
    PROVE  Once(reqs, queued, conns, lg, handled \cup {m})
BY DEF Once, AnsweredRan

LEMMA UpdateIsSound ==
    ASSUME NEW conns, SoundAll(conns), NEW c \in DOMAIN conns, NEW e, Milder(conns[c], e)
    PROVE  /\ SoundAll([conns EXCEPT ![c] = e])
           /\ DOMAIN [conns EXCEPT ![c] = e] = DOMAIN conns
<1> DEFINE more == [conns EXCEPT ![c] = e]
<1>1. Grows(conns, more) /\ DOMAIN more = DOMAIN conns
  BY UpdateGrows
<1> HIDE DEF more
<1>2. SoundAll(more)
  BY <1>1, GrowsIsSound
<1> QED
  BY <1>1, <1>2 DEF more

-----------------------------------------------------------------------------
(* Steps of the client *)

LEMMA ConnectOnce ==
    ASSUME ClientInv, OnceInv, Connect
    PROVE  OnceInv'
<1>1. /\ connections' = Append(connections, Connection)
      /\ transport' = [transport EXCEPT !.reconnectTimer = FALSE, !.ws = Len(connections) + 1]
      /\ UNCHANGED <<log, handling>>
  BY DEF Connect, connect, server
<1>2. /\ DOMAIN connections' = DOMAIN connections \cup {Len(connections) + 1}
      /\ \A c \in DOMAIN connections : connections'[c] = connections[c]
      /\ connections'[Len(connections) + 1] = Connection
  BY <1>1, AppendFacts DEF ClientInv, SoundAll
<1>3. transport'.requests = transport.requests /\ transport'.outboundQueue = transport.outboundQueue
  BY <1>1 DEF ClientInv, Attached, TransportFields
<1>4. \A c \in DOMAIN connections' :
         IF c \in DOMAIN connections
           THEN Carries(connections'[c], connections[c].up,
                        Responses(connections[c].down) \cup handling)
           ELSE Carries(connections'[c], {}, {})
  BY <1>2, NewCarriesNothing DEF Carries
<1>5. Once(transport.requests, ToSet(transport.outboundQueue), connections', log, handling)
  BY <1>4, LessOnce DEF OnceInv, OnceFor
<1> QED
  BY <1>1, <1>3, <1>5 DEF OnceInv, OnceFor

LEMMA ClientCloseOnce ==
    ASSUME ClientInv, OnceInv, NEW c \in DOMAIN connections, ClientClose(c)
    PROVE  OnceInv'
<1> DEFINE conn == [connections[c] EXCEPT !.client = "closed"]
           conns == [connections EXCEPT ![c] = conn]
<1>1. Rejected(handleClose(transport), conns) /\ UNCHANGED <<log, handling>>
  BY DEF ClientClose, server
<1>2. Milder(connections[c], conn) /\ conn.up = connections[c].up /\ conn.down = connections[c].down
  BY OtherFieldsMilder DEF ClientInv, SoundAll, Sound, Fields
<1> HIDE DEF conn
<1>3. SoundAll(conns) /\ DOMAIN conns = DOMAIN connections
  BY <1>2, UpdateIsSound DEF ClientInv
<1>4. OnceFor(transport, conns, log, handling)
  BY <1>2, UpdateOnce DEF OnceInv, Carries
<1>5. Attached(handleClose(transport), connections)
  BY CloseAttached DEF ClientInv
<1> HIDE DEF conns
<1>6. OnceFor(handleClose(transport), conns, log, handling)
  BY <1>4, CloseOnce DEF ClientInv, Attached
<1>7. Attached(handleClose(transport), conns)
  BY <1>3, <1>5 DEF Attached
<1> QED
  BY <1>1, <1>3, <1>6, <1>7, EndsOnce

LEMMA TimeOutOnce ==
    ASSUME ClientInv, OnceInv, NEW id, RequestTimesOut(id)
    PROVE  OnceInv'
<1>1. Rejected(TimeOut(transport, id), connections) /\ UNCHANGED <<log, handling>>
  BY DEF RequestTimesOut, server
<1>2. Attached(TimeOut(transport, id), connections)
  BY SettleAttached DEF ClientInv, TimeOut
<1>3. OnceFor(TimeOut(transport, id), connections, log, handling)
  BY SettleOnce DEF ClientInv, Attached, OnceInv, TimeOut
<1> QED
  BY <1>1, <1>2, <1>3, EndsOnce DEF ClientInv

LEMMA ReceiveOnce ==
    ASSUME ClientInv, OnceInv, NEW c \in DOMAIN connections, Receive(c)
    PROVE  OnceInv'
<1> DEFINE m == Head(connections[c].down)
           down == Tail(connections[c].down)
           conn == [connections[c] EXCEPT !.down = down]
           conns == [connections EXCEPT ![c] = conn]
           t == SettleResponse(transport, m)
           welcomed == [transport EXCEPT !.latestWelcome = TRUE]
<1>1. connections[c].down # <<>> /\ UNCHANGED <<log, handling>>
  BY DEF Receive, server
<1>2. Sound(connections[c]) /\ IsSeq(connections[c].down)
  BY DEF ClientInv, SoundAll, Sound, IsMail
<1>3. conn.up = connections[c].up /\ conn.down = down
  BY <1>2 DEF Sound, Fields
<1>4. Milder(connections[c], conn)
  <2>1. IsMail(down) /\ ~connections[c].broken
    BY <1>1, <1>2, MailChanges DEF Sound
  <2>2. /\ HasEvent(down) => HasEvent(connections[c].down)
        /\ WelcomeLeads(connections[c].down) => WelcomeLeads(down)
    BY <1>1, <1>2, TailKeepsOrder
  <2> QED
    BY <1>2, <2>1, <2>2, DownFieldMilder
<1>5. Responses(down) \subseteq Responses(connections[c].down)
  BY <1>1, <1>2, ResponsesOfTail
<1>6. Carries(conn, connections[c].up, Responses(connections[c].down) \cup handling)
  BY <1>3, <1>5 DEF Carries
<1> HIDE DEF conn, down
<1>7. SoundAll(conns) /\ DOMAIN conns = DOMAIN connections
  BY <1>4, UpdateIsSound DEF ClientInv
<1>8. OnceFor(transport, conns, log, handling)
  BY <1>6, UpdateOnce DEF OnceInv
<1>9. m.type = "response" => m \in Answers(connections)
  BY <1>1, <1>2, TailFacts DEF Answers, Responses
<1>10. conns = [connections EXCEPT ![c].down = Tail(@)]
  BY DEF conn, down
<1>11. /\ Attached(transport, conns) /\ Attached(t, conns) /\ Attached(welcomed, conns)
  <2>1. Attached(transport, conns)
    BY <1>7 DEF ClientInv, Attached
  <2> QED
    BY <2>1, SettleAttached DEF SettleResponse, Attached, TransportFields
<1>12. welcomed.requests = transport.requests /\ welcomed.outboundQueue = transport.outboundQueue
  BY DEF ClientInv, Attached, TransportFields
<1>13. m.type \in MessageTypes
  BY <1>1, <1>2, MailChanges DEF Sound
<1>14. CASE m.type = "serverWelcome"
  <2>1. Refresh(welcomed, conns, ui) \/ Ends(welcomed, conns, ui, FALSE)
    BY <1>10, <1>14 DEF Receive
  <2>2. OnceFor(welcomed, conns, log, handling)
    BY <1>8, <1>12 DEF OnceFor
  <2> HIDE DEF conns, welcomed
  <2> QED
    BY <1>1, <1>7, <1>11, <2>1, <2>2, EndsOnce
<1>15. CASE m.type = "domainEvent"
  <2>1. Refresh(transport, conns, ui) \/ Ends(transport, conns, ui, FALSE)
    BY <1>10, <1>15 DEF Receive
  <2> HIDE DEF conns
  <2> QED
    BY <1>1, <1>7, <1>8, <1>11, <2>1, EndsOnce
<1>16. CASE m.type = "response"
  <2>1. OnceFor(t, conns, log, handling)
    <3>1. m.id \in DOMAIN transport.requests
          /\ (IsCommand(m.id, transport.requests) => Ran(m.id, log))
      BY <1>9, <1>16 DEF OnceInv, OnceFor, Once, AnsweredRan
    <3>2. TransportFields \subseteq DOMAIN transport
      BY DEF ClientInv, Attached
    <3> DEFINE state == IF m.ok THEN "resolved" ELSE "rejected"
    <3>3. state # "unsent" /\ t = Settle(transport, {m.id}, state)
      BY DEF SettleResponse
    <3> HIDE DEF conns, m, state, t
    <3>4. OnceFor(Settle(transport, {m.id}, state), conns, log, handling)
      BY <1>8, <3>1, <3>2, <3>3, SettleOnce
    <3> QED
      BY <3>3, <3>4
  <2>2. \/ Ends(transport, conns, ui, FALSE)
        \/ \E u : RunnerGoesOn(t, conns, u)
        \/ Ends(t, conns, IF m.ok THEN [ui EXCEPT !.snapshot = m.result]
                     ELSE [ui EXCEPT !.refreshTimer = TRUE], FALSE)
        \/ Ends(t, conns, ui, FALSE)
    BY <1>10, <1>16 DEF Receive
  <2> HIDE DEF conns, t
  <2> QED
    BY <1>1, <1>7, <1>8, <1>11, <2>1, <2>2, EndsOnce
<1> QED
  BY <1>13, <1>14, <1>15, <1>16 DEF MessageTypes

LEMMA UserOnce ==
    ASSUME ClientInv, OnceInv, Retry \/ Dispatch
    PROVE  OnceInv'
<1>1. CASE Retry
  <2>1. Refresh(transport, connections, [ui EXCEPT !.refreshTimer = FALSE])
        /\ UNCHANGED <<log, handling>>
    BY <1>1 DEF Retry, server
  <2> QED
    BY <2>1, EndsOnce DEF ClientInv, OnceInv
<1>2. CASE Dispatch
  <2>1. /\ transport' = request(transport, connections, "dispatch")[1]
        /\ connections' = request(transport, connections, "dispatch")[2]
        /\ UNCHANGED <<log, handling>>
    BY <1>2 DEF Dispatch, server
  <2>2. OnceFor(transport', connections', log, handling)
    BY <2>1, RequestOnce DEF ClientInv, OnceInv
  <2> QED
    BY <2>1, <2>2 DEF OnceInv
<1> QED
  BY <1>1, <1>2

-----------------------------------------------------------------------------
(* Steps of the server *)

\* The connection opens, and takes with it all that was queued.
LEMMA OpenOnce ==
    ASSUME ClientInv, OnceInv, NEW c \in DOMAIN connections, Open(c)
    PROVE  OnceInv'
<1> DEFINE conns == [connections EXCEPT ![c].client = "open", ![c].server = "open"]
           q == ToSet(transport.outboundQueue)
<1>1. /\ connections' = SendUp(conns, c, q)
      /\ transport' = [transport EXCEPT !.outboundQueue = <<>>]
      /\ ~connections[c].broken /\ UNCHANGED <<log, handling>>
  BY DEF Open, CanOpen, handleOpen, server
<1>2. /\ DOMAIN connections' = DOMAIN connections
      /\ \A k \in DOMAIN connections : /\ connections'[k].down = connections[k].down
            /\ connections'[k].up = (IF k = c THEN connections[k].up \cup q ELSE connections[k].up)
  BY <1>1 DEF SendUp, ClientInv, SoundAll, Sound, Fields
<1>3. /\ transport'.requests = transport.requests
      /\ IsSeq(transport'.outboundQueue) /\ ToSet(transport'.outboundQueue) = {}
  BY <1>1, NilFacts DEF ClientInv, Attached, TransportFields, ToSet
<1> HIDE DEF q
<1>4. Once(transport.requests, q, connections, log, handling)
  BY DEF OnceInv, OnceFor, q
<1>5. \A id : Waits(id, {}, connections') => Waits(id, q, connections)
  BY <1>2 DEF Waits
<1>6. Answers(connections') = Answers(connections)
  BY <1>2 DEF Answers
<1>7. WaitsOnce({}, connections')
  <2>1. ASSUME NEW k \in DOMAIN connections, NEW d \in DOMAIN connections, d # k
        PROVE  connections'[k].up \cap connections'[d].up = {}
    <3>1. /\ connections[k].up \cap connections[d].up = {}
          /\ connections[k].up \cap q = {} /\ connections[d].up \cap q = {}
      BY <1>4, <2>1 DEF Once, WaitsOnce
    <3> QED
      BY <1>2, <2>1, <3>1
  <2> QED
    BY <1>2, <2>1 DEF WaitsOnce
<1>8. Once(transport.requests, {}, connections', log, handling)
  BY <1>4, <1>5, <1>6, <1>7 DEF Once, WaitingDidNotRun, StatesAreTrue
<1> QED
  BY <1>1, <1>3, <1>8 DEF OnceInv, OnceFor

\* A request is executed where it waited, and nowhere else.
LEMMA RouteOnce ==
    ASSUME ClientInv, OnceInv, NEW c \in DOMAIN connections, NEW id, RouteRequest(c, id)
    PROVE  OnceInv'
<1> DEFINE rest == connections[c].up \ {id}
           conn == [connections[c] EXCEPT !.up = rest]
           conns == [connections EXCEPT ![c] = conn]
           reqs == transport.requests
           q == ToSet(transport.outboundQueue)
           h == [connection |-> c, id |-> id, result |-> Len(log')]
<1>1. /\ id \in connections[c].up
      /\ connections' = conns
      /\ log' = IF IsCommand(id, reqs) THEN Append(log, id) ELSE log
      /\ handling' \subseteq handling \cup {h}
      /\ UNCHANGED transport
  BY DEF RouteRequest, IsCommand
<1>2. h.id = id
  OBVIOUS
<1>3. /\ conn.up = rest /\ conn.down = connections[c].down
  BY DEF ClientInv, SoundAll, Sound, Fields
<1>4. Carries(conn, connections[c].up, Responses(connections[c].down) \cup handling)
  BY <1>3 DEF Carries
<1>5. Once(reqs, q, connections, log, handling)
  BY DEF OnceInv, OnceFor
<1>6. DOMAIN conns = DOMAIN connections
      /\ \A k \in DOMAIN connections : conns[k] = IF k = c THEN conn ELSE connections[k]
  OBVIOUS
<1> HIDE DEF conn, h
<1>7. OnceFor(transport, conns, log, handling)
  BY <1>4, UpdateOnce DEF OnceInv
<1>8. Once(reqs, q, conns, log, handling)
  BY <1>7 DEF OnceFor
<1> HIDE DEF q, conns
<1>9. Waits(id, q, connections)
  BY <1>1 DEF Waits
<1>10. ~Waits(id, q, conns)
  <2>1. id \notin q
    BY <1>1, <1>5 DEF Once, WaitsOnce
  <2>2. ASSUME NEW k \in DOMAIN connections, id \in conns[k].up PROVE FALSE
    <3>1. k # c
      BY <1>3, <1>6, <2>2
    <3>2. connections[c].up \cap connections[k].up = {}
      BY <1>5, <3>1 DEF Once, WaitsOnce
    <3> QED
      BY <1>1, <1>6, <2>2, <3>1, <3>2
  <2> QED
    BY <1>6, <2>1, <2>2 DEF Waits
<1>11. id \in DOMAIN reqs /\ id # 0
  BY <1>5, <1>9, SeqFacts DEF Once, WaitingDidNotRun, AreRequests
<1>12. Once(reqs, q, conns, log', handling) /\ (IsCommand(id, reqs) => Ran(id, log'))
  <2>1. CASE IsCommand(id, reqs)
    <3>1. ~Ran(id, log) /\ reqs[id].state # "unsent"
      BY <1>5, <1>9, <1>11, <2>1 DEF Once, WaitingDidNotRun, StatesAreTrue
    <3> QED
      BY <1>1, <1>8, <1>10, <1>11, <2>1, <3>1, RunOnce
  <2>2. CASE ~IsCommand(id, reqs)
    BY <1>1, <1>8, <2>2
  <2> QED
    BY <2>1, <2>2
<1> HIDE DEF reqs
<1>13. Once(reqs, q, conns, log', handling \cup {h})
  BY <1>2, <1>11, <1>12, AnswerOnce
<1>14. Once(reqs, q, conns, log', handling')
  BY <1>1, <1>13, HandledOnce
<1> QED
  BY <1>1, <1>14 DEF OnceInv, OnceFor, reqs, q

LEMMA ResponseOnce ==
    ASSUME ClientInv, OnceInv, NEW h \in handling, NEW ok, SendResponse(h, ok)
    PROVE  OnceInv'
<1> DEFINE m == [type |-> "response", id |-> h.id, ok |-> ok, result |-> h.result]
           reqs == transport.requests
           q == ToSet(transport.outboundQueue)
           c == h.connection
<1>1. /\ connections' = SendDown(connections, c, m) \/ connections' = connections
      /\ handling' = handling \ {h}
      /\ UNCHANGED <<transport, log>>
  BY DEF SendResponse
<1>2. m.id = h.id /\ m.type = "response"
  OBVIOUS
<1> HIDE DEF m
<1>3. Once(reqs, q, connections, log, handling)
  BY DEF OnceInv, OnceFor
<1>4. Once(reqs, q, connections, log, handling \cup {m})
  BY <1>2, <1>3, AnswerOnce DEF Once, AnsweredRan
<1>5. c \in DOMAIN connections
  BY DEF ClientInv
<1>6. ASSUME connections' = SendDown(connections, c, m)
      PROVE  Once(reqs, q, connections', log, handling \cup {m})
  <2> DEFINE old == connections[c].down
             down == IF connections[c].broken THEN old ELSE Append(old, m)
             conn == [connections[c] EXCEPT !.down = down]
  <2>1. connections' = [connections EXCEPT ![c] = conn]
    BY <1>6 DEF SendDown
  <2>2. conn.up = connections[c].up /\ conn.down = down /\ IsSeq(old)
    BY <1>5 DEF ClientInv, SoundAll, Sound, Fields, IsMail
  <2>3. Responses(down) \subseteq Responses(old) \cup {m}
    BY <2>2, ResponsesOfAppend
  <2>4. Carries(conn, connections[c].up, Responses(old) \cup handling \cup {m})
    BY <2>2, <2>3 DEF Carries
  <2> HIDE DEF conn, down
  <2>5. \A k \in DOMAIN connections' : k \in DOMAIN connections
           /\ Carries(connections'[k], connections[k].up,
                      Responses(connections[k].down) \cup (handling \cup {m}))
    <3>1. ASSUME NEW k \in DOMAIN connections'
          PROVE  k \in DOMAIN connections
                 /\ Carries(connections'[k], connections[k].up,
                            Responses(connections[k].down) \cup (handling \cup {m}))
      <4>1. CASE k = c
        BY <1>5, <2>1, <2>4, <4>1 DEF Carries
      <4>2. CASE k # c
        BY <2>1, <4>2 DEF Carries
      <4> QED
        BY <4>1, <4>2
    <3> QED
      BY <3>1
  <2> HIDE DEF q, reqs
  <2> QED
    BY <1>4, <2>5, LessOnce
<1>7. Once(reqs, q, connections', log, handling \cup {m})
  BY <1>1, <1>4, <1>6
<1> HIDE DEF q, reqs
<1>8. Once(reqs, q, connections', log, handling')
  BY <1>1, <1>7, HandledOnce
<1> QED
  BY <1>1, <1>8 DEF OnceInv, OnceFor, q, reqs

\* One connection loses something, or changes otherwise.
LEMMA ChangeOnce ==
    ASSUME OnceInv, NEW c \in DOMAIN connections, NEW e,
           Carries(e, connections[c].up, Responses(connections[c].down)),
           connections' = [connections EXCEPT ![c] = e],
           handling' \subseteq handling, UNCHANGED <<transport, log>>
    PROVE  OnceInv'
<1>1. OnceFor(transport, [connections EXCEPT ![c] = e], log, handling)
  BY UpdateOnce DEF OnceInv, Carries
<1>2. OnceFor(transport, connections', log, handling)
  BY <1>1, Zenon
<1>3. Once(transport.requests, ToSet(transport.outboundQueue), connections', log, handling')
  BY <1>2, HandledOnce DEF OnceFor
<1> QED
  BY <1>2, <1>3 DEF OnceInv, OnceFor

LEMMA BreakOnce ==
    ASSUME ClientInv, OnceInv, NEW c \in DOMAIN connections, Break(c)
    PROVE  OnceInv'
<1>1. PICK received \in {{}, connections[c].up} :
         connections' = [connections EXCEPT ![c] = Broken(connections[c],
             {id \in received : transport.requests[id].kind = "dispatch"})]
  BY DEF Break
<1> DEFINE conn == Broken(connections[c],
                          {id \in received : transport.requests[id].kind = "dispatch"})
<1>2. conn.up \subseteq connections[c].up /\ conn.down = <<>>
  BY DEF Broken, ClientInv, SoundAll, Sound, Fields
<1>3. Carries(conn, connections[c].up, Responses(connections[c].down))
  BY <1>2, ResponsesOfNothing DEF Carries
<1>4. connections' = [connections EXCEPT ![c] = conn]
  BY <1>1
<1>5. handling' \subseteq handling /\ UNCHANGED <<transport, log>>
  BY DEF Break
<1> HIDE DEF conn
<1> QED
  BY <1>3, <1>4, <1>5, ChangeOnce

LEMMA ServerCloseOnce ==
    ASSUME ClientInv, OnceInv, NEW c \in DOMAIN connections, ServerClose(c) \/ publishWelcome(c),
           UNCHANGED <<log, handling>>
    PROVE  OnceInv'
<1>1. PICK e \in {[connections[c] EXCEPT !.server = "closed"],
                  [connections[c] EXCEPT !.welcomed = TRUE]} :
         connections' = [connections EXCEPT ![c] = e]
  BY DEF ServerClose, publishWelcome
<1>2. e.up = connections[c].up /\ e.down = connections[c].down
  BY DEF ClientInv, SoundAll, Sound, Fields
<1>3. UNCHANGED transport
  BY DEF ServerClose, publishWelcome
<1> QED
  BY <1>1, <1>2, <1>3, ChangeOnce DEF Carries

\* Pushes are no answers, and a crash only loses.
LEMMA PushOnce ==
    ASSUME ClientInv, PushInv, OnceInv, (send /\ UNCHANGED <<log, handling>>) \/ CrashServer
    PROVE  OnceInv'
<1>1. DOMAIN connections' = DOMAIN connections /\ handling' \subseteq handling
      /\ UNCHANGED <<transport, log>>
  BY DEF send, CrashServer
<1>2. ASSUME NEW c \in DOMAIN connections
      PROVE  Carries(connections'[c], connections[c].up, Responses(connections[c].down))
  <2>1. Sound(connections[c]) /\ IsSeq(connections[c].down)
    BY DEF ClientInv, SoundAll, Sound, IsMail
  <2>2. Carries(connections[c], connections[c].up, Responses(connections[c].down))
    BY DEF Carries
  <2>3. CASE send
    <3> DEFINE job == Head(queue)
               m == [type |-> job.channel, sequence |-> job.sequence]
               down == Append(connections[c].down, m)
               conn == [connections[c] EXCEPT !.down = down]
    <3>1. m.type # "response"
      <4>1. queue # <<>>
        BY <2>3 DEF send
      <4>2. IsJob(job, connections)
        BY <4>1, QueueTail DEF PushInv
      <4> QED
        BY <4>2 DEF IsJob
    <3>2. connections'[c] \in {connections[c], conn}
      BY <2>3 DEF send
    <3> HIDE DEF m
    <3>3. conn.up = connections[c].up /\ conn.down = down
      BY <2>1 DEF Sound, Fields
    <3>4. Responses(down) \subseteq Responses(connections[c].down)
      BY <2>1, <3>1, ResponsesOfAppend
    <3> HIDE DEF conn, down
    <3> QED
      BY <2>2, <3>2, <3>3, <3>4 DEF Carries
  <2>4. CASE CrashServer
    <3> DEFINE conn == [Broken(connections[c], {}) EXCEPT !.server = "closed"]
    <3>1. connections'[c] \in {connections[c], conn}
      BY <2>4 DEF CrashServer
    <3>2. conn.up = {} /\ conn.down = <<>>
      BY <2>1 DEF Broken, Sound, Fields
    <3> HIDE DEF conn
    <3> QED
      BY <2>2, <3>1, <3>2, ResponsesOfNothing DEF Carries
  <2> QED
    BY <2>3, <2>4
<1>3. Once(transport.requests, ToSet(transport.outboundQueue), connections, log, handling)
  BY DEF OnceInv, OnceFor
<1>4. \A c \in DOMAIN connections' : c \in DOMAIN connections
         /\ Carries(connections'[c], connections[c].up,
                    Responses(connections[c].down) \cup handling)
  BY <1>1, <1>2 DEF Carries
<1>5. Once(transport.requests, ToSet(transport.outboundQueue), connections', log, handling)
  BY <1>3, <1>4, LessOnce
<1>6. Once(transport.requests, ToSet(transport.outboundQueue), connections', log, handling')
  BY <1>1, <1>5, HandledOnce
<1> QED
  BY <1>1, <1>6 DEF OnceInv, OnceFor

LEMMA OtherCommandOnce == ASSUME OnceInv, OtherCommand PROVE OnceInv'
<1>1. log' = Append(log, 0) /\ UNCHANGED <<transport, connections, handling>>
  BY DEF OtherCommand
<1>2. Once(transport.requests, ToSet(transport.outboundQueue), connections, log', handling)
  BY <1>1, RunOnce DEF OnceInv, OnceFor
<1> QED
  BY <1>1, <1>2 DEF OnceInv, OnceFor

-----------------------------------------------------------------------------
(* The invariant *)

LEMMA InitOnce == Init => OnceInv
<1> SUFFICES ASSUME Init PROVE OnceInv
  OBVIOUS
<1> DEFINE t == [InitTransport EXCEPT !.ws = 1]
           conns == <<Connection>>
<1>1. /\ transport = request(t, conns, "snapshot")[1]
      /\ connections = request(t, conns, "snapshot")[2]
      /\ log = <<>> /\ handling = {}
  BY DEF Init
<1>2. DOMAIN conns = {1} /\ conns[1] = Connection /\ IsSeq(conns)
  <2>1. conns \in Seq({Connection}) /\ Len(conns) = 1 /\ conns[1] = Connection
    OBVIOUS
  <2>2. IsSeq(conns)
    BY <2>1 DEF IsSeq
  <2> HIDE DEF conns
  <2>3. DOMAIN conns = 1..1
    BY <2>1, <2>2, SeqFacts
  <2> QED
    BY <2>1, <2>2, <2>3
<1>3. t.requests = <<>> /\ t.outboundQueue = <<>> /\ t.ws = 1 /\ TransportFields \subseteq DOMAIN t
  BY DEF InitTransport, TransportFields
<1> HIDE DEF t, conns
<1>4. SoundAll(conns) /\ Attached(t, conns)
  BY <1>2, <1>3, NewIsSound DEF SoundAll, Attached
<1>5. Connection.up = {} /\ Answers(conns) = {}
  BY <1>2, ResponsesOfNothing DEF Connection, Answers
<1>6. ToSet(<<>>) = {} /\ IsSeq(<<>>) /\ DOMAIN <<>> = {}
  BY NilFacts DEF ToSet
<1>7. \A id : ~Waits(id, {}, conns)
  BY <1>2, <1>5 DEF Waits
<1>8. Once(<<>>, {}, conns, <<>>, {})
  BY <1>2, <1>5, <1>6, <1>7 DEF Once, AreRequests, WaitsOnce, WaitingDidNotRun, RanOnce,
                               AnsweredRan, StatesAreTrue
<1>9. OnceFor(t, conns, <<>>, {})
  BY <1>3, <1>6, <1>8 DEF OnceFor
<1>10. OnceFor(transport, connections, <<>>, {})
  BY <1>1, <1>4, <1>9, RequestOnce
<1> QED
  BY <1>1, <1>10 DEF OnceInv

LEMMA StepKeepsOnce ==
    ASSUME ClientInv, PushInv, OnceInv, [Next]_vars
    PROVE  OnceInv'
<1>1. CASE Connect
  BY <1>1, ConnectOnce
<1>2. CASE \E c \in DOMAIN connections : ClientClose(c) \/ Receive(c)
  BY <1>2, ClientCloseOnce, ReceiveOnce
<1>3. CASE Retry \/ Dispatch
  BY <1>3, UserOnce
<1>4. CASE \E c \in DOMAIN connections : Open(c) \/ Break(c)
  BY <1>4, OpenOnce, BreakOnce
<1>5. CASE \E c \in DOMAIN connections : ServerClose(c)
  <2>1. UNCHANGED <<log, handling>>
    BY <1>5 DEF ServerClose
  <2> QED
    BY <1>5, <2>1, ServerCloseOnce
<1>6. CASE \E c \in DOMAIN connections : \E id \in connections[c].up : RouteRequest(c, id)
  BY <1>6, RouteOnce
<1>7. CASE \E h \in handling : Respond(h) \/ SnapshotFails(h)
  <2>1. PICK h \in handling : SendResponse(h, TRUE) \/ SendResponse(h, FALSE)
    BY <1>7 DEF Respond, SnapshotFails
  <2> QED
    BY <2>1, ResponseOnce
<1>8. CASE \E id \in DOMAIN transport.requests : RequestTimesOut(id)
  BY <1>8, TimeOutOnce
<1>9. CASE PushStep
  <2>1. UNCHANGED <<log, handling>>
    BY <1>9 DEF PushStep
  <2>2. CASE send
    BY <2>1, <2>2, PushOnce
  <2>3. CASE \E c \in DOMAIN connections : welcome(c)
    BY <2>1, <2>3, ServerCloseOnce DEF welcome
  <2>4. CASE MarkReady \/ \E c \in DOMAIN connections : join(c)
    <3>1. UNCHANGED <<transport, connections>>
      BY <2>4 DEF MarkReady, join
    <3> QED
      BY <2>1, <3>1 DEF OnceInv
  <2> QED
    BY <1>9, <2>2, <2>3, <2>4 DEF PushStep
<1>10. CASE CrashServer
  BY <1>10, PushOnce
<1>11. CASE OtherCommand
  BY <1>11, OtherCommandOnce
<1>12. CASE StreamEvent \/ UNCHANGED vars
  <2>1. UNCHANGED <<transport, connections, log, handling>>
    BY <1>12 DEF StreamEvent, vars
  <2> QED
    BY <2>1 DEF OnceInv
<1> QED
  BY <1>1, <1>2, <1>3, <1>4, <1>5, <1>6, <1>7, <1>8, <1>9, <1>10, <1>11, <1>12
     DEF Next, ClientStep, ServerStep, FaultStep

LEMMA OnceCounts == OnceInv => CommandsRunOnce
<1> SUFFICES ASSUME OnceInv, NEW id \in DOMAIN transport.requests,
                    transport.requests[id].kind = "dispatch"
             PROVE  LET runs == Cardinality({i \in DOMAIN log : log[i] = id})
                    IN  /\ runs <= 1
                        /\ transport.requests[id].state = "resolved" => runs = 1
                        /\ transport.requests[id].state = "unsent" => runs = 0
  BY DEF CommandsRunOnce
<1> DEFINE places == {i \in DOMAIN log : log[i] = id}
<1>1. id # 0
  BY SeqFacts DEF OnceInv, OnceFor, Once, AreRequests
<1>2. CASE Ran(id, log)
  <2>1. PICK i \in DOMAIN log : log[i] = id
    BY <1>2 DEF Ran
  <2>2. places = {i}
    BY <1>1, <2>1 DEF OnceInv, OnceFor, Once, RanOnce
  <2>3. Cardinality(places) = 1
    BY <2>2, FS_Singleton
  <2>4. transport.requests[id].state # "unsent"
    BY <1>2 DEF OnceInv, OnceFor, Once, StatesAreTrue, IsCommand
  <2> QED
    BY <2>3, <2>4
<1>3. CASE ~Ran(id, log)
  <2>1. places = {}
    BY <1>3 DEF Ran
  <2>2. Cardinality(places) = 0
    BY <2>1, FS_EmptySet
  <2>3. transport.requests[id].state # "resolved"
    BY <1>3 DEF OnceInv, OnceFor, Once, StatesAreTrue, IsCommand
  <2> QED
    BY <2>2, <2>3
<1> QED
  BY <1>2, <1>3

\* Whatever breaks, times out or crashes, and whatever a reconnection flushes: a command
\* runs once at most, one that its caller knows to have succeeded did run, and one that
\* was rejected out of the outbound queue never does (wsTransport.ts, wsServer.ts).
THEOREM CommandsRunOnceHolds == Spec => []CommandsRunOnce
<1> DEFINE AllInv == ClientInv /\ PushInv /\ OnceInv
<1>1. Init => AllInv
  BY InitPush, InitOnce
<1>2. AllInv /\ [Next]_vars => AllInv'
  BY StepKeepsPush, StepKeepsOnce
<1>3. AllInv => CommandsRunOnce
  BY OnceCounts
<1> QED
  BY <1>1, <1>2, <1>3, PTL DEF Spec

-----------------------------------------------------------------------------
(* What the interface shows *)

UiFields == {"running", "pendingReason", "refreshTimer", "subscribed", "snapshot"}

\* The snapshot requests that the client waits for.
Asked(t) == {id \in pending(t) : t.requests[id].kind = "snapshot"}

\* What the answers say of which request, sent or not.
Results(conns, handled) == {<<m.id, m.result>> : m \in handled \cup Answers(conns)}

\* One snapshot at a time is asked for, by the runner, and every answer to it that exists
\* was read from a log no shorter than what interface u shows, and no longer than n.
Newer(t, u, results, n) ==
    /\ UiFields \subseteq DOMAIN u
    /\ n \in Nat /\ u.snapshot \in 0..n
    /\ \A r \in results :
          /\ r[1] \in DOMAIN t.requests
          /\ r[2] \in 0..n
          /\ r[1] \in Asked(t) => r[2] >= u.snapshot
    /\ \A i, j \in Asked(t) : i = j
    /\ Asked(t) # {} => u.running

NewerFor(t, conns, u) == Newer(t, u, Results(conns, handling), Len(log))

NewerInv == NewerFor(transport, connections, ui)

\* What a step must establish.
NeverBack == NewerInv' /\ ui'.snapshot >= ui.snapshot

\* Answers get lost and the log grows.
LEMMA NewerStays ==
    ASSUME NEW t, NEW u, NEW results, NEW n, Newer(t, u, results, n),
           NEW fewer, fewer \subseteq results, NEW k \in Nat, n <= k
    PROVE  Newer(t, u, fewer, k)
BY DEF Newer

LEMMA ResultsStay ==
    ASSUME NEW conns, NEW handled, NEW more, NEW fewer, fewer \subseteq handled,
           \A c \in DOMAIN more : Responses(more[c].down) \subseteq Answers(conns)
    PROVE  Results(more, fewer) \subseteq Results(conns, handled)
<1>1. Answers(more) \subseteq Answers(conns)
  BY DEF Answers
<1> QED
  BY <1>1 DEF Results

\* Settling takes from what is asked for.
LEMMA SettleAsked ==
    ASSUME NEW t, AreRequests(t.requests), TransportFields \subseteq DOMAIN t, NEW ids, NEW state
    PROVE  /\ DOMAIN Settle(t, ids, state).requests = DOMAIN t.requests
           /\ AreRequests(Settle(t, ids, state).requests)
           /\ TransportFields \subseteq DOMAIN Settle(t, ids, state)
           /\ Asked(Settle(t, ids, state)) = Asked(t) \ ids
           /\ \A id \in DOMAIN t.requests :
                 Settle(t, ids, state).requests[id].kind = t.requests[id].kind
<1> DEFINE s == Settle(t, ids, state)
           new(id) == IF t.requests[id].kind = "snapshot" THEN "settled" ELSE state
           f == [id \in DOMAIN t.requests |-> IF id \notin ids THEN t.requests[id]
                                             ELSE [t.requests[id] EXCEPT !.state = new(id)]]
<1>1. s.requests = f
  BY DEF Settle, TransportFields
<1>2. Settled(t.requests, s.requests, ids, state) /\ TransportFields \subseteq DOMAIN s
  BY SettleFacts
<1>3. DOMAIN s.requests = DOMAIN t.requests /\ AreRequests(s.requests)
  BY <1>2 DEF Settled, AreRequests
<1>4. ASSUME NEW id \in DOMAIN t.requests, t.requests[id].kind = "snapshot"
      PROVE  f[id].state = IF id \in ids THEN "settled" ELSE t.requests[id].state
  BY <1>4 DEF AreRequests
<1> HIDE DEF f, s
<1>5. \A id \in DOMAIN t.requests : s.requests[id].kind = t.requests[id].kind
  BY <1>2 DEF Settled
<1>6. ASSUME NEW id \in DOMAIN t.requests
      PROVE  id \in Asked(s) <=> id \in Asked(t) \ ids
  <2>1. CASE t.requests[id].kind = "snapshot"
    BY <1>1, <1>3, <1>4, <1>5, <2>1 DEF Asked, pending
  <2>2. CASE t.requests[id].kind # "snapshot"
    BY <1>5, <2>2 DEF Asked
  <2> QED
    BY <2>1, <2>2
<1>7. Asked(s) \subseteq DOMAIN t.requests /\ Asked(t) \subseteq DOMAIN t.requests
  BY <1>3 DEF Asked, pending
<1>8. Asked(s) = Asked(t) \ ids
  BY <1>6, <1>7
<1> QED
  BY <1>2, <1>3, <1>5, <1>8 DEF s

\* With less asked for.
LEMMA LessAskedNewer ==
    ASSUME NEW t, NEW u, NEW results, NEW n, Newer(t, u, results, n), NEW s,
           DOMAIN s.requests = DOMAIN t.requests, Asked(s) \subseteq Asked(t)
    PROVE  Newer(s, u, results, n)
BY DEF Newer

\* A request that is new has no answer.
LEMMA RequestNewer ==
    ASSUME NEW t, NEW conns, SoundAll(conns), Attached(t, conns), AreRequests(t.requests),
           NEW u, NEW kind, NewerFor(t, conns, u),
           kind = "snapshot" => Asked(t) = {} /\ u.running
    PROVE  NewerFor(request(t, conns, kind)[1], request(t, conns, kind)[2], u)
<1> DEFINE id == Len(t.requests) + 1
           r == [kind |-> kind, state |-> "waiting"]
           reqs == Append(t.requests, r)
           s == request(t, conns, kind)[1]
           more == request(t, conns, kind)[2]
<1>1. /\ DOMAIN reqs = DOMAIN t.requests \cup {id}
      /\ \A i \in DOMAIN t.requests : reqs[i] = t.requests[i]
      /\ reqs[id] = r
  BY AppendFacts DEF AreRequests
<1>2. id \notin DOMAIN t.requests
  BY SeqFacts DEF AreRequests
<1>3. r.kind = kind
  OBVIOUS
<1>4. s.requests = reqs
  <2>1. CASE IsOpen(t, conns)
    BY <2>1 DEF request, Attached, TransportFields
  <2>2. CASE ~IsOpen(t, conns)
    BY <2>2 DEF request, Attached, TransportFields
  <2> QED
    BY <2>1, <2>2
<1>5. /\ DOMAIN more = DOMAIN conns
      /\ \A c \in DOMAIN conns : more[c].down = conns[c].down
  <2>1. CASE IsOpen(t, conns)
    <3>1. more = SendUp(conns, t.ws, {id}) /\ t.ws \in DOMAIN conns
      BY <2>1 DEF request, IsOpen, Attached
    <3> QED
      BY <3>1 DEF SendUp, SoundAll, Sound, Fields
  <2>2. CASE ~IsOpen(t, conns)
    BY <2>2 DEF request
  <2> QED
    BY <2>1, <2>2
<1> HIDE DEF r, reqs, id, s, more
<1>6. Asked(s) \subseteq Asked(t) \cup {id} /\ (kind # "snapshot" => Asked(s) \subseteq Asked(t))
  BY <1>1, <1>3, <1>4 DEF Asked, pending
<1>7. Answers(more) = Answers(conns)
  BY <1>5 DEF Answers
<1>8. Results(more, handling) = Results(conns, handling)
  BY <1>7 DEF Results
<1>9. Newer(s, u, Results(conns, handling), Len(log))
  <2> DEFINE results == Results(conns, handling)
             n == Len(log)
  <2>1. Newer(t, u, results, n)
    BY DEF NewerFor
  <2> HIDE DEF results, n
  <2>2. \A x \in results : x[1] # id
    BY <1>2, <2>1 DEF Newer
  <2>3. \A i, j \in Asked(s) : i = j
    BY <1>6, <2>1 DEF Newer
  <2>4. Asked(s) # {} => u.running
    BY <1>6, <2>1 DEF Newer
  <2>5. \A x \in results : x[1] \in DOMAIN s.requests /\ (x[1] \in Asked(s) => x[1] \in Asked(t))
    BY <1>1, <1>4, <1>6, <2>1, <2>2 DEF Newer
  <2> QED
    BY <2>1, <2>3, <2>4, <2>5 DEF Newer, results, n
<1> QED
  BY <1>8, <1>9 DEF NewerFor, s, more

-----------------------------------------------------------------------------
(* The refresh runner *)

\* A step of the client that had t and conns before it ended with interface v: nothing
\* was asked for if it asks now.
LEMMA EndsNewer ==
    ASSUME NEW t, NEW conns, SoundAll(conns), Attached(t, conns), AreRequests(t.requests),
           NEW v, NEW asks, NewerFor(t, conns, v), asks => Asked(t) = {} /\ v.running,
           UNCHANGED <<log, handling>>, Ends(t, conns, v, asks)
    PROVE  NewerInv' /\ ui' = v
<1>1. ui' = v
  BY DEF Ends
<1>2. CASE asks
  <2>1. /\ transport' = request(t, conns, "snapshot")[1]
        /\ connections' = request(t, conns, "snapshot")[2]
    BY <1>2 DEF Ends
  <2>2. NewerFor(transport', connections', v)
    BY <1>2, <2>1, RequestNewer
  <2> QED
    BY <1>1, <2>2 DEF NewerInv, NewerFor
<1>3. CASE ~asks
  <2>1. transport' = t /\ connections' = conns
    BY <1>3 DEF Ends
  <2> QED
    BY <1>1, <2>1 DEF NewerInv, NewerFor
<1> QED
  BY <1>2, <1>3

\* What else the interface remembers.
LEMMA OtherFieldsNewer ==
    ASSUME NEW t, NEW conns, NEW u, NewerFor(t, conns, u), NEW v,
           DOMAIN v = DOMAIN u, v.snapshot = u.snapshot, Asked(t) # {} => v.running
    PROVE  NewerFor(t, conns, v)
BY DEF NewerFor, Newer

\* After a refresh nothing is asked for, and the runner asks again or stops.
LEMMA RunnerNewer ==
    ASSUME NEW t, NEW conns, SoundAll(conns), Attached(t, conns), AreRequests(t.requests),
           NEW u, NewerFor(t, conns, u), Asked(t) = {}, u.running,
           UNCHANGED <<log, handling>>, RunnerGoesOn(t, conns, u)
    PROVE  NewerInv' /\ ui'.snapshot = u.snapshot
<1> DEFINE again == [u EXCEPT !.pendingReason = FALSE]
           listens == [u EXCEPT !.subscribed = TRUE, !.running = t.latestWelcome]
           stops == [u EXCEPT !.running = FALSE]
<1>1. \/ Ends(t, conns, again, TRUE)
      \/ Ends(t, conns, listens, t.latestWelcome)
      \/ Ends(t, conns, stops, FALSE)
  BY DEF RunnerGoesOn
<1>2. UiFields \subseteq DOMAIN u
  BY DEF NewerFor, Newer
<1>3. /\ \A v \in {again, listens, stops} : DOMAIN v = DOMAIN u /\ v.snapshot = u.snapshot
      /\ again.running /\ (t.latestWelcome => listens.running)
  BY <1>2 DEF UiFields
<1> HIDE DEF again, listens, stops
<1>4. \A v \in {again, listens, stops} : NewerFor(t, conns, v)
  BY <1>3, OtherFieldsNewer
<1>5. \E v \in {again, listens, stops} : \E asks :
         Ends(t, conns, v, asks) /\ (asks => v.running)
  BY <1>1, <1>3
<1>6. PICK v \in {again, listens, stops} : \E asks : Ends(t, conns, v, asks) /\ (asks => v.running)
  BY <1>5
<1>7. PICK asks : Ends(t, conns, v, asks) /\ (asks => v.running)
  BY <1>6
<1>8. NewerInv' /\ ui' = v
  BY <1>4, <1>7, EndsNewer
<1> QED
  BY <1>3, <1>8

\* A reason to refresh starts the runner or waits for it.
LEMMA RefreshNewer ==
    ASSUME NEW t, NEW conns, SoundAll(conns), Attached(t, conns), AreRequests(t.requests),
           NEW u, NewerFor(t, conns, u), UNCHANGED <<log, handling>>, Refresh(t, conns, u)
    PROVE  NewerInv' /\ ui'.snapshot = u.snapshot
<1> DEFINE waits == [u EXCEPT !.pendingReason = TRUE]
           runs == [u EXCEPT !.running = TRUE]
<1>2. UiFields \subseteq DOMAIN u /\ (Asked(t) # {} => u.running)
  BY DEF NewerFor, Newer
<1>3. /\ DOMAIN waits = DOMAIN u /\ waits.snapshot = u.snapshot /\ waits.running = u.running
      /\ DOMAIN runs = DOMAIN u /\ runs.snapshot = u.snapshot /\ runs.running
  BY <1>2 DEF UiFields
<1>4. CASE u.running
  <2>1. Ends(t, conns, waits, FALSE)
    BY <1>4 DEF Refresh
  <2> HIDE DEF waits
  <2>2. NewerFor(t, conns, waits)
    BY <1>3, <1>4, OtherFieldsNewer
  <2> QED
    BY <1>3, <2>1, <2>2, EndsNewer
<1>5. CASE ~u.running
  <2>1. Ends(t, conns, runs, TRUE) /\ Asked(t) = {}
    BY <1>2, <1>5 DEF Refresh
  <2> HIDE DEF runs
  <2>2. NewerFor(t, conns, runs)
    BY <1>3, OtherFieldsNewer
  <2> QED
    BY <1>3, <2>1, <2>2, EndsNewer
<1> QED
  BY <1>4, <1>5

LEMMA WaitsAsked ==
    \A t : WaitsForSnapshot(t) <=> Asked(t) # {}
BY DEF WaitsForSnapshot, Asked

\* Requests were settled without success, those for snapshots among them or not.
LEMMA RejectedNewer ==
    ASSUME NEW t, NEW conns, SoundAll(conns), Attached(t, conns), AreRequests(t.requests),
           NewerFor(t, conns, ui), Asked(transport) # {} => ui.running,
           UNCHANGED <<log, handling>>, Rejected(t, conns)
    PROVE  NeverBack
<1>0. UiFields \subseteq DOMAIN ui /\ ui.snapshot \in Int
  BY DEF NewerFor, Newer
<1>1. CASE Asked(transport) # {} /\ Asked(t) = {}
  <2> DEFINE u == [ui EXCEPT !.refreshTimer = TRUE]
  <2>1. RunnerGoesOn(t, conns, u)
    BY <1>1, WaitsAsked DEF Rejected, RefreshFails
  <2>2. DOMAIN u = DOMAIN ui /\ u.snapshot = ui.snapshot /\ u.running = ui.running
    BY <1>0 DEF UiFields
  <2> HIDE DEF u
  <2>3. NewerFor(t, conns, u)
    BY <1>1, <2>2, OtherFieldsNewer
  <2>4. u.running
    BY <1>1, <2>2
  <2>5. NewerInv' /\ ui'.snapshot = ui.snapshot
    BY <1>1, <2>1, <2>2, <2>3, <2>4, RunnerNewer
  <2> QED
    BY <1>0, <2>5 DEF NeverBack
<1>2. CASE ~(Asked(transport) # {} /\ Asked(t) = {})
  <2>1. Ends(t, conns, ui, FALSE)
    BY <1>2, WaitsAsked DEF Rejected
  <2>2. NewerInv' /\ ui' = ui
    BY <2>1, EndsNewer
  <2> QED
    BY <1>0, <2>2 DEF NeverBack
<1> QED
  BY <1>1, <1>2

-----------------------------------------------------------------------------
(* Steps of the client *)

\* The connections carry no answers but those they did.
LEMMA AnswersNewer ==
    ASSUME NEW t, NEW conns, NEW u, NewerFor(t, conns, u), NEW more,
           \A c \in DOMAIN more : Responses(more[c].down) \subseteq Answers(conns)
    PROVE  NewerFor(t, more, u)
<1>1. Results(more, handling) \subseteq Results(conns, handling)
  BY ResultsStay
<1>2. Len(log) \in Nat
  BY DEF NewerFor, Newer
<1> QED
  BY <1>1, <1>2, NewerStays DEF NewerFor

LEMMA ConnectNewer ==
    ASSUME ClientInv, NewerInv, Connect
    PROVE  NeverBack
<1>1. /\ connections' = Append(connections, Connection)
      /\ transport' = [transport EXCEPT !.reconnectTimer = FALSE, !.ws = Len(connections) + 1]
      /\ UNCHANGED <<ui, log, handling>>
  BY DEF Connect, connect, server
<1>2. transport'.requests = transport.requests
  BY <1>1 DEF ClientInv, Attached, TransportFields
<1>3. ASSUME NEW c \in DOMAIN connections'
      PROVE  Responses(connections'[c].down) \subseteq Answers(connections)
  <2>1. /\ DOMAIN connections' = DOMAIN connections \cup {Len(connections) + 1}
        /\ \A k \in DOMAIN connections : connections'[k] = connections[k]
        /\ connections'[Len(connections) + 1] = Connection
    BY <1>1, AppendFacts DEF ClientInv, SoundAll
  <2>2. Responses(Connection.down) = {}
    BY ResponsesOfNothing DEF Connection
  <2> QED
    BY <2>1, <2>2 DEF Answers
<1>4. NewerFor(transport, connections', ui)
  BY <1>3, AnswersNewer DEF NewerInv
<1>5. Asked(transport') = Asked(transport)
  BY <1>2 DEF Asked, pending
<1>6. NewerFor(transport', connections', ui)
  BY <1>2, <1>4, <1>5, LessAskedNewer DEF NewerFor
<1>7. ui.snapshot \in Int
  BY DEF NewerInv, NewerFor, Newer
<1> QED
  BY <1>1, <1>6, <1>7 DEF NeverBack, NewerInv, NewerFor

LEMMA ClientCloseNewer ==
    ASSUME ClientInv, OnceInv, NewerInv, NEW c \in DOMAIN connections, ClientClose(c)
    PROVE  NeverBack
<1> DEFINE conn == [connections[c] EXCEPT !.client = "closed"]
           conns == [connections EXCEPT ![c] = conn]
           ids == ToSet(transport.outboundQueue) \cap pending(transport)
           s == Settle(Settle(transport, pending(transport), "closed"), ids, "unsent")
           t == handleClose(transport)
<1>1. Rejected(t, conns) /\ UNCHANGED <<log, handling>>
  BY DEF ClientClose, server
<1>2. Milder(connections[c], conn) /\ conn.down = connections[c].down
  BY OtherFieldsMilder DEF ClientInv, SoundAll, Sound, Fields
<1> HIDE DEF conn
<1>3. SoundAll(conns) /\ DOMAIN conns = DOMAIN connections
  BY <1>2, UpdateIsSound DEF ClientInv
<1>4. \A k \in DOMAIN conns : Responses(conns[k].down) \subseteq Answers(connections)
  BY <1>2 DEF Answers
<1> HIDE DEF conns
<1>5. NewerFor(transport, conns, ui)
  BY <1>4, AnswersNewer DEF NewerInv
<1>6. Attached(t, conns)
  BY <1>3, CloseAttached DEF ClientInv, Attached
<1>7. AreRequests(transport.requests) /\ TransportFields \subseteq DOMAIN transport
  BY DEF OnceInv, OnceFor, Once, ClientInv, Attached
<1>8. /\ DOMAIN s.requests = DOMAIN transport.requests /\ AreRequests(s.requests)
      /\ TransportFields \subseteq DOMAIN s /\ Asked(s) \subseteq Asked(transport)
  BY <1>7, SettleAsked
<1>9. t = [s EXCEPT !.ws = 0, !.outboundQueue = <<>>, !.reconnectTimer = TRUE]
  BY DEF handleClose
<1> HIDE DEF s, t
<1>10. t.requests = s.requests
  BY <1>8, <1>9 DEF TransportFields
<1>11. Asked(t) = Asked(s)
  BY <1>10 DEF Asked, pending
<1>12. NewerFor(t, conns, ui)
  BY <1>5, <1>8, <1>10, <1>11, LessAskedNewer DEF NewerFor
<1>13. Asked(transport) # {} => ui.running
  BY DEF NewerInv, NewerFor, Newer
<1> QED
  BY <1>1, <1>3, <1>6, <1>8, <1>10, <1>12, <1>13, RejectedNewer

LEMMA TimeOutNewer ==
    ASSUME ClientInv, OnceInv, NewerInv, NEW id, RequestTimesOut(id)
    PROVE  NeverBack
<1> DEFINE t == TimeOut(transport, id)
<1>1. Rejected(t, connections) /\ UNCHANGED <<log, handling>>
  BY DEF RequestTimesOut, server
<1>2. Attached(t, connections)
  BY SettleAttached DEF ClientInv, TimeOut
<1>3. AreRequests(transport.requests) /\ TransportFields \subseteq DOMAIN transport
  BY DEF OnceInv, OnceFor, Once, ClientInv, Attached
<1>4. /\ DOMAIN t.requests = DOMAIN transport.requests /\ AreRequests(t.requests)
      /\ Asked(t) \subseteq Asked(transport)
  BY <1>3, SettleAsked DEF TimeOut
<1> HIDE DEF t
<1>5. NewerFor(t, connections, ui) /\ (Asked(transport) # {} => ui.running)
  BY <1>4, LessAskedNewer DEF NewerInv, NewerFor, Newer
<1> QED
  BY <1>1, <1>2, <1>4, <1>5, RejectedNewer DEF ClientInv

LEMMA UserNewer ==
    ASSUME ClientInv, OnceInv, NewerInv, Retry \/ Dispatch
    PROVE  NeverBack
<1>1. AreRequests(transport.requests) /\ SoundAll(connections) /\ Attached(transport, connections)
      /\ UiFields \subseteq DOMAIN ui /\ ui.snapshot \in Int
      /\ NewerFor(transport, connections, ui)
  BY DEF OnceInv, OnceFor, Once, ClientInv, NewerInv, NewerFor, Newer
<1>2. CASE Retry
  <2> DEFINE u == [ui EXCEPT !.refreshTimer = FALSE]
  <2>1. Refresh(transport, connections, u) /\ UNCHANGED <<log, handling>>
    BY <1>2 DEF Retry, server
  <2>2. DOMAIN u = DOMAIN ui /\ u.snapshot = ui.snapshot /\ u.running = ui.running
    BY <1>1 DEF UiFields
  <2> HIDE DEF u
  <2>3. NewerFor(transport, connections, u)
    BY <1>1, <2>2, OtherFieldsNewer DEF NewerFor, Newer
  <2>4. NewerInv' /\ ui'.snapshot = ui.snapshot
    BY <1>1, <2>1, <2>2, <2>3, RefreshNewer
  <2> QED
    BY <1>1, <2>4 DEF NeverBack
<1>3. CASE Dispatch
  <2>1. /\ transport' = request(transport, connections, "dispatch")[1]
        /\ connections' = request(transport, connections, "dispatch")[2]
        /\ UNCHANGED <<ui, log, handling>>
    BY <1>3 DEF Dispatch, server
  <2>2. NewerFor(transport', connections', ui)
    BY <1>1, <2>1, RequestNewer
  <2> QED
    BY <1>1, <2>1, <2>2 DEF NeverBack, NewerInv, NewerFor
<1> QED
  BY <1>2, <1>3

\* The answer to the request that waits is shown; it was read after what is shown now.
LEMMA ReceiveNewer ==
    ASSUME ClientInv, OnceInv, NewerInv, NEW c \in DOMAIN connections, Receive(c)
    PROVE  NeverBack
<1> DEFINE m == Head(connections[c].down)
           down == Tail(connections[c].down)
           conn == [connections[c] EXCEPT !.down = down]
           conns == [connections EXCEPT ![c] = conn]
           t == SettleResponse(transport, m)
           welcomed == [transport EXCEPT !.latestWelcome = TRUE]
           u == IF m.ok THEN [ui EXCEPT !.snapshot = m.result] ELSE [ui EXCEPT !.refreshTimer = TRUE]
<1>1. connections[c].down # <<>> /\ UNCHANGED <<log, handling>>
  BY DEF Receive, server
<1>2. Sound(connections[c]) /\ IsSeq(connections[c].down)
  BY DEF ClientInv, SoundAll, Sound, IsMail
<1>3. conn.down = down
  BY <1>2 DEF Sound, Fields
<1>4. Milder(connections[c], conn)
  <2>1. IsMail(down) /\ ~connections[c].broken
    BY <1>1, <1>2, MailChanges DEF Sound
  <2>2. /\ HasEvent(down) => HasEvent(connections[c].down)
        /\ WelcomeLeads(connections[c].down) => WelcomeLeads(down)
    BY <1>1, <1>2, TailKeepsOrder
  <2> QED
    BY <1>2, <2>1, <2>2, DownFieldMilder
<1>5. Responses(down) \subseteq Responses(connections[c].down)
  BY <1>1, <1>2, ResponsesOfTail
<1>6. conns = [connections EXCEPT ![c].down = Tail(@)]
  OBVIOUS
<1> HIDE DEF conn, down
<1>7. SoundAll(conns) /\ DOMAIN conns = DOMAIN connections
  BY <1>4, UpdateIsSound DEF ClientInv
<1>8. \A k \in DOMAIN conns : Responses(conns[k].down) \subseteq Answers(connections)
  BY <1>3, <1>5 DEF Answers
<1>9. m.type = "response" => m \in Answers(connections)
  BY <1>1, <1>2, TailFacts DEF Answers, Responses
<1>10. Attached(transport, conns) /\ Attached(t, conns) /\ Attached(welcomed, conns)
  <2>1. Attached(transport, conns)
    BY <1>7 DEF ClientInv, Attached
  <2> QED
    BY <2>1, SettleAttached DEF SettleResponse, Attached, TransportFields
<1>11. AreRequests(transport.requests) /\ TransportFields \subseteq DOMAIN transport
  BY DEF OnceInv, OnceFor, Once, ClientInv, Attached
<1>12. welcomed.requests = transport.requests
  BY <1>11 DEF TransportFields
<1>13. /\ DOMAIN t.requests = DOMAIN transport.requests /\ AreRequests(t.requests)
       /\ Asked(t) = Asked(transport) \ {m.id}
       /\ \A id \in DOMAIN transport.requests : t.requests[id].kind = transport.requests[id].kind
  BY <1>11, SettleAsked DEF SettleResponse
<1>14. Refresh(welcomed, conns, ui) \/ Ends(welcomed, conns, ui, FALSE)
       \/ Refresh(transport, conns, ui) \/ Ends(transport, conns, ui, FALSE)
       \/ Ends(t, conns, ui, FALSE)
       \/ /\ m.type = "response" /\ m.id \in Asked(transport)
          /\ RunnerGoesOn(t, conns, u)
  <2>1. m.type \in MessageTypes
    BY <1>1, <1>2, MailChanges DEF Sound
  <2>2. CASE m.type = "serverWelcome"
    BY <1>6, <2>2 DEF Receive
  <2>3. CASE m.type = "domainEvent"
    BY <1>6, <2>3 DEF Receive
  <2>4. CASE m.type = "response"
    <3>1. CASE ~IsAwaited(transport, m)
      BY <1>6, <2>4, <3>1 DEF Receive
    <3>2. CASE IsAwaited(transport, m) /\ t.requests[m.id].kind = "snapshot"
      <4>1. m.id \in Asked(transport)
        BY <1>13, <3>2 DEF IsAwaited, Asked, pending
      <4> QED
        BY <1>6, <2>4, <3>2, <4>1 DEF Receive
    <3>3. CASE IsAwaited(transport, m) /\ t.requests[m.id].kind # "snapshot"
      BY <1>6, <2>4, <3>3 DEF Receive
    <3> QED
      BY <3>1, <3>2, <3>3
  <2> QED
    BY <2>1, <2>2, <2>3, <2>4 DEF MessageTypes
<1> HIDE DEF conns, welcomed, t
<1>15. NewerFor(transport, conns, ui) /\ UiFields \subseteq DOMAIN ui /\ ui.snapshot \in Int
  <2>1. NewerFor(transport, conns, ui)
    BY <1>8, AnswersNewer DEF NewerInv
  <2> QED
    BY <2>1 DEF NewerFor, Newer
<1>16. Asked(welcomed) = Asked(transport)
  BY <1>12 DEF Asked, pending
<1>17. NewerFor(welcomed, conns, ui) /\ NewerFor(t, conns, ui)
  BY <1>12, <1>13, <1>15, <1>16, LessAskedNewer DEF NewerFor
<1>18. CASE m.type = "response" /\ m.id \in Asked(transport) /\ RunnerGoesOn(t, conns, u)
  <2>1. <<m.id, m.result>> \in Results(connections, handling)
    BY <1>9, <1>18 DEF Results
  <2>2. m.result \in 0..Len(log) /\ m.result >= ui.snapshot /\ ui.running
    BY <1>18, <2>1, Zenon DEF NewerInv, NewerFor, Newer
  <2>3. Asked(t) = {}
    BY <1>13, <1>18 DEF NewerInv, NewerFor, Newer
  <2>4. /\ DOMAIN u = DOMAIN ui /\ u.running = ui.running
        /\ u.snapshot = IF m.ok THEN m.result ELSE ui.snapshot
    BY <1>15 DEF UiFields
  <2> HIDE DEF u, m
  <2>5. u.snapshot \in 0..Len(log) /\ u.snapshot >= ui.snapshot
    BY <1>15, <2>2, <2>4 DEF NewerFor, Newer
  <2>6. NewerFor(t, conns, u)
    BY <1>17, <2>2, <2>3, <2>4, <2>5 DEF NewerFor, Newer
  <2>7. NewerInv' /\ ui'.snapshot = u.snapshot
    BY <1>1, <1>7, <1>10, <1>13, <1>18, <2>2, <2>3, <2>4, <2>6, RunnerNewer
  <2> QED
    BY <2>5, <2>7 DEF NeverBack
<1>19. CASE ~(m.type = "response" /\ m.id \in Asked(transport) /\ RunnerGoesOn(t, conns, u))
  <2>1. PICK s \in {transport, welcomed, t} : Refresh(s, conns, ui) \/ Ends(s, conns, ui, FALSE)
    BY <1>14, <1>19
  <2>2. AreRequests(s.requests) /\ Attached(s, conns) /\ NewerFor(s, conns, ui)
    BY <1>10, <1>11, <1>12, <1>13, <1>15, <1>17
  <2>3. NewerInv' /\ ui'.snapshot = ui.snapshot
    BY <1>1, <1>7, <2>1, <2>2, EndsNewer, RefreshNewer
  <2> QED
    BY <1>15, <2>3 DEF NeverBack
<1> QED
  BY <1>18, <1>19

-----------------------------------------------------------------------------
(* Steps of the server *)

\* A step that tells the client nothing new.
LEMMA QuietNewer ==
    ASSUME NewerInv, UNCHANGED ui, handling' \subseteq handling,
           DOMAIN transport'.requests = DOMAIN transport.requests,
           Asked(transport') \subseteq Asked(transport),
           Len(log') \in Nat, Len(log) <= Len(log'),
           \A c \in DOMAIN connections' :
              Responses(connections'[c].down) \subseteq Answers(connections)
    PROVE  NeverBack
<1>1. Results(connections', handling') \subseteq Results(connections, handling)
  BY ResultsStay
<1>2. Newer(transport, ui, Results(connections', handling'), Len(log'))
  BY <1>1, NewerStays DEF NewerInv, NewerFor
<1>3. Newer(transport', ui, Results(connections', handling'), Len(log'))
  BY <1>2, LessAskedNewer
<1>4. ui.snapshot \in Int
  BY DEF NewerInv, NewerFor, Newer
<1> QED
  BY <1>3, <1>4 DEF NeverBack, NewerInv, NewerFor

\* Connections open, close, break and get pushes; the log may grow by others.
LEMMA ServerNewer ==
    ASSUME ClientInv, PushInv, OnceInv, NewerInv,
           \/ \E c \in DOMAIN connections : Open(c) \/ Break(c) \/ ServerClose(c)
           \/ PushStep \/ CrashServer \/ StreamEvent \/ OtherCommand \/ UNCHANGED vars
    PROVE  NeverBack
<1>1. /\ UNCHANGED ui /\ handling' \subseteq handling
      /\ log' = log \/ log' = Append(log, 0)
  BY DEF Open, Break, ServerClose, PushStep, CrashServer, StreamEvent, OtherCommand, vars, server
<1>2. IsSeq(log) /\ Len(log) \in Nat
  BY SeqFacts DEF OnceInv, OnceFor, Once, RanOnce
<1>3. Len(log') \in Nat /\ Len(log) <= Len(log')
  <2>1. CASE log' = log
    BY <1>2, <2>1
  <2>2. CASE log' = Append(log, 0)
    <3>1. Len(log') = Len(log) + 1
      BY <1>2, <2>2, AppendFacts
    <3> QED
      BY <1>2, <3>1
  <2> QED
    BY <1>1, <2>1, <2>2
<1>4. transport'.requests = transport.requests
  <2>1. ASSUME NEW c \in DOMAIN connections, Open(c)
        PROVE  transport'.requests = transport.requests
    BY <2>1 DEF Open, handleOpen, ClientInv, Attached, TransportFields
  <2>2. (\E c \in DOMAIN connections : Open(c)) \/ UNCHANGED transport
    BY DEF Break, ServerClose, PushStep, send, MarkReady, welcome, publishWelcome, join,
           CrashServer, StreamEvent, OtherCommand, vars
  <2> QED
    BY <2>1, <2>2
<1>5. Asked(transport') = Asked(transport)
  BY <1>4 DEF Asked, pending
<1>6. ASSUME NEW c \in DOMAIN connections'
      PROVE  Responses(connections'[c].down) \subseteq Answers(connections)
  <2>1. ASSUME NEW k \in DOMAIN connections
        PROVE  /\ Sound(connections[k]) /\ IsSeq(connections[k].down)
               /\ Responses(connections[k].down) \subseteq Answers(connections)
    BY DEF ClientInv, SoundAll, Sound, IsMail, Answers
  <2>2. CASE UNCHANGED connections
    BY <2>1, <2>2
  <2>3. ASSUME NEW d \in DOMAIN connections, Open(d) \/ ServerClose(d) \/ publishWelcome(d)
        PROVE  c \in DOMAIN connections /\ connections'[c].down = connections[c].down
    <3>1. ASSUME Open(d)
          PROVE  c \in DOMAIN connections /\ connections'[c].down = connections[c].down
      <4>1. connections' = SendUp([connections EXCEPT ![d].client = "open", ![d].server = "open"],
                                  d, ToSet(transport.outboundQueue))
        BY <3>1 DEF Open, handleOpen
      <4>2. c \in DOMAIN connections
        BY <4>1 DEF SendUp
      <4> QED
        BY <2>1, <4>1, <4>2 DEF SendUp, Sound, Fields
    <3>2. ASSUME ServerClose(d) \/ publishWelcome(d)
          PROVE  c \in DOMAIN connections /\ connections'[c].down = connections[c].down
      <4>1. PICK e \in {[connections[d] EXCEPT !.server = "closed"],
                        [connections[d] EXCEPT !.welcomed = TRUE]} :
               connections' = [connections EXCEPT ![d] = e]
        BY <3>2 DEF ServerClose, publishWelcome
      <4>2. e.down = connections[d].down
        BY <2>1 DEF Sound, Fields
      <4> QED
        BY <4>1, <4>2
    <3> QED
      BY <2>3, <3>1, <3>2
  <2>4. ASSUME NEW d \in DOMAIN connections, Break(d)
        PROVE  c \in DOMAIN connections /\ connections'[c].down \in {connections[c].down, <<>>}
    BY <2>1, <2>4 DEF Break, Broken, Sound, Fields
  <2>5. ASSUME CrashServer
        PROVE  c \in DOMAIN connections /\ connections'[c].down \in {connections[c].down, <<>>}
    BY <2>1, <2>5 DEF CrashServer, Broken, Sound, Fields
  <2>6. ASSUME send
        PROVE  Responses(connections'[c].down) \subseteq Answers(connections)
    <3> DEFINE job == Head(queue)
               m == [type |-> job.channel, sequence |-> job.sequence]
               down == Append(connections[c].down, m)
               conn == [connections[c] EXCEPT !.down = down]
    <3>1. m.type # "response"
      <4>1. queue # <<>>
        BY <2>6 DEF send
      <4>2. IsJob(job, connections)
        BY <4>1, QueueTail DEF PushInv
      <4> QED
        BY <4>2 DEF IsJob
    <3>2. c \in DOMAIN connections /\ connections'[c] \in {connections[c], conn}
      BY <2>6 DEF send
    <3> HIDE DEF m
    <3>3. conn.down = down
      BY <2>1, <3>2 DEF Sound, Fields
    <3>4. Responses(down) \subseteq Responses(connections[c].down)
      BY <2>1, <3>1, <3>2, ResponsesOfAppend
    <3> HIDE DEF conn, down
    <3> QED
      BY <2>1, <3>2, <3>3, <3>4
  <2>7. \/ UNCHANGED connections \/ send \/ CrashServer
        \/ \E d \in DOMAIN connections : Open(d) \/ ServerClose(d) \/ publishWelcome(d) \/ Break(d)
    BY DEF PushStep, MarkReady, welcome, join, StreamEvent, OtherCommand, vars
  <2> QED
    BY <2>1, <2>2, <2>3, <2>4, <2>5, <2>6, <2>7, ResponsesOfNothing
<1> QED
  BY <1>1, <1>3, <1>4, <1>5, <1>6, QuietNewer

\* A snapshot is read from the log as it is, and a command makes it longer.
LEMMA RouteNewer ==
    ASSUME ClientInv, OnceInv, NewerInv, NEW c \in DOMAIN connections, NEW id, RouteRequest(c, id)
    PROVE  NeverBack
<1> DEFINE h == [connection |-> c, id |-> id, result |-> Len(log')]
           r == <<id, Len(log')>>
<1>1. /\ id \in connections[c].up
      /\ connections' = [connections EXCEPT ![c].up = @ \ {id}]
      /\ log' = log \/ log' = Append(log, id)
      /\ handling' \subseteq handling \cup {h}
      /\ UNCHANGED <<transport, ui>>
  BY DEF RouteRequest
<1>2. IsSeq(log) /\ Len(log) \in Nat
  BY SeqFacts DEF OnceInv, OnceFor, Once, RanOnce
<1>3. Len(log') \in Nat /\ Len(log) <= Len(log')
  <2>1. CASE log' = log
    BY <1>2, <2>1
  <2>2. CASE log' = Append(log, id)
    <3>1. Len(log') = Len(log) + 1
      BY <1>2, <2>2, AppendFacts
    <3> QED
      BY <1>2, <3>1
  <2> QED
    BY <1>1, <2>1, <2>2
<1>4. id \in DOMAIN transport.requests
  BY <1>1 DEF OnceInv, OnceFor, Once, WaitingDidNotRun, Waits
<1>5. Answers(connections') = Answers(connections)
  <2>1. /\ DOMAIN connections' = DOMAIN connections
        /\ \A k \in DOMAIN connections : connections'[k].down = connections[k].down
    BY <1>1 DEF ClientInv, SoundAll, Sound, Fields
  <2> QED
    BY <2>1 DEF Answers
<1>6. Results(connections', handling') \subseteq Results(connections, handling) \cup {r}
  <2>1. h.id = id /\ h.result = Len(log')
    OBVIOUS
  <2> HIDE DEF h
  <2> QED
    BY <1>1, <1>5, <2>1 DEF Results
<1> DEFINE results == Results(connections, handling)
           n == Len(log)
           k == Len(log')
<1>7. Newer(transport, ui, results, n)
  BY DEF NewerInv, NewerFor
<1>8. r[1] = id /\ r[2] = k
  OBVIOUS
<1> HIDE DEF results, n, k, r
<1>9. Newer(transport, ui, results, k)
  BY <1>3, <1>7, NewerStays DEF n, k
<1>10. Newer(transport, ui, results \cup {r}, k)
  <2>1. k \in 0..k /\ k >= ui.snapshot
    BY <1>9 DEF Newer
  <2> QED
    BY <1>4, <1>8, <1>9, <2>1 DEF Newer
<1>11. Newer(transport, ui, Results(connections', handling'), k)
  BY <1>6, <1>9, <1>10, NewerStays DEF Newer, results
<1>12. ui.snapshot \in Int
  BY <1>7 DEF Newer
<1> QED
  BY <1>1, <1>11, <1>12 DEF NeverBack, NewerInv, NewerFor, k

LEMMA ResponseNewer ==
    ASSUME ClientInv, OnceInv, NewerInv, NEW h \in handling, NEW ok, SendResponse(h, ok)
    PROVE  NeverBack
<1> DEFINE m == [type |-> "response", id |-> h.id, ok |-> ok, result |-> h.result]
           c == h.connection
<1>1. /\ connections' = SendDown(connections, c, m) \/ connections' = connections
      /\ handling' \subseteq handling
      /\ UNCHANGED <<transport, log, ui>>
  BY DEF SendResponse
<1>2. m.id = h.id /\ m.result = h.result
  OBVIOUS
<1> HIDE DEF m
<1>3. c \in DOMAIN connections
  BY DEF ClientInv
<1>4. Answers(connections') \subseteq Answers(connections) \cup {m}
  <2>1. CASE connections' = SendDown(connections, c, m)
    <3>1. ASSUME NEW d \in DOMAIN connections'
          PROVE  Responses(connections'[d].down) \subseteq Answers(connections) \cup {m}
      <4>1. d \in DOMAIN connections /\ IsSeq(connections[d].down)
            /\ Responses(connections[d].down) \subseteq Answers(connections)
        BY <2>1 DEF SendDown, ClientInv, SoundAll, Sound, IsMail, Answers
      <4>2. connections'[d].down \in {connections[d].down, Append(connections[d].down, m)}
        BY <2>1, <4>1 DEF SendDown, ClientInv, SoundAll, Sound, Fields
      <4>3. Responses(Append(connections[d].down, m)) \subseteq Responses(connections[d].down) \cup {m}
        BY <4>1, ResponsesOfAppend
      <4> QED
        BY <4>1, <4>2, <4>3
    <3> QED
      BY <3>1 DEF Answers
  <2> QED
    BY <1>1, <2>1
<1>5. Results(connections', handling') \subseteq Results(connections, handling)
  BY <1>1, <1>2, <1>4 DEF Results
<1>6. Newer(transport, ui, Results(connections', handling'), Len(log)) /\ ui.snapshot \in Int
  BY <1>5, NewerStays DEF NewerInv, NewerFor, Newer
<1> QED
  BY <1>1, <1>6 DEF NeverBack, NewerInv, NewerFor

-----------------------------------------------------------------------------
(* The invariant *)

LEMMA StepNewer ==
    ASSUME ClientInv, PushInv, OnceInv, NewerInv, [Next]_vars
    PROVE  NeverBack
<1>1. CASE Connect
  BY <1>1, ConnectNewer
<1>2. CASE \E c \in DOMAIN connections : ClientClose(c) \/ Receive(c)
  BY <1>2, ClientCloseNewer, ReceiveNewer
<1>3. CASE Retry \/ Dispatch
  BY <1>3, UserNewer
<1>4. CASE \E c \in DOMAIN connections : Open(c) \/ Break(c) \/ ServerClose(c)
  BY <1>4, ServerNewer
<1>5. CASE \E c \in DOMAIN connections : \E id \in connections[c].up : RouteRequest(c, id)
  BY <1>5, RouteNewer
<1>6. CASE \E h \in handling : Respond(h) \/ SnapshotFails(h)
  <2>1. PICK h \in handling : SendResponse(h, TRUE) \/ SendResponse(h, FALSE)
    BY <1>6 DEF Respond, SnapshotFails
  <2> QED
    BY <2>1, ResponseNewer
<1>7. CASE \E id \in DOMAIN transport.requests : RequestTimesOut(id)
  BY <1>7, TimeOutNewer
<1>8. CASE PushStep \/ CrashServer \/ StreamEvent \/ OtherCommand \/ UNCHANGED vars
  BY <1>8, ServerNewer
<1> QED
  BY <1>1, <1>2, <1>3, <1>4, <1>5, <1>6, <1>7, <1>8 DEF Next, ClientStep, ServerStep, FaultStep

LEMMA InitNewer == Init => NewerInv
<1> SUFFICES ASSUME Init PROVE NewerInv
  OBVIOUS
<1> DEFINE t == [InitTransport EXCEPT !.ws = 1]
           conns == <<Connection>>
<1>1. /\ transport = request(t, conns, "snapshot")[1]
      /\ connections = request(t, conns, "snapshot")[2]
      /\ log = <<>> /\ handling = {}
      /\ ui = [running |-> TRUE, pendingReason |-> FALSE, refreshTimer |-> FALSE,
               subscribed |-> FALSE, snapshot |-> 0]
  BY DEF Init
<1>2. DOMAIN conns = {1} /\ conns[1] = Connection /\ IsSeq(conns)
  <2>1. conns \in Seq({Connection}) /\ Len(conns) = 1 /\ conns[1] = Connection
    OBVIOUS
  <2>2. IsSeq(conns)
    BY <2>1 DEF IsSeq
  <2> HIDE DEF conns
  <2>3. DOMAIN conns = 1..1
    BY <2>1, <2>2, SeqFacts
  <2> QED
    BY <2>1, <2>2, <2>3
<1>3. t.requests = <<>> /\ t.ws = 1 /\ TransportFields \subseteq DOMAIN t
  BY DEF InitTransport, TransportFields
<1> HIDE DEF t, conns
<1>4. SoundAll(conns) /\ Attached(t, conns)
  BY <1>2, <1>3, NewIsSound DEF SoundAll, Attached
<1>5. Answers(conns) = {}
  BY <1>2, ResponsesOfNothing DEF Connection, Answers
<1>6. Results(conns, handling) = {}
  BY <1>1, <1>5 DEF Results
<1>7. AreRequests(t.requests) /\ Asked(t) = {}
  BY <1>3, NilFacts DEF AreRequests, Asked, pending
<1>8. Len(log) = 0
  BY <1>1, NilFacts
<1>9. NewerFor(t, conns, ui)
  BY <1>1, <1>6, <1>7, <1>8 DEF NewerFor, Newer, UiFields
<1>10. ui.running
  BY <1>1
<1> QED
  BY <1>1, <1>4, <1>7, <1>9, <1>10, RequestNewer DEF NewerInv

\* What is shown never goes back to an older state (ui.tsx, snapshotRefresh.ts): the runner
\* asks for one snapshot at a time, so the answer to a request that timed out finds nobody
\* waiting, and the one that is waited for was read after what is shown.
THEOREM SnapshotNeverGoesBackHolds == Spec => SnapshotNeverGoesBack
<1> DEFINE AllInv == ClientInv /\ PushInv /\ OnceInv /\ NewerInv
<1>1. Init => AllInv
  BY InitPush, InitOnce, InitNewer
<1>2. AllInv /\ [Next]_vars => AllInv' /\ [ui'.snapshot >= ui.snapshot]_ui
  BY StepKeepsPush, StepKeepsOnce, StepNewer DEF NeverBack
<1> QED
  BY <1>1, <1>2, PTL DEF Spec, SnapshotNeverGoesBack
=============================================================================
