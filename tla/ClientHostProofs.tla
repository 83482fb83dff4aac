--------------------------- MODULE ClientHostProofs ---------------------------
(***************************************************************************)
(* Proofs about ClientHost for any number of logs, turns, launches and     *)
(* upsets: the types, that every connection keeps the safety half of the   *)
(* request book, that a turn that has lost changes nothing, that the       *)
(* artifacts have one writer, that knowledge reaches the engine before a   *)
(* fold does, and that readiness and the reads it lets through are true.   *)
(***************************************************************************)
EXTENDS ClientHost, TLAPS

-----------------------------------------------------------------------------
(* The operators on a connection: each yields a connection, and says what it *)
(* leaves of the books, of the state and of what is on the way.              *)

LEMMA ConnectionFields ==
  ASSUME NEW c \in Connections
  PROVE  /\ c.state \in {"connecting", "ready", "failed", "closed"}
         /\ c.transport \in {"none", "open", "ended"}
         /\ c.next \in Nat \ {0}
         /\ c.pending \in SUBSET Nat
         /\ c.outbox \in Seq(Messages) /\ c.up \in Seq(Messages)
         /\ c.down \in Seq(Replies)
BY DEF Connections

LEMMA EndTransportFacts ==
  ASSUME NEW c \in Connections, NEW e, e = EndTransport(c)
  PROVE  /\ e \in Connections
         /\ e.state = c.state /\ e.next = c.next /\ e.pending = c.pending
         /\ e.outbox = c.outbox /\ e.up = c.up /\ e.down = <<>>
<1> DEFINE t == IF c.transport = "none" THEN c.transport ELSE "ended"
<1>1. e = [c EXCEPT !.transport = t, !.down = <<>>]
  BY DEF EndTransport
<1>2. t \in {"none", "open", "ended"} /\ <<>> \in Seq(Replies)
  BY ConnectionFields
<1> HIDE DEF t
<1> QED BY <1>1, <1>2 DEF Connections

LEMMA RejectFacts ==
  ASSUME NEW c \in Connections, NEW e, e = RejectAllPending(c)
  PROVE  /\ e \in Connections
         /\ e.state = c.state /\ e.next = c.next /\ e.up = c.up
         /\ e.transport = c.transport /\ e.down = c.down
         /\ e.pending = {} /\ e.outbox = <<>>
<1>1. e = [c EXCEPT !.pending = {}, !.outbox = <<>>]
  BY DEF RejectAllPending
<1>2. {} \in SUBSET Nat /\ <<>> \in Seq(Messages)
  OBVIOUS
<1> QED BY <1>1, <1>2 DEF Connections

LEMMA StateFacts ==
  ASSUME NEW c \in Connections, NEW s \in {"connecting", "ready", "failed", "closed"},
         NEW e, e = [c EXCEPT !.state = s]
  PROVE  /\ e \in Connections /\ e.state = s
         /\ e.next = c.next /\ e.up = c.up /\ e.pending = c.pending /\ e.outbox = c.outbox
         /\ e.transport = c.transport /\ e.down = c.down
BY DEF Connections

LEMMA FailFacts ==
  ASSUME NEW c \in Connections, Usable(c), NEW e, e = FailConnection(c)
  PROVE  /\ e \in Connections
         /\ e.state = "failed" /\ e.next = c.next /\ e.up = c.up
         /\ e.pending = {} /\ e.outbox = <<>> /\ e.down = <<>>
<1> DEFINE t == EndTransport(c)
           r == RejectAllPending(t)
<1>1. t \in Connections /\ t.next = c.next /\ t.up = c.up /\ t.down = <<>>
  BY EndTransportFacts
<1>2. /\ r \in Connections /\ r.next = c.next /\ r.up = c.up
      /\ r.pending = {} /\ r.outbox = <<>> /\ r.down = <<>>
  <2> HIDE DEF t
  <2> QED BY <1>1, RejectFacts
<1>3. e = [r EXCEPT !.state = "failed"]
  BY DEF FailConnection
<1> HIDE DEF t, r
<1> QED BY <1>2, <1>3, StateFacts

\* A closed connection: nothing pending, and no way back.
LEMMA CloseFacts ==
  ASSUME NEW c \in Connections, NEW e, e = Close(c)
  PROVE  /\ e \in Connections /\ e.next = c.next /\ ~Usable(e)
         /\ (e = c /\ ~Usable(c)) \/ (e.pending = {} /\ e.outbox = <<>>)
<1>1. CASE c.state = "closed"
  BY <1>1 DEF Close, Usable
<1>2. CASE c.state # "closed"
  <2> DEFINE t == EndTransport(c)
             r == RejectAllPending(t)
  <2>1. t \in Connections /\ t.next = c.next
    BY EndTransportFacts
  <2>2. r \in Connections /\ r.next = c.next /\ r.pending = {} /\ r.outbox = <<>>
    <3> HIDE DEF t
    <3> QED BY <2>1, RejectFacts
  <2>3. e = [r EXCEPT !.state = "closed"]
    BY <1>2 DEF Close
  <2> HIDE DEF t, r
  <2> QED BY <2>2, <2>3, StateFacts DEF Usable
<1> QED BY <1>1, <1>2

\* What waits for the engine, in the order it will be handled.
Queue(c) == c.up \o c.outbox

\* Only a connection that is shaking hands holds anything back.
Flushed(c) == c.state # "connecting" => c.outbox = <<>>

Booked(c) == c.pending \subseteq 1 .. c.next - 1

LEMMA AppendLast ==
  ASSUME NEW s \in Seq(Messages), NEW t \in Seq(Messages), NEW m \in Messages
  PROVE  s \o Append(t, m) = Append(s \o t, m)
<1> DEFINE S == Messages
<1>1. s \in Seq(S) /\ t \in Seq(S) /\ m \in S
  OBVIOUS
<1> HIDE DEF S
<1> QED BY <1>1, SMT

LEMMA EmptyRight ==
  ASSUME NEW S, NEW s \in Seq(S)
  PROVE  s \o <<>> = s /\ <<>> \o s = s
BY SMT

LEMMA StampFacts ==
  ASSUME NEW m \in Messages, NEW id \in Nat, NEW e, e = [m EXCEPT !.id = id]
  PROVE  /\ e \in Messages /\ e.id = id /\ e.op = m.op /\ e.log = m.log /\ e.define = m.define
BY DEF Messages

\* A request is booked and queued, or it fails and takes the others with it.
LEMMA RequestFacts ==
  ASSUME NEW c \in Connections, Usable(c), Flushed(c), Booked(c), NEW m \in Messages,
         NEW e, e = Request(c, m)
  PROVE  /\ e \in Connections /\ e.next = c.next + 1 /\ Flushed(e) /\ Booked(e)
         /\ \/ /\ e.pending = c.pending \cup {c.next}
               /\ e.state = c.state /\ e.transport = c.transport /\ e.down = c.down
               /\ Queue(e) = Append(Queue(c), [m EXCEPT !.id = c.next])
            \/ /\ e.pending = {} /\ e.state = "failed" /\ e.up = c.up /\ e.outbox = <<>>
               /\ e.down = <<>>
<1> DEFINE k == [c EXCEPT !.next = c.next + 1, !.pending = c.pending \cup {c.next}]
           n == [m EXCEPT !.id = c.next]
<1>1. /\ c.next \in Nat \ {0} /\ c.pending \in SUBSET Nat
      /\ c.outbox \in Seq(Messages) /\ c.up \in Seq(Messages)
  BY ConnectionFields
<1>2. n \in Messages
  BY <1>1, StampFacts
<1>3. k \in Connections
  <2>1. c.next + 1 \in Nat \ {0} /\ c.pending \cup {c.next} \in SUBSET Nat
    BY <1>1
  <2> QED BY <2>1 DEF Connections
<1>4. /\ k.next = c.next + 1 /\ k.pending = c.pending \cup {c.next} /\ k.state = c.state
      /\ k.transport = c.transport /\ k.outbox = c.outbox /\ k.up = c.up /\ k.down = c.down
  BY DEF Connections
<1>5. e = Send(k, n)
  BY DEF Request
<1>6. c.pending \cup {c.next} \subseteq 1 .. c.next
  BY <1>1 DEF Booked
<1>7. CASE c.state = "ready" /\ c.transport = "open"
  <2>1. e = [k EXCEPT !.up = Append(c.up, n)] /\ c.outbox = <<>>
    <3> HIDE DEF k, n
    <3> QED BY <1>4, <1>5, <1>7 DEF Send, SendNow, Flushed
  <2>2. Append(c.up, n) \in Seq(Messages)
    BY <1>1, <1>2
  <2>3. /\ e \in Connections /\ e.up = Append(c.up, n) /\ e.next = k.next /\ e.pending = k.pending
        /\ e.state = k.state /\ e.transport = k.transport /\ e.outbox = k.outbox /\ e.down = k.down
    <3> HIDE DEF k, n
    <3> QED BY <1>3, <2>1, <2>2 DEF Connections
  <2>4. Queue(e) = Append(Queue(c), n)
    <3> HIDE DEF k, n
    <3> QED BY <1>1, <1>4, <2>1, <2>2, <2>3, EmptyRight DEF Queue
  <2> QED
    <3> HIDE DEF k, n
    <3>1. Flushed(e) /\ Booked(e)
      BY <1>1, <1>4, <1>6, <2>1, <2>3 DEF Flushed, Booked
    <3> QED BY <1>4, <2>3, <2>4, <3>1 DEF n
<1>8. CASE c.state = "ready" /\ c.transport # "open"
  <2>1. e = FailConnection(k) /\ Usable(k)
    <3> HIDE DEF k, n
    <3> QED BY <1>4, <1>5, <1>8 DEF Send, SendNow, Usable
  <2>2. /\ e \in Connections /\ e.state = "failed" /\ e.next = k.next /\ e.up = k.up
        /\ e.pending = {} /\ e.outbox = <<>> /\ e.down = <<>>
    <3> HIDE DEF k, n
    <3> QED BY <1>3, <2>1, FailFacts
  <2> QED
    <3> HIDE DEF k, n
    <3> QED BY <1>1, <1>4, <2>2 DEF Flushed, Booked
<1>9. CASE c.state = "connecting"
  <2>1. e = [k EXCEPT !.outbox = Append(c.outbox, n)]
    <3> HIDE DEF k, n
    <3> QED BY <1>4, <1>5, <1>9 DEF Send
  <2>2. Append(c.outbox, n) \in Seq(Messages)
    BY <1>1, <1>2
  <2>3. /\ e \in Connections /\ e.outbox = Append(c.outbox, n) /\ e.next = k.next
        /\ e.pending = k.pending /\ e.state = k.state /\ e.transport = k.transport
        /\ e.up = k.up /\ e.down = k.down
    <3> HIDE DEF k, n
    <3> QED BY <1>3, <2>1, <2>2 DEF Connections
  <2>4. Queue(e) = Append(Queue(c), n)
    <3> HIDE DEF k, n
    <3>1. c.up \o Append(c.outbox, n) = Append(c.up \o c.outbox, n)
      BY <1>1, <1>2, AppendLast
    <3>2. e.up = c.up /\ e.outbox = Append(c.outbox, n)
      BY <1>4, <2>3
    <3> QED BY ONLY <3>1, <3>2 DEF Queue
  <2> QED
    <3> HIDE DEF k, n
    <3>1. Flushed(e) /\ Booked(e)
      BY <1>1, <1>4, <1>6, <1>9, <2>3 DEF Flushed, Booked
    <3> QED BY <1>4, <2>3, <2>4, <3>1 DEF n
<1> QED BY <1>7, <1>8, <1>9 DEF Usable

\* The transport of a connection that never had one.
LEMMA AttachFacts ==
  ASSUME NEW c \in Connections, c.transport = "none", NEW e, e = AttachTransport(c)
  PROVE  /\ e \in Connections /\ e.next = c.next /\ e.pending = c.pending
         /\ e.state = "connecting" /\ e.transport = "open" /\ e.down = <<>>
         /\ e.up = <<Hello>> /\ e.outbox = c.outbox
<1> DEFINE k == [c EXCEPT !.transport = "open", !.state = "connecting", !.up = <<>>, !.down = <<>>]
<1>1. Hello \in Messages
  BY DEF Hello, Message, Messages, LogOrNone
<1>2. <<>> \in Seq(Messages) /\ <<>> \in Seq(Replies)
  OBVIOUS
<1>3. k \in Connections
  BY <1>2 DEF Connections
<1>4. /\ k.next = c.next /\ k.pending = c.pending /\ k.outbox = c.outbox /\ k.up = <<>>
      /\ k.state = "connecting" /\ k.transport = "open" /\ k.down = <<>>
  BY DEF Connections
<1>5. e = [k EXCEPT !.up = Append(<<>>, Hello)]
  <2>1. e = SendNow(k, Hello)
    BY DEF AttachTransport
  <2> HIDE DEF k
  <2> QED BY <1>4, <2>1 DEF SendNow
<1>6. Append(<<>>, Hello) \in Seq(Messages)
  BY <1>1
<1>7. Append(<<>>, Hello) = <<Hello>>
  BY <1>1
<1> DEFINE q == Append(<<>>, Hello)
<1>8. /\ e \in Connections /\ e.next = k.next /\ e.pending = k.pending /\ e.state = k.state
      /\ e.transport = k.transport /\ e.down = k.down /\ e.outbox = k.outbox /\ e.up = q
  <2> HIDE DEF k, q
  <2> QED BY <1>3, <1>5, <1>6 DEF Connections, q
<1> HIDE DEF k
<1> QED BY <1>4, <1>7, <1>8

\* The handshake's end lets what was held back go, in order.
LEMMA HelloFacts ==
  ASSUME NEW c \in Connections, Flushed(c), NEW e, e = OnHelloReply(c, TRUE)
  PROVE  /\ e \in Connections /\ e.next = c.next /\ e.pending = c.pending /\ Flushed(e)
         /\ e.transport = c.transport /\ e.down = c.down
         /\ Queue(e) = Queue(c)
         /\ e.state = IF c.state = "connecting" THEN "ready" ELSE c.state
<1>1. c.outbox \in Seq(Messages) /\ c.up \in Seq(Messages)
  BY ConnectionFields
<1>2. CASE c.state # "connecting"
  BY <1>2 DEF OnHelloReply
<1>3. CASE c.state = "connecting"
  <2> DEFINE q == c.up \o c.outbox
  <2>1. e = [c EXCEPT !.state = "ready", !.outbox = <<>>, !.up = q]
    BY <1>3 DEF OnHelloReply
  <2>2. q \in Seq(Messages) /\ <<>> \in Seq(Messages)
    BY <1>1
  <2>3. Queue(c) = q
    BY DEF Queue
  <2> HIDE DEF q
  <2>4. /\ e \in Connections /\ e.next = c.next /\ e.pending = c.pending /\ e.state = "ready"
        /\ e.transport = c.transport /\ e.down = c.down /\ e.up = q /\ e.outbox = <<>>
    BY <2>1, <2>2 DEF Connections
  <2> QED BY <1>3, <2>2, <2>3, <2>4, EmptyRight DEF Queue, Flushed
<1> QED BY <1>2, <1>3

LEMMA TakeFacts ==
  ASSUME NEW c \in Connections, NEW id, NEW e, e = TakePending(c, id)
  PROVE  /\ e \in Connections /\ e.next = c.next /\ e.pending = c.pending \ {id}
         /\ e.state = c.state /\ e.transport = c.transport
         /\ e.up = c.up /\ e.outbox = c.outbox /\ e.down = c.down
<1>1. c.pending \ {id} \in SUBSET Nat
  BY ConnectionFields
<1> QED BY <1>1 DEF TakePending, Connections

-----------------------------------------------------------------------------
(* Types. *)

PCs == {"none", "connect", "overtaken", "noConnection", "logdir", "idle", "define", "attach",
        "health", "rest", "done", "gaveUp", "lost"}

\* No turn has begun that the app did not count.
Unborn == \A g \in Turns : g > gen => turn[g].pc = "none"

\* The connection a turn is still opening has never had a transport.
Fresh ==
  gen \in Turns /\ turn[gen].pc = "connect" =>
    conn.transport = "none" /\ conn.state = "connecting" /\ conn.up = <<>>

Counted == ~stopped => gen <= MaxTurns

\* The types, and what the bookkeeping of turns and connections adds to them.
TypeInv == TypeOK /\ Counted /\ Flushed(conn) /\ Unborn /\ Fresh

LEMMA OutcomeTypes ==
  /\ Unanswered \in Outcomes /\ Refused \in Outcomes
  /\ \A s \in {"none", "idle", "folding", "live"}, l \in LogOrNone : Answer(s, l) \in Outcomes
BY DEF Unanswered, Refused, Answer, Outcomes, LogOrNone

LEMMA MessageType ==
  ASSUME NEW op \in {"hello", "setDir", "define", "attach", "health", "snapshot"},
         NEW l \in LogOrNone, NEW d \in Nat
  PROVE  /\ Message(op, l, d) \in Messages /\ Message(op, l, d).op = op
         /\ Message(op, l, d).log = l /\ Message(op, l, d).define = d
BY DEF Message, Messages

LEMMA WaitTypes ==
  /\ NoWait \in Waits
  /\ \A id \in Nat, o \in Outcomes : [id |-> id, got |-> o] \in Waits
BY OutcomeTypes DEF NoWait, Waits

LEMMA SettledType ==
  ASSUME await \in [Askers -> Waits], NEW ids, NEW o \in Outcomes
  PROVE  Settled(ids, o) \in [Askers -> Waits]
BY WaitTypes DEF Settled

LEMMA NoTurnType == NoTurn \in TurnStates /\ NoTurn.pc = "none"
<1>1. 0 \in 0 .. DefineOps /\ 0 \in 0 .. RefusalLimit
  BY HostAssumption
<1> QED BY <1>1 DEF NoTurn, TurnStates, LogOrNone

LEMMA TurnPc ==
  ASSUME NEW t \in TurnStates, NEW p \in PCs
  PROVE  [t EXCEPT !.pc = p] \in TurnStates /\ [t EXCEPT !.pc = p].pc = p
BY DEF TurnStates, PCs

LEMMA TurnBegins ==
  ASSUME NEW l \in LogOrNone, NEW t, t = [NoTurn EXCEPT !.pc = "define", !.target = l, !.left = DefineOps]
  PROVE  t \in TurnStates /\ t.pc = "define" /\ t.target = l
<1>1. DefineOps \in 0 .. DefineOps
  BY HostAssumption
<1> QED BY <1>1, NoTurnType DEF TurnStates

\* One turn moves: the others stay, and it stands where it went.
LEMMA TurnMoves ==
  ASSUME turn \in [Turns -> TurnStates], NEW g \in Turns, NEW t \in TurnStates,
         turn' = [turn EXCEPT ![g] = t]
  PROVE  /\ turn' \in [Turns -> TurnStates] /\ turn'[g] = t
         /\ \A k \in Turns \ {g} : turn'[k] = turn[k]
OBVIOUS

\* Asking on a connection: the request is booked there, or refused at once.
LEMMA AsksFacts ==
  ASSUME NEW c \in Connections, Flushed(c), Booked(c), NEW m \in Messages, NEW a \in Askers,
         await \in [Askers -> Waits], Asks(a, c, m)
  PROVE  /\ conn' \in Connections /\ Flushed(conn)' /\ Booked(conn)'
         /\ await' \in [Askers -> Waits]
         /\ IF Usable(c) THEN conn' = Request(c, m) ELSE conn' = c
<1> DEFINE sent == IF Usable(c) THEN Request(c, m) ELSE c
           wait == IF c.next \in sent.pending
                   THEN [id |-> c.next, got |-> Unanswered]
                   ELSE [id |-> 0, got |-> Refused]
           base == Settled(c.pending \ sent.pending, Refused)
<1>1. conn' = sent /\ await' = [base EXCEPT ![a] = wait]
  BY DEF Asks
<1>2. wait \in Waits
  BY WaitTypes, OutcomeTypes, ConnectionFields
<1>3. base \in [Askers -> Waits]
  BY SettledType, OutcomeTypes
<1>4. await' \in [Askers -> Waits]
  <2> HIDE DEF base, wait
  <2> QED BY <1>1, <1>2, <1>3
<1>5. CASE Usable(c)
  BY <1>1, <1>4, <1>5, RequestFacts DEF Flushed, Booked
<1>6. CASE ~Usable(c)
  BY <1>1, <1>4, <1>6 DEF Flushed, Booked
<1> QED BY <1>5, <1>6

LEMMA ReconnectedFacts ==
  ASSUME NEW c, await \in [Askers -> Waits], Reconnected(c)
  PROVE  conn' = c /\ await' \in [Askers -> Waits]
BY SettledType, OutcomeTypes DEF Reconnected

LEMMA BecomesFacts ==
  ASSUME turn \in [Turns -> TurnStates], NEW g \in Turns, NEW p \in PCs, Becomes(g, p)
  PROVE  \E t \in TurnStates : turn' = [turn EXCEPT ![g] = t] /\ t.pc = p
<1> DEFINE t == [turn[g] EXCEPT !.pc = p]
<1>1. turn' = [turn EXCEPT ![g] = t]
  BY DEF Becomes
<1>2. t \in TurnStates /\ t.pc = p
  BY TurnPc
<1> HIDE DEF t
<1> QED BY <1>1, <1>2

LEMMA EndsFacts ==
  ASSUME turn \in [Turns -> TurnStates], NEW g \in Turns, NEW p \in PCs, Ends(g, p)
  PROVE  \E t \in TurnStates : turn' = [turn EXCEPT ![g] = t] /\ t.pc = p
<1> DEFINE t == [NoTurn EXCEPT !.pc = p]
<1>1. turn' = [turn EXCEPT ![g] = t]
  BY DEF Ends
<1>2. t \in TurnStates /\ t.pc = p
  BY TurnPc, NoTurnType
<1> HIDE DEF t
<1> QED BY <1>1, <1>2

\* What a connection may become by one of the app's requests, or by none.
Requested(c, d) == d = c \/ \E m \in Messages : Usable(c) /\ d = Request(c, m)

LEMMA RequestedFacts ==
  ASSUME NEW c \in Connections, Flushed(c), Booked(c), NEW d, Requested(c, d)
  PROVE  d \in Connections /\ Flushed(d) /\ Booked(d)
BY RequestFacts DEF Requested

\* attachAndProbe asks for its first define, or has nothing to attach.
LEMMA ProbeFacts ==
  ASSUME NEW c \in Connections, Flushed(c), Booked(c), NEW l \in LogOrNone, NEW g \in Turns,
         turn \in [Turns -> TurnStates], await \in [Askers -> Waits], prefs \in Nat,
         AttachAndProbe(g, c, l)
  PROVE  /\ \E t \in TurnStates : turn' = [turn EXCEPT ![g] = t] /\ t.pc \in {"idle", "define"}
         /\ Requested(c, conn') /\ await' \in [Askers -> Waits]
<1>1. g \in Askers
  BY DEF Askers
<1>2. CASE l = None
  <2>1. Becomes(g, "idle") /\ conn' = c /\ await' = [await EXCEPT ![g] = NoWait]
    BY <1>2 DEF AttachAndProbe, Becomes
  <2>2. await' \in [Askers -> Waits]
    BY <1>1, <2>1, WaitTypes
  <2> QED BY <2>1, <2>2, BecomesFacts DEF Requested, PCs
<1>3. CASE l # None
  <2> DEFINE t == [NoTurn EXCEPT !.pc = "define", !.target = l, !.left = DefineOps]
  <2>1. turn' = [turn EXCEPT ![g] = t] /\ Asks(g, c, DefineNow)
    BY <1>3 DEF AttachAndProbe
  <2>2. DefineNow \in Messages
    BY MessageType DEF DefineNow, LogOrNone
  <2>3. t \in TurnStates /\ t.pc = "define"
    BY TurnBegins, Zenon
  <2> HIDE DEF t
  <2>4. await' \in [Askers -> Waits] /\ IF Usable(c) THEN conn' = Request(c, DefineNow) ELSE conn' = c
    BY <1>1, <2>1, <2>2, AsksFacts
  <2> QED BY <2>1, <2>2, <2>3, <2>4 DEF Requested
<1> QED BY <1>2, <1>3

\* What every step of a turn has in common.
TurnMoved(g) ==
  /\ \E t \in TurnStates : turn' = [turn EXCEPT ![g] = t] /\ t.pc \notin {"none", "connect"}
  /\ \/ Requested(conn, conn')
     \/ /\ turn[g].pc = "connect" /\ conn.transport = "none"
        /\ Requested(AttachTransport(conn), conn')
  /\ g # gen => conn' = conn
  /\ await' \in [Askers -> Waits]
  /\ attachedTo' \in LogOrNone /\ liveOn' \in LogOrNone /\ owner' \in {"app", "engine"}
  /\ UNCHANGED <<gen, world, active, live, stopped, engine, prefs, read, spent>>

LEMMA TurnStepMoves ==
  ASSUME TypeInv, NEW g \in Turns, TurnStep(g)
  PROVE  TurnMoved(g)
<1>1. /\ turn \in [Turns -> TurnStates] /\ await \in [Askers -> Waits] /\ conn \in Connections
      /\ Flushed(conn) /\ Booked(conn) /\ turn[g] \in TurnStates /\ g \in Askers
  BY DEF TypeInv, TypeOK, Booked, Askers
<1>2. /\ attachedTo \in LogOrNone /\ liveOn \in LogOrNone /\ owner \in {"app", "engine"}
      /\ prefs \in Nat /\ None \in LogOrNone /\ world \in LogOrNone /\ active \in LogOrNone
  BY HostAssumption DEF TypeInv, TypeOK, LogOrNone
<1>3. turn[g].target \in LogOrNone
  BY <1>1 DEF TurnStates
<1>4. [await EXCEPT ![g] = NoWait] \in [Askers -> Waits]
  BY <1>1, WaitTypes
<1>5. ASSUME NEW m \in Messages, Asks(g, conn, m)
      PROVE  Requested(conn, conn') /\ await' \in [Askers -> Waits]
  <2>1. await' \in [Askers -> Waits] /\ IF Usable(conn) THEN conn' = Request(conn, m) ELSE conn' = conn
    BY <1>1, <1>5, AsksFacts
  <2> QED BY <2>1 DEF Requested
<1>6. ASSUME AskHealth(g) PROVE Requested(conn, conn') /\ await' \in [Askers -> Waits]
  BY <1>2, <1>5, <1>6, MessageType DEF AskHealth
<1>7. CASE Connected(g)
  <2>1. UNCHANGED <<hostVars, engine, prefs, read, spent>>
    BY <1>7 DEF Connected
  <2>2. CASE g = gen
    <3>1. /\ turn[g].pc = "connect" /\ Becomes(g, "logdir")
          /\ Asks(g, AttachTransport(conn), Message("setDir", None, 0))
      BY <1>7, <2>2 DEF Connected
    <3>2. conn.transport = "none" /\ conn.state = "connecting"
      BY <2>2, <3>1 DEF TypeInv, Fresh
    <3> DEFINE c == AttachTransport(conn)
    <3>3. c \in Connections /\ Flushed(c) /\ Booked(c) /\ c = AttachTransport(conn)
      <4>1. c \in Connections /\ c.next = conn.next /\ c.pending = conn.pending /\ c.state = "connecting"
        BY <1>1, <3>2, AttachFacts
      <4> QED BY <1>1, <4>1 DEF Flushed, Booked
    <3>4. Message("setDir", None, 0) \in Messages
      BY <1>2, MessageType
    <3> HIDE DEF c
    <3>5. await' \in [Askers -> Waits] /\ Requested(c, conn')
      <4>1. Asks(g, c, Message("setDir", None, 0))
        BY <3>1, <3>3
      <4>2. /\ await' \in [Askers -> Waits]
            /\ IF Usable(c) THEN conn' = Request(c, Message("setDir", None, 0)) ELSE conn' = c
        BY <1>1, <3>3, <3>4, <4>1, AsksFacts
      <4> QED BY <3>4, <4>2 DEF Requested
    <3>6. \E t \in TurnStates : turn' = [turn EXCEPT ![g] = t] /\ t.pc = "logdir"
      BY <1>1, <3>1, BecomesFacts DEF PCs
    <3> QED BY <1>2, <2>1, <2>2, <3>1, <3>2, <3>3, <3>5, <3>6 DEF TurnMoved, hostVars
  <2>3. CASE g # gen
    <3>1. Ends(g, "overtaken") /\ UNCHANGED <<conn, await>>
      BY <1>7, <2>3 DEF Connected
    <3>2. \E t \in TurnStates : turn' = [turn EXCEPT ![g] = t] /\ t.pc = "overtaken"
      BY <1>1, <3>1, EndsFacts DEF PCs
    <3> QED BY <1>1, <1>2, <2>1, <3>1, <3>2 DEF TurnMoved, hostVars, Requested
  <2> QED BY <2>2, <2>3
<1>8. CASE CouldNotConnect(g)
  <2>1. Ends(g, "noConnection") /\ UNCHANGED <<hostVars, conn, await, engine, prefs, read, spent>>
    BY <1>8 DEF CouldNotConnect
  <2>2. \E t \in TurnStates : turn' = [turn EXCEPT ![g] = t] /\ t.pc = "noConnection"
    BY <1>1, <2>1, EndsFacts DEF PCs
  <2> QED BY <1>1, <1>2, <2>1, <2>2 DEF TurnMoved, hostVars, Requested
<1>9. CASE Lost(g)
  <2>1. /\ Ends(g, "lost") /\ UNCHANGED <<hostVars, conn, engine, prefs, read, spent>>
        /\ await' = [await EXCEPT ![g] = NoWait]
    BY <1>9 DEF Lost
  <2>2. \E t \in TurnStates : turn' = [turn EXCEPT ![g] = t] /\ t.pc = "lost"
    BY <1>1, <2>1, EndsFacts DEF PCs
  <2> QED BY <1>1, <1>2, <1>4, <2>1, <2>2 DEF TurnMoved, hostVars, Requested
<1>10. CASE LogDirPushed(g)
  <2>1. /\ g = gen /\ AttachAndProbe(g, conn, AttachTarget)
        /\ UNCHANGED <<hostVars, engine, prefs, read, spent>>
    BY <1>10 DEF LogDirPushed
  <2>2. AttachTarget \in LogOrNone
    BY <1>2 DEF AttachTarget
  <2>3. /\ \E t \in TurnStates : turn' = [turn EXCEPT ![g] = t] /\ t.pc \in {"idle", "define"}
        /\ Requested(conn, conn') /\ await' \in [Askers -> Waits]
    BY <1>1, <1>2, <2>1, <2>2, ProbeFacts
  <2> QED BY <1>2, <2>1, <2>3 DEF TurnMoved, hostVars
<1>11. CASE DefinePushed(g)
  <2>1. /\ g = gen /\ turn[g].pc = "define"
        /\ UNCHANGED <<gen, world, active, live, attachedTo, liveOn, stopped, engine, prefs, read, spent>>
    BY <1>11 DEF DefinePushed, Resumes
  <2>2. CASE turn[g].left > 1
    <3>1. turn' = [turn EXCEPT ![g].left = @ - 1] /\ Asks(g, conn, DefineNow) /\ owner' = owner
      BY <1>11, <2>2 DEF DefinePushed
    <3> DEFINE t == [turn[g] EXCEPT !.left = turn[g].left - 1]
    <3>2. t \in TurnStates /\ t.pc = "define"
      <4>1. turn[g].left \in 0 .. DefineOps /\ DefineOps \in Nat
        BY <1>1, HostAssumption DEF TurnStates
      <4>2. turn[g].left - 1 \in 0 .. DefineOps
        BY <2>2, <4>1
      <4> QED BY <1>1, <2>1, <4>2 DEF TurnStates
    <3>3. turn' = [turn EXCEPT ![g] = t]
      BY <3>1
    <3>4. Requested(conn, conn') /\ await' \in [Askers -> Waits]
      BY <1>2, <1>5, <3>1, MessageType DEF DefineNow
    <3> HIDE DEF t
    <3> QED BY <1>2, <2>1, <3>1, <3>2, <3>3, <3>4 DEF TurnMoved
  <2>3. CASE ~(turn[g].left > 1) /\ attachedTo # turn[g].target
    <3>1. Becomes(g, "attach") /\ owner' = "engine" /\ Asks(g, conn, Message("attach", turn[g].target, 0))
      BY <1>11, <2>3 DEF DefinePushed, SendAttach
    <3>2. \E t \in TurnStates : turn' = [turn EXCEPT ![g] = t] /\ t.pc = "attach"
      BY <1>1, <3>1, BecomesFacts DEF PCs
    <3>3. Requested(conn, conn') /\ await' \in [Askers -> Waits]
      BY <1>3, <1>5, <3>1, MessageType
    <3> QED BY <1>2, <2>1, <3>1, <3>2, <3>3 DEF TurnMoved
  <2>4. CASE ~(turn[g].left > 1) /\ attachedTo = turn[g].target
    <3>1. Becomes(g, "health") /\ owner' = owner /\ AskHealth(g)
      BY <1>11, <2>4 DEF DefinePushed
    <3>2. \E t \in TurnStates : turn' = [turn EXCEPT ![g] = t] /\ t.pc = "health"
      BY <1>1, <3>1, BecomesFacts DEF PCs
    <3> QED BY <1>2, <1>6, <2>1, <3>1, <3>2 DEF TurnMoved
  <2> QED BY <2>2, <2>3, <2>4
<1>12. CASE AttachAnswered(g)
  <2>1. /\ g = gen
        /\ UNCHANGED <<gen, world, active, live, liveOn, owner, stopped, engine, prefs, read, spent>>
    BY <1>12 DEF AttachAnswered
  <2>2. CASE await[g].got = Refused
    <3>1. Ends(g, "gaveUp") /\ await' = [await EXCEPT ![g] = NoWait] /\ UNCHANGED <<attachedTo, conn>>
      BY <1>12, <2>2 DEF AttachAnswered
    <3>2. \E t \in TurnStates : turn' = [turn EXCEPT ![g] = t] /\ t.pc = "gaveUp"
      BY <1>1, <3>1, EndsFacts DEF PCs
    <3> QED BY <1>2, <1>4, <2>1, <3>1, <3>2 DEF TurnMoved, Requested
  <2>3. CASE await[g].got # Refused
    <3>1. Becomes(g, "health") /\ attachedTo' = turn[g].target /\ AskHealth(g)
      BY <1>12, <2>3 DEF AttachAnswered
    <3>2. \E t \in TurnStates : turn' = [turn EXCEPT ![g] = t] /\ t.pc = "health"
      BY <1>1, <3>1, BecomesFacts DEF PCs
    <3> QED BY <1>2, <1>3, <1>6, <2>1, <3>1, <3>2 DEF TurnMoved
  <2> QED BY <2>2, <2>3
<1>13. CASE HealthAnswered(g)
  <2>1. /\ await' = [await EXCEPT ![g] = NoWait] /\ liveOn' \in {liveOn, attachedTo}
        /\ UNCHANGED <<gen, world, active, live, attachedTo, owner, stopped, conn, engine, prefs,
                       read, spent>>
    BY <1>13 DEF HealthAnswered
  <2>2. \/ Ends(g, "gaveUp") \/ Ends(g, "done")
        \/ /\ turn[g].refusals + 1 < RefusalLimit
           /\ turn' = [turn EXCEPT ![g].refusals = turn[g].refusals + 1, ![g].pc = "rest"]
        \/ turn' = [turn EXCEPT ![g].refusals = 0, ![g].polls = @ + 1, ![g].pc = "rest"]
    <3>1. turn[g].refusals \in Nat /\ RefusalLimit \in Nat
      BY <1>1, HostAssumption DEF TurnStates
    <3> QED BY <1>13, <3>1 DEF HealthAnswered
  <2>3. \E t \in TurnStates : turn' = [turn EXCEPT ![g] = t] /\ t.pc \in {"gaveUp", "done", "rest"}
    <3>1. CASE Ends(g, "gaveUp") \/ Ends(g, "done")
      BY <1>1, <3>1, EndsFacts DEF PCs
    <3>2. CASE /\ turn[g].refusals + 1 < RefusalLimit
               /\ turn' = [turn EXCEPT ![g].refusals = turn[g].refusals + 1, ![g].pc = "rest"]
      <4> DEFINE t == [turn[g] EXCEPT !.refusals = turn[g].refusals + 1, !.pc = "rest"]
      <4>1. turn[g].refusals + 1 \in 0 .. RefusalLimit
        BY <1>1, <3>2, HostAssumption DEF TurnStates
      <4>2. t \in TurnStates /\ t.pc = "rest"
        BY <1>1, <4>1 DEF TurnStates
      <4>3. turn' = [turn EXCEPT ![g] = t]
        BY <1>1, <3>2
      <4> HIDE DEF t
      <4> QED BY <4>2, <4>3
    <3>3. CASE turn' = [turn EXCEPT ![g].refusals = 0, ![g].polls = @ + 1, ![g].pc = "rest"]
      <4> DEFINE n == turn[g].polls + 1
                 t == [turn[g] EXCEPT !.refusals = 0, !.polls = n, !.pc = "rest"]
      <4>1. n \in Nat /\ 0 \in 0 .. RefusalLimit
        BY <1>1, HostAssumption DEF TurnStates
      <4>2. t \in TurnStates /\ t.pc = "rest"
        <5> HIDE DEF n
        <5> QED BY <1>1, <4>1 DEF TurnStates
      <4>3. turn' = [turn EXCEPT ![g] = t]
        BY <1>1, <3>3
      <4> HIDE DEF t
      <4> QED BY <4>2, <4>3
    <3> QED BY <2>2, <3>1, <3>2, <3>3
  <2> QED BY <1>2, <1>4, <2>1, <2>3 DEF TurnMoved, Requested
<1>14. CASE Rested(g)
  <2>1. UNCHANGED <<hostVars, engine, prefs, read, spent>>
    BY <1>14 DEF Rested
  <2>2. CASE g = gen
    <3>1. Becomes(g, "health") /\ AskHealth(g)
      BY <1>14, <2>2 DEF Rested
    <3>2. \E t \in TurnStates : turn' = [turn EXCEPT ![g] = t] /\ t.pc = "health"
      BY <1>1, <3>1, BecomesFacts DEF PCs
    <3> QED BY <1>2, <1>6, <2>1, <2>2, <3>1, <3>2 DEF TurnMoved, hostVars
  <2>3. CASE g # gen
    <3>1. Ends(g, "lost") /\ UNCHANGED <<conn, await>>
      BY <1>14, <2>3 DEF Rested
    <3>2. \E t \in TurnStates : turn' = [turn EXCEPT ![g] = t] /\ t.pc = "lost"
      BY <1>1, <3>1, EndsFacts DEF PCs
    <3> QED BY <1>1, <1>2, <2>1, <3>1, <3>2 DEF TurnMoved, hostVars, Requested
  <2> QED BY <2>2, <2>3
<1> QED
  BY <1>7, <1>8, <1>9, <1>10, <1>11, <1>12, <1>13, <1>14 DEF TurnStep

\* A turn's step keeps the types.
LEMMA TurnStepTypes ==
  ASSUME TypeInv, NEW g \in Turns, TurnStep(g)
  PROVE  TypeInv'
<1>1. TurnMoved(g)
  BY TurnStepMoves
<1>2. PICK t \in TurnStates : turn' = [turn EXCEPT ![g] = t] /\ t.pc \notin {"none", "connect"}
  BY <1>1 DEF TurnMoved
<1>3. /\ turn' \in [Turns -> TurnStates] /\ turn'[g] = t /\ \A k \in Turns \ {g} : turn'[k] = turn[k]
  BY <1>2, TurnMoves DEF TypeInv, TypeOK
<1>4. conn' \in Connections /\ Flushed(conn)' /\ Booked(conn)'
  <2>1. conn \in Connections /\ Flushed(conn) /\ Booked(conn)
    BY DEF TypeInv, TypeOK, Booked
  <2>2. CASE Requested(conn, conn')
    BY <2>1, <2>2, RequestedFacts DEF Flushed, Booked
  <2>3. CASE conn.transport = "none" /\ Requested(AttachTransport(conn), conn')
    <3> DEFINE c == AttachTransport(conn)
    <3>1. c \in Connections /\ c.next = conn.next /\ c.pending = conn.pending /\ c.state = "connecting"
      BY <2>1, <2>3, AttachFacts
    <3>2. Flushed(c) /\ Booked(c) /\ Requested(c, conn')
      BY <2>1, <2>3, <3>1 DEF Flushed, Booked
    <3> HIDE DEF c
    <3> QED BY <3>1, <3>2, RequestedFacts DEF Flushed, Booked
  <2> QED BY <1>1, <2>2, <2>3 DEF TurnMoved
<1>5. turn[g].pc # "none"
  BY DEF TurnStep, Connected, CouldNotConnect, Lost, LogDirPushed, DefinePushed, AttachAnswered,
         HealthAnswered, Rested, Resumes
<1>6. Unborn' /\ Counted'
  BY <1>1, <1>2, <1>3, <1>5 DEF TypeInv, Unborn, Counted, TurnMoved
<1>7. Fresh'
  <2> SUFFICES ASSUME gen \in Turns, turn'[gen].pc = "connect"
               PROVE  (conn.transport = "none" /\ conn.state = "connecting" /\ conn.up = <<>>)'
    BY <1>1 DEF Fresh, TurnMoved
  <2>1. gen # g
    BY <1>2, <1>3
  <2> QED BY <1>1, <1>3, <2>1 DEF TypeInv, Fresh, TurnMoved
<1> QED
  BY <1>1, <1>3, <1>4, <1>6, <1>7 DEF TypeInv, TypeOK, TurnMoved, Booked

\* What any other step may do to the connection a turn has opened.
Carried(c, d) ==
  /\ d \in Connections /\ Flushed(d) /\ Booked(d) /\ d.next = c.next /\ d.pending \subseteq c.pending

\* The steps that leave the turns alone.
LEMMA WireTypes ==
  ASSUME TypeInv,
         \/ PreferenceWritten \/ AskRead \/ ReadAnswered \/ ReaderGivesUp
         \/ EngineHandles \/ FoldLands \/ FoldFails \/ Deliver
         \/ \E id \in conn.pending : Deadline(id)
         \/ \E cleanly \in BOOLEAN : SocketLost(cleanly)
  PROVE  /\ TypeInv' /\ UNCHANGED <<hostVars, turn>>
         /\ Requested(conn, conn') \/ Carried(conn, conn')
<1>1. /\ turn \in [Turns -> TurnStates] /\ await \in [Askers -> Waits] /\ conn \in Connections
      /\ Flushed(conn) /\ Booked(conn) /\ Reader \in Askers
      /\ engine \in Engines /\ read \in Reads /\ spent \in Spendings /\ prefs \in 0 .. MaxUpsets
      /\ world \in LogOrNone
  BY DEF TypeInv, TypeOK, Booked, Askers
<1>2. None \in LogOrNone
  BY DEF LogOrNone
<1>3. [await EXCEPT ![Reader] = NoWait] \in [Askers -> Waits]
  BY <1>1, WaitTypes
<1>4. SUFFICES /\ UNCHANGED <<hostVars, turn>>
               /\ engine' \in Engines /\ read' \in Reads /\ spent' \in Spendings
               /\ prefs' \in 0 .. MaxUpsets /\ await' \in [Askers -> Waits]
               /\ Requested(conn, conn') \/ Carried(conn, conn')
               /\ (conn.transport = "none" /\ conn.state = "connecting" /\ conn.up = <<>>)
                    => (conn.transport = "none" /\ conn.state = "connecting" /\ conn.up = <<>>)'
  <2>1. conn' \in Connections /\ Flushed(conn)' /\ Booked(conn)'
    BY <1>1, <1>4, RequestedFacts DEF Carried, Flushed, Booked
  <2> QED BY <1>4, <2>1 DEF TypeInv, TypeOK, Counted, Unborn, Fresh, hostVars, Booked
<1>5. CASE PreferenceWritten
  <2>1. /\ UNCHANGED <<hostVars, turn, engine, read, spent>> /\ prefs' = prefs + 1
        /\ prefs + spent.late + spent.lost < MaxUpsets
    BY <1>5 DEF PreferenceWritten, MayUpset
  <2>2. prefs' \in 0 .. MaxUpsets
    <3>1. spent.late \in Nat /\ spent.lost \in Nat /\ prefs \in Nat /\ MaxUpsets \in Nat
      BY <1>1, HostAssumption DEF Spendings
    <3> QED BY <2>1, <3>1
  <2>3. CASE UNCHANGED <<conn, await>>
    BY <1>1, <2>1, <2>2, <2>3 DEF Requested
  <2>4. CASE Usable(conn) /\ Reconnected(Request(conn, Message("define", None, prefs')))
    <3> DEFINE m == Message("define", None, prefs')
    <3>1. m \in Messages
      BY <1>2, <2>2, MessageType
    <3>2. conn' = Request(conn, m) /\ await' \in [Askers -> Waits]
      BY <1>1, <2>4, ReconnectedFacts
    <3> HIDE DEF m
    <3>3. Requested(conn, conn')
      BY <2>4, <3>1, <3>2 DEF Requested
    <3>4. /\ conn.transport = "none" /\ conn.state = "connecting" /\ conn.up = <<>>
          => (conn.transport = "none" /\ conn.state = "connecting" /\ conn.up = <<>>)'
      <4> SUFFICES ASSUME conn.state = "connecting" 
                   PROVE  conn'.transport = conn.transport /\ conn'.state = conn.state /\ conn'.up = conn.up
        OBVIOUS
      <4>1. conn' = Send([conn EXCEPT !.next = @ + 1, !.pending = @ \cup {conn.next}],
                         [m EXCEPT !.id = conn.next])
        BY <3>2 DEF Request
      <4> QED BY <1>1, <4>1 DEF Send, Connections
    <3> QED BY <1>1, <2>1, <2>2, <3>2, <3>3, <3>4
  <2> QED BY <1>5, <2>3, <2>4 DEF PreferenceWritten
<1>6. CASE AskRead
  <2>1. /\ UNCHANGED <<hostVars, turn, engine, prefs>> /\ conn.state = "ready"
        /\ read' = [asked |-> world, astray |-> Astray, got |-> None]
        /\ spent' = [spent EXCEPT !.reads = @ + 1]
        /\ Asks(Reader, conn, Message("snapshot", None, 0))
    BY <1>6 DEF AskRead, Ready
  <2>2. Astray \in BOOLEAN
    BY DEF Astray
  <2>3. read' \in Reads
    <3> HIDE DEF Astray
    <3> QED BY <1>1, <1>2, <2>1, <2>2 DEF Reads
  <2>4. spent' \in Spendings
    BY <1>1, <2>1 DEF Spendings
  <2>5. Message("snapshot", None, 0) \in Messages
    BY <1>2, MessageType
  <2>6. /\ await' \in [Askers -> Waits]
        /\ IF Usable(conn) THEN conn' = Request(conn, Message("snapshot", None, 0)) ELSE conn' = conn
    BY <1>1, <2>1, <2>5, AsksFacts
  <2>7. Requested(conn, conn')
    BY <2>5, <2>6 DEF Requested
  <2> QED BY <1>1, <2>1, <2>3, <2>4, <2>6, <2>7
<1>7. CASE ReadAnswered
  <2>1. /\ UNCHANGED <<hostVars, conn, turn, engine, prefs, spent>>
        /\ await' = [await EXCEPT ![Reader] = NoWait]
        /\ read' \in {read, [read EXCEPT !.got = await[Reader].got.log]}
    BY <1>7 DEF ReadAnswered
  <2>2. await[Reader].got.log \in LogOrNone
    BY <1>1 DEF Waits, Outcomes
  <2>3. read' \in Reads
    BY <1>1, <2>1, <2>2 DEF Reads
  <2> QED BY <1>1, <1>3, <2>1, <2>3 DEF Requested
<1>8. CASE ReaderGivesUp
  BY <1>1, <1>3, <1>8 DEF ReaderGivesUp, Requested
<1>9. CASE FoldLands
  <2>1. /\ UNCHANGED <<hostVars, conn, turn, await, prefs, read, spent>>
        /\ engine' = [engine EXCEPT !.status = "live", !.landed = TRUE]
    BY <1>9 DEF FoldLands
  <2>2. engine' \in Engines
    BY <1>1, <2>1 DEF Engines
  <2> QED BY <1>1, <2>1, <2>2 DEF Requested
<1>10. CASE EngineHandles
  <2> DEFINE m == Head(conn.up)
             reply == [id |-> m.id, answer |-> Replied(m)]
             down == IF conn.transport = "open" THEN Append(conn.down, reply) ELSE conn.down
  <2>1. /\ conn.up # <<>> /\ engine' = Handled(m)
        /\ conn' = [conn EXCEPT !.up = Tail(conn.up), !.down = down]
        /\ UNCHANGED <<hostVars, turn, await, prefs, read, spent>>
    BY <1>10 DEF EngineHandles
  <2>2. m \in Messages /\ Tail(conn.up) \in Seq(Messages)
    BY <1>1, <2>1, ConnectionFields
  <2>3. engine' \in Engines
    <3>1. m.log \in LogOrNone /\ m.define \in Nat
      BY <2>2 DEF Messages
    <3>2. Handled(m) \in {engine, [engine EXCEPT !.define = m.define],
                          [engine EXCEPT !.log = m.log, !.status = "folding", !.landed = FALSE,
                                         !.told = TRUE]}
      BY DEF Handled
    <3> HIDE DEF m
    <3>3. [engine EXCEPT !.log = m.log, !.status = "folding", !.landed = FALSE, !.told = TRUE] \in Engines
      BY <1>1, <3>1 DEF Engines
    <3>4. [engine EXCEPT !.define = m.define] \in Engines
      BY <1>1, <3>1 DEF Engines
    <3> QED BY <1>1, <2>1, <3>2, <3>3, <3>4
  <2>4. down \in Seq(Replies)
    <3>1. m.id \in Nat
      BY <2>2 DEF Messages
    <3>2. Replied(m) \in Outcomes
      BY <1>1, OutcomeTypes DEF Engines, Replied
    <3>3. reply \in Replies
      BY <3>1, <3>2 DEF Replies
    <3>4. conn.down \in Seq(Replies)
      BY <1>1, ConnectionFields
    <3> HIDE DEF reply
    <3> QED BY <3>3, <3>4
  <2> HIDE DEF down, reply, m
  <2>5. Tail(conn.up) \in Seq(Messages) /\ conn' = [conn EXCEPT !.up = Tail(conn.up), !.down = down]
    BY <2>1, <2>2
  <2> DEFINE up == Tail(conn.up)
  <2>6. Carried(conn, conn')
    <3> HIDE DEF up
    <3>1. /\ conn' \in Connections /\ conn'.next = conn.next /\ conn'.pending = conn.pending
          /\ conn'.state = conn.state /\ conn'.outbox = conn.outbox
      BY <1>1, <2>4, <2>5 DEF Connections, up
    <3> QED BY <1>1, <3>1 DEF Carried, Flushed, Booked
  <2> QED BY <1>1, <2>1, <2>3, <2>6
<1>11. CASE Deliver
  <2> DEFINE reply == Head(conn.down)
             c == [conn EXCEPT !.down = Tail(conn.down)]
  <2>1. conn.transport = "open" /\ conn.down # <<>> /\ UNCHANGED <<hostVars, turn, engine, prefs, read, spent>>
    BY <1>11 DEF Deliver
  <2>2. reply \in Replies /\ Tail(conn.down) \in Seq(Replies)
    BY <1>1, <2>1, ConnectionFields
  <2> DEFINE down == Tail(conn.down)
  <2>3. /\ c \in Connections /\ c.next = conn.next /\ c.pending = conn.pending
        /\ c.state = conn.state /\ c.outbox = conn.outbox
    <3>1. down \in Seq(Replies)
      BY <2>2
    <3> HIDE DEF down
    <3> QED BY <1>1, <3>1 DEF Connections, down
  <2>4. Flushed(c) /\ Booked(c)
    BY <1>1, <2>3 DEF Flushed, Booked
  <2>5. CASE reply.id = 0
    <3>1. Reconnected(OnHelloReply(c, TRUE))
      BY <1>11, <2>5 DEF Deliver
    <3> HIDE DEF c
    <3>2. conn' = OnHelloReply(c, TRUE) /\ await' \in [Askers -> Waits]
      BY <1>1, <3>1, ReconnectedFacts
    <3>3. /\ conn' \in Connections /\ conn'.next = c.next /\ conn'.pending = c.pending /\ Flushed(conn)'
      BY <2>3, <2>4, <3>2, HelloFacts DEF Flushed
    <3>4. Carried(conn, conn')
      BY <1>1, <2>3, <3>3 DEF Carried, Flushed, Booked
    <3> QED BY <1>1, <2>1, <3>2, <3>4
  <2>6. CASE reply.id # 0
    <3>1. /\ conn' = TakePending(c, reply.id)
          /\ await' = Settled({reply.id} \cap c.pending, reply.answer)
      BY <1>11, <2>6 DEF Deliver
    <3>2. reply.answer \in Outcomes
      BY <2>2 DEF Replies
    <3> HIDE DEF c, reply
    <3>3. await' \in [Askers -> Waits]
      BY <1>1, <3>1, <3>2, SettledType
    <3>4. /\ conn' \in Connections /\ conn'.next = c.next /\ conn'.pending = c.pending \ {reply.id}
          /\ conn'.state = c.state /\ conn'.outbox = c.outbox
      BY <2>3, <3>1, TakeFacts
    <3>5. Carried(conn, conn')
      BY <1>1, <2>3, <2>4, <3>4 DEF Carried, Flushed, Booked
    <3> QED BY <1>1, <2>1, <3>3, <3>5
  <2> QED BY <2>5, <2>6
<1>12. ASSUME NEW id \in conn.pending, Deadline(id)
       PROVE  /\ UNCHANGED <<hostVars, turn>>
              /\ engine' \in Engines /\ read' \in Reads /\ spent' \in Spendings
              /\ prefs' \in 0 .. MaxUpsets /\ await' \in [Askers -> Waits]
              /\ Requested(conn, conn') \/ Carried(conn, conn')
              /\ (conn.transport = "none" /\ conn.state = "connecting" /\ conn.up = <<>>)
                   => (conn.transport = "none" /\ conn.state = "connecting" /\ conn.up = <<>>)'
  <2>1. /\ UNCHANGED <<hostVars, turn, engine, prefs, read>> /\ Reconnected(TakePending(conn, id))
        /\ spent' = [spent EXCEPT !.late = IF conn.transport = "open" THEN spent.late + 1 ELSE spent.late]
    BY <1>12 DEF Deadline
  <2>2. spent' \in Spendings
    BY <1>1, <2>1 DEF Spendings
  <2>3. conn' = TakePending(conn, id) /\ await' \in [Askers -> Waits]
    BY <1>1, <2>1, ReconnectedFacts
  <2>4. /\ conn' \in Connections /\ conn'.next = conn.next /\ conn'.pending = conn.pending \ {id}
        /\ conn'.state = conn.state /\ conn'.transport = conn.transport
        /\ conn'.up = conn.up /\ conn'.outbox = conn.outbox
    BY <1>1, <2>3, TakeFacts
  <2>5. Carried(conn, conn')
    BY <1>1, <2>4 DEF Carried, Flushed, Booked
  <2> QED BY <1>1, <2>1, <2>2, <2>3, <2>4, <2>5
<1>13. ASSUME NEW cleanly \in BOOLEAN, SocketLost(cleanly)
       PROVE  /\ UNCHANGED <<hostVars, turn>>
              /\ engine' \in Engines /\ read' \in Reads /\ spent' \in Spendings
              /\ prefs' \in 0 .. MaxUpsets /\ await' \in [Askers -> Waits]
              /\ Requested(conn, conn') \/ Carried(conn, conn')
              /\ conn.transport = "open"
  <2>1. /\ UNCHANGED <<hostVars, turn, engine, prefs, read>> /\ conn.transport = "open"
        /\ Reconnected(IF cleanly THEN EndTransport(conn) ELSE FailConnection(conn))
        /\ spent' = [spent EXCEPT !.lost = spent.lost + 1]
    BY <1>13 DEF SocketLost
  <2>2. spent' \in Spendings
    BY <1>1, <2>1 DEF Spendings
  <2>3. /\ conn' = IF cleanly THEN EndTransport(conn) ELSE FailConnection(conn)
        /\ await' \in [Askers -> Waits]
    BY <1>1, <2>1, ReconnectedFacts
  <2>4. Carried(conn, conn')
    <3>1. CASE cleanly
      <4>1. conn' = EndTransport(conn)
        BY <2>3, <3>1
      <4>2. /\ conn' \in Connections /\ conn'.next = conn.next /\ conn'.pending = conn.pending
            /\ conn'.state = conn.state /\ conn'.outbox = conn.outbox
        BY <1>1, <4>1, EndTransportFacts
      <4> QED BY <1>1, <4>2 DEF Carried, Flushed, Booked
    <3>2. CASE ~cleanly /\ Usable(conn)
      <4>1. conn' = FailConnection(conn)
        BY <2>3, <3>2
      <4>2. /\ conn' \in Connections /\ conn'.next = conn.next /\ conn'.pending = {}
            /\ conn'.outbox = <<>>
        BY <1>1, <3>2, <4>1, FailFacts
      <4> QED BY <1>1, <4>2 DEF Carried, Flushed, Booked
    <3>3. CASE ~cleanly /\ ~Usable(conn)
      BY <1>1, <2>3, <3>3 DEF Carried, FailConnection
    <3> QED BY <3>1, <3>2, <3>3
  <2> QED BY <1>1, <2>1, <2>2, <2>3, <2>4
<1>14. CASE FoldFails
  <2>1. /\ UNCHANGED <<hostVars, conn, turn, await, prefs, read>>
        /\ engine' = [engine EXCEPT !.status = "idle"]
        /\ spent' = [spent EXCEPT !.lost = @ + 1]
    BY <1>14 DEF FoldFails
  <2>2. engine' \in Engines /\ spent' \in Spendings
    BY <1>1, <2>1 DEF Engines, Spendings
  <2> QED BY <1>1, <2>1, <2>2 DEF Requested
<1> QED
  BY <1>5, <1>6, <1>7, <1>8, <1>9, <1>10, <1>11, <1>12, <1>13, <1>14

\* A launch's first connection.
LEMMA NewConnectionFacts ==
  /\ NewConnection \in Connections /\ Flushed(NewConnection) /\ Booked(NewConnection)
  /\ NewConnection.state = "connecting" /\ NewConnection.transport = "none"
  /\ NewConnection.up = <<>> /\ NewConnection.outbox = <<>>
  /\ NewConnection.next = 1 /\ NewConnection.pending = {} /\ NewConnection.down = <<>>
<1>1. <<>> \in Seq(Messages) /\ <<>> \in Seq(Replies) /\ {} \in SUBSET Nat /\ 1 \in Nat \ {0}
  OBVIOUS
<1>2. NewConnection \in Connections
  BY <1>1 DEF NewConnection, Connections
<1>3. /\ NewConnection.state = "connecting" /\ NewConnection.transport = "none"
      /\ NewConnection.up = <<>> /\ NewConnection.outbox = <<>>
      /\ NewConnection.next = 1 /\ NewConnection.pending = {} /\ NewConnection.down = <<>>
  BY DEF NewConnection
<1> QED BY <1>2, <1>3 DEF Flushed, Booked

LEMMA NewEngineType == NewEngine \in Engines
BY DEF NewEngine, Engines, LogOrNone, Untold

LEMMA ClosedTypes ==
  ASSUME TypeInv, Reconnected(Close(conn))
  PROVE  /\ conn' = Close(conn) /\ Carried(conn, conn')
         /\ await' \in [Askers -> Waits]
<1>1. conn \in Connections /\ Flushed(conn) /\ Booked(conn) /\ await \in [Askers -> Waits]
  BY DEF TypeInv, TypeOK, Booked
<1>2. conn' = Close(conn) /\ await' \in [Askers -> Waits]
  BY <1>1, ReconnectedFacts
<1>3. conn' \in Connections /\ conn'.next = conn.next /\ (conn' = conn \/ (conn'.pending = {} /\ conn'.outbox = <<>>))
  BY <1>1, <1>2, CloseFacts
<1> QED BY <1>1, <1>2, <1>3 DEF Carried, Flushed, Booked

\* The edges that replace the world.
LEMMA EdgeTypes ==
  ASSUME TypeInv,
         \/ LaunchReady \/ LaunchOver \/ StopEngineClient
         \/ \E log \in Logs \cup {None} : WorldRebuilt(log)
  PROVE  /\ TypeInv'
         /\ gen' = gen + 1 /\ \A k \in Turns : k < gen' => turn'[k] = turn[k]
         /\ conn' = NewConnection \/ Carried(conn, conn') \/ Requested(conn, conn')
<1>1. /\ turn \in [Turns -> TurnStates] /\ await \in [Askers -> Waits] /\ conn \in Connections
      /\ Flushed(conn) /\ Booked(conn) /\ gen \in Nat /\ MaxTurns \in Nat /\ live \in 0 .. gen
      /\ prefs \in Nat
  BY HostAssumption DEF TypeInv, TypeOK, Booked
<1>2. /\ None \in LogOrNone /\ attachedTo \in LogOrNone /\ world \in LogOrNone /\ active \in LogOrNone
      /\ owner \in {"app", "engine"} /\ stopped \in BOOLEAN
  BY DEF TypeInv, TypeOK, LogOrNone
<1>3. gen' = gen + 1 /\ liveOn' = None
  BY DEF LaunchReady, LaunchOver, StopEngineClient, WorldRebuilt, BumpGen
<1>4. gen <= MaxTurns /\ (gen < MaxTurns \/ stopped')
  <2>1. ~stopped => gen <= MaxTurns
    BY DEF TypeInv, Counted
  <2> QED BY <1>1, <2>1 DEF LaunchReady, LaunchOver, StopEngineClient, WorldRebuilt
<1>5. gen' \in 0 .. MaxTurns + 1 /\ Counted'
  BY <1>1, <1>3, <1>4 DEF Counted
<1>6. SUFFICES
        /\ live' \in 0 .. gen' /\ world' \in LogOrNone /\ active' \in LogOrNone /\ attachedTo' \in LogOrNone
        /\ owner' \in {"app", "engine"} /\ stopped' \in BOOLEAN
        /\ conn' = NewConnection \/ Carried(conn, conn') \/ Requested(conn, conn')
        /\ await' \in [Askers -> Waits] /\ engine' \in Engines
        /\ UNCHANGED <<prefs, read>> /\ spent' \in Spendings
        /\ \/ turn' = turn
           \/ /\ gen + 1 \in Turns
              /\ \E t \in TurnStates : /\ turn' = [turn EXCEPT ![gen + 1] = t]
                                       /\ t.pc = "connect" => conn' = NewConnection
  <2>1. conn' \in Connections /\ Flushed(conn)' /\ Booked(conn)'
    BY <1>1, <1>6, RequestedFacts, NewConnectionFacts DEF Carried, Flushed, Booked
  <2>2. turn' \in [Turns -> TurnStates] /\ \A k \in Turns \ {gen + 1} : turn'[k] = turn[k]
    BY <1>1, <1>6
  <2>3. \A k \in Turns : k < gen' => turn'[k] = turn[k]
    BY <1>1, <1>3, <2>2
  <2>4. Unborn'
    BY <1>1, <1>3, <2>2 DEF TypeInv, Unborn, Turns
  <2>5. Fresh'
    <3> SUFFICES ASSUME gen' \in Turns, turn'[gen'].pc = "connect"
                 PROVE  conn'.transport = "none" /\ conn'.state = "connecting" /\ conn'.up = <<>>
      BY DEF Fresh
    <3>1. turn' # turn
      BY <1>1, <1>3 DEF TypeInv, Unborn
    <3>2. conn' = NewConnection
      BY <1>1, <1>3, <1>6, <3>1
    <3> QED BY <3>2, NewConnectionFacts
  <2>6. prefs' \in 0 .. MaxUpsets /\ read' \in Reads
    BY <1>6 DEF TypeInv, TypeOK
  <2>7. liveOn' \in LogOrNone
    BY <1>2, <1>3
  <2>8. TypeOK'
    BY <1>5, <1>6, <2>1, <2>2, <2>6, <2>7 DEF TypeOK, Booked
  <2> QED BY <1>3, <1>5, <1>6, <2>1, <2>3, <2>4, <2>5, <2>8 DEF TypeInv
<1>7. CASE LaunchReady
  <2>1. /\ live' = gen + 1 /\ attachedTo' = None /\ owner' = "app" /\ conn' = NewConnection
        /\ engine' = NewEngine /\ turn' = [turn EXCEPT ![gen + 1].pc = "connect"]
        /\ spent' = [spent EXCEPT !.launches = spent.launches + 1]
        /\ UNCHANGED <<world, active, stopped, await, prefs, read>> /\ gen < MaxTurns
    BY <1>7 DEF LaunchReady
  <2>2. gen + 1 \in Turns
    BY <1>1, <2>1 DEF Turns
  <2> DEFINE t == [turn[gen + 1] EXCEPT !.pc = "connect"]
  <2>3. t \in TurnStates /\ turn' = [turn EXCEPT ![gen + 1] = t]
    BY <1>1, <2>1, <2>2, TurnPc DEF PCs
  <2>4. spent' \in Spendings
    BY <2>1 DEF TypeInv, TypeOK, Spendings
  <2> HIDE DEF t
  <2>5. live' \in 0 .. gen'
    BY <1>1, <1>3, <2>1
  <2> QED BY <1>1, <1>2, <2>1, <2>2, <2>3, <2>4, <2>5, NewEngineType
<1>8. CASE LaunchOver
  <2>1. /\ live' = 0 /\ attachedTo' = None /\ owner' = "app"
        /\ Reconnected(Close(conn)) \/ UNCHANGED <<conn, await>>
        /\ engine' = NewEngine /\ UNCHANGED <<world, active, stopped, turn, prefs, read, spent>>
    BY <1>8 DEF LaunchOver
  <2>2. Carried(conn, conn') /\ await' \in [Askers -> Waits]
    <3>1. CASE UNCHANGED <<conn, await>>
      <4>1. conn \in Connections /\ Flushed(conn) /\ Booked(conn) /\ await \in [Askers -> Waits]
        BY DEF TypeInv, TypeOK, Booked
      <4> QED BY <3>1, <4>1 DEF Carried
    <3> QED BY <2>1, <3>1, ClosedTypes
  <2>3. spent' \in Spendings /\ live' \in 0 .. gen'
    BY <1>1, <1>3, <2>1 DEF TypeInv, TypeOK
  <2> QED BY <1>2, <2>1, <2>2, <2>3, NewEngineType
<1>9. CASE StopEngineClient
  <2>1. /\ live' = 0 /\ attachedTo' = None /\ stopped' = TRUE /\ Reconnected(Close(conn))
        /\ engine' = NewEngine /\ UNCHANGED <<world, active, owner, turn, prefs, read, spent>>
    BY <1>9 DEF StopEngineClient
  <2>2. Carried(conn, conn') /\ await' \in [Askers -> Waits]
    BY <2>1, ClosedTypes
  <2>3. spent' \in Spendings /\ live' \in 0 .. gen'
    BY <1>1, <1>3, <2>1 DEF TypeInv, TypeOK
  <2> QED BY <1>2, <2>1, <2>2, <2>3, NewEngineType
<1>10. ASSUME NEW log \in Logs \cup {None}, WorldRebuilt(log)
       PROVE  /\ live' \in 0 .. gen' /\ world' \in LogOrNone /\ active' \in LogOrNone
              /\ attachedTo' \in LogOrNone
              /\ owner' \in {"app", "engine"} /\ stopped' \in BOOLEAN
              /\ conn' = NewConnection \/ Carried(conn, conn') \/ Requested(conn, conn')
              /\ await' \in [Askers -> Waits] /\ engine' \in Engines
              /\ UNCHANGED <<prefs, read>> /\ spent' \in Spendings
              /\ \/ turn' = turn
                 \/ /\ gen + 1 \in Turns
                    /\ \E t \in TurnStates : /\ turn' = [turn EXCEPT ![gen + 1] = t]
                                             /\ t.pc = "connect" => conn' = NewConnection
  <2>1. /\ world' = log /\ active' = log /\ UNCHANGED <<live, owner, stopped, engine, prefs, read, spent>>
        /\ gen < MaxTurns /\ log \in LogOrNone
    BY <1>10 DEF WorldRebuilt, LogOrNone
  <2>2. /\ live' \in 0 .. gen' /\ spent' \in Spendings /\ engine' \in Engines
    BY <1>1, <1>3, <2>1 DEF TypeInv, TypeOK
  <2>3. CASE live # 0 /\ log # None
    <3>1. AttachAndProbe(gen + 1, conn, log) /\ attachedTo' = attachedTo
      BY <1>10, <2>3 DEF WorldRebuilt
    <3>2. gen + 1 \in Turns
      BY <1>1, <2>1 DEF Turns
    <3>3. /\ \E t \in TurnStates : turn' = [turn EXCEPT ![gen + 1] = t] /\ t.pc \in {"idle", "define"}
          /\ Requested(conn, conn') /\ await' \in [Askers -> Waits]
      BY <1>1, <2>1, <3>1, <3>2, ProbeFacts
    <3> QED BY <1>2, <2>1, <2>2, <3>1, <3>2, <3>3
  <2>4. CASE ~(live # 0 /\ log # None)
    <3>1. attachedTo' = None /\ UNCHANGED <<conn, turn, await>>
      BY <1>10, <2>4 DEF WorldRebuilt
    <3> QED BY <1>1, <1>2, <2>1, <2>2, <3>1 DEF Requested
  <2> QED BY <2>3, <2>4
<1> QED BY <1>7, <1>8, <1>9, <1>10

LEMMA InitTypes == Init => TypeInv
<1> SUFFICES ASSUME Init PROVE TypeInv
  OBVIOUS
<1>1. /\ conn \in Connections /\ Flushed(conn) /\ Booked(conn)
      /\ conn.transport = "none" /\ conn.state = "connecting" /\ conn.up = <<>>
  BY NewConnectionFacts DEF Init, Flushed, Booked
<1>2. turn \in [Turns -> TurnStates] /\ \A g \in Turns : turn[g].pc = "none"
  BY NoTurnType DEF Init
<1>3. await \in [Askers -> Waits]
  BY WaitTypes DEF Init
<1>4. engine \in Engines /\ read \in Reads /\ spent \in Spendings /\ prefs \in 0 .. MaxUpsets
  BY NewEngineType, HostAssumption DEF Init, Reads, Spendings, LogOrNone
<1>5. gen \in 0 .. MaxTurns + 1 /\ live \in 0 .. gen /\ gen <= MaxTurns
  BY HostAssumption DEF Init
<1>6. /\ world \in LogOrNone /\ active \in LogOrNone /\ attachedTo \in LogOrNone /\ liveOn \in LogOrNone
      /\ owner \in {"app", "engine"} /\ stopped \in BOOLEAN
  BY DEF Init, LogOrNone
<1> QED BY <1>1, <1>2, <1>3, <1>4, <1>5, <1>6 DEF TypeInv, TypeOK, Counted, Unborn, Fresh, Booked

LEMMA NextTypes == TypeInv /\ [Next]_vars => TypeInv'
<1> SUFFICES ASSUME TypeInv, [Next]_vars PROVE TypeInv'
  OBVIOUS
<1>1. CASE UNCHANGED vars
  BY <1>1 DEF vars, hostVars, TypeInv, TypeOK, Counted, Flushed, Unborn, Fresh
<1> QED BY <1>1, EdgeTypes, TurnStepTypes, WireTypes DEF Next

\* Every reachable state has its types, and the bookkeeping behind them.
LEMMA TypeInvHolds == Spec => []TypeInv
BY InitTypes, NextTypes, PTL DEF Spec

\* Every variable ranges over what the sources declare for it.
THEOREM TypeCorrect == Spec => []TypeOK
<1>1. TypeInv => TypeOK
  BY DEF TypeInv
<1> QED BY <1>1, TypeInvHolds, PTL

-----------------------------------------------------------------------------
(* The request book, and the turns that have lost. *)

\* A request on a connection is one asking of the book.
LEMMA RequestedIsBooked ==
  ASSUME NEW c \in Connections, Flushed(c), Booked(c), c.next = conn.next, c.pending = conn.pending,
         Requested(c, conn')
  PROVE  [Book!Next]_(Book!bookVars)
<1>1. CASE conn' = c
  BY <1>1 DEF Book!bookVars
<1>2. ASSUME NEW m \in Messages, Usable(c), conn' = Request(c, m)
      PROVE  [Book!Next]_(Book!bookVars)
  <2>1. conn'.next = c.next + 1 /\ c.next \in Nat
    BY <1>2, RequestFacts, ConnectionFields
  <2>2. conn'.pending = c.pending \cup {c.next} \/ conn'.pending = {}
    BY <1>2, RequestFacts
  <2>3. conn'.next - 1 = (conn.next - 1) + 1 /\ conn'.next - 1 = conn.next
    BY <2>1
  <2>4. Book!Ask \/ Book!AskInVain
    BY <2>2, <2>3 DEF Book!Ask, Book!AskInVain
  <2> QED BY <2>4 DEF Book!Next
<1> QED BY <1>1, <1>2 DEF Requested

\* Losing requests, and never an id, is the book's settling.
LEMMA CarriedIsSettled ==
  ASSUME Carried(conn, conn')
  PROVE  [Book!Next]_(Book!bookVars)
BY DEF Carried, Book!Next, Book!Settle

\* Every connection the app has implements the request book's safety: ids are
\* handed out one after another, a settled request never comes back, and a send
\* that fails takes every open request with it.
THEOREM RequestsAreBooked == Spec => Book!Init /\ [][Book!Next]_(Book!bookVars)
<1>1. Init => Book!Init
  BY NewConnectionFacts DEF Init, Book!Init
<1>2. TypeInv /\ [Next]_vars => [Book!Next]_(Book!bookVars)
  <2> SUFFICES ASSUME TypeInv, [Next]_vars PROVE [Book!Next]_(Book!bookVars)
    OBVIOUS
  <2>1. conn \in Connections /\ Flushed(conn) /\ Booked(conn)
    BY DEF TypeInv, TypeOK, Booked
  <2>2. ASSUME Requested(conn, conn') PROVE [Book!Next]_(Book!bookVars)
    BY <2>1, <2>2, RequestedIsBooked
  <2>3. ASSUME conn' = NewConnection PROVE [Book!Next]_(Book!bookVars)
    <3>1. Book!Replace
      BY <2>3, NewConnectionFacts DEF Book!Replace
    <3> QED BY <3>1 DEF Book!Next
  <2>4. ASSUME NEW g \in Turns, TurnStep(g) PROVE [Book!Next]_(Book!bookVars)
    <3>1. CASE conn.transport = "none" /\ Requested(AttachTransport(conn), conn')
      <4> DEFINE c == AttachTransport(conn)
      <4>1. c \in Connections /\ c.next = conn.next /\ c.pending = conn.pending /\ c.state = "connecting"
        BY <2>1, <3>1, AttachFacts
      <4>2. Flushed(c) /\ Booked(c) /\ Requested(c, conn')
        BY <2>1, <3>1, <4>1 DEF Flushed, Booked
      <4> HIDE DEF c
      <4> QED BY <4>1, <4>2, RequestedIsBooked
    <3> QED BY <2>2, <2>4, <3>1, TurnStepMoves DEF TurnMoved
  <2>5. CASE UNCHANGED vars
    BY <2>5 DEF vars, Book!bookVars
  <2> QED BY <2>2, <2>3, <2>4, <2>5, CarriedIsSettled, EdgeTypes, WireTypes DEF Next
<1> QED BY <1>1, <1>2, TypeInvHolds, PTL DEF Spec

\* A turn that was superseded changes only where it stands.
THEOREM LosersAreInert == Spec => LosersTouchNothing
<1> DEFINE Inert == \A g \in Turns : g < gen /\ turn'[g] # turn[g] =>
                      UNCHANGED <<hostVars, conn, engine, prefs, read>>
<1>1. TypeInv /\ [Next]_vars => [Inert]_vars
  <2> SUFFICES ASSUME TypeInv, Next, NEW g \in Turns, g < gen, turn'[g] # turn[g]
               PROVE  UNCHANGED <<hostVars, conn, engine, prefs, read>>
    OBVIOUS
  <2>1. gen \in Nat
    BY DEF TypeInv, TypeOK
  <2>2. PICK k \in Turns : TurnStep(k)
    <3>1. g < gen + 1
      BY <2>1 DEF Turns
    <3>2. ~(\/ LaunchReady \/ LaunchOver \/ StopEngineClient
            \/ \E log \in Logs \cup {None} : WorldRebuilt(log))
      BY <3>1, EdgeTypes
    <3>3. ~(\/ PreferenceWritten \/ AskRead \/ ReadAnswered \/ ReaderGivesUp
            \/ EngineHandles \/ FoldLands \/ FoldFails \/ Deliver
            \/ \E id \in conn.pending : Deadline(id)
            \/ \E cleanly \in BOOLEAN : SocketLost(cleanly))
      BY WireTypes
    <3> QED BY <3>2, <3>3 DEF Next
  <2>3. TurnMoved(k)
    BY <2>2, TurnStepMoves
  <2>4. k = g
    BY <2>3 DEF TurnMoved, TypeInv, TypeOK
  <2>5. Connected(g) \/ CouldNotConnect(g) \/ Lost(g) \/ Rested(g)
    BY <2>1, <2>2, <2>4 DEF TurnStep, LogDirPushed, DefinePushed, AttachAnswered, HealthAnswered
  <2>6. UNCHANGED <<hostVars, engine, prefs, read>>
    BY <2>5 DEF Connected, CouldNotConnect, Lost, Rested
  <2>7. conn' = conn
    BY <2>1, <2>3, <2>4 DEF TurnMoved
  <2> QED BY <2>6, <2>7
<1> QED BY <1>1, TypeInvHolds, PTL DEF Spec, LosersTouchNothing
-----------------------------------------------------------------------------
(* What waits for the engine, message by message. *)

LEMMA QueueType ==
  ASSUME NEW c \in Connections
  PROVE  /\ Queue(c) \in Seq(Messages) /\ Len(Queue(c)) = Len(c.up) + Len(c.outbox)
         /\ Len(c.up) \in Nat /\ Len(c.outbox) \in Nat
         /\ \A i \in 1 .. Len(c.up) : Queue(c)[i] = c.up[i]
<1> DEFINE S == Messages
           u == c.up
           o == c.outbox
<1>1. u \in Seq(S) /\ o \in Seq(S)
  BY ConnectionFields
<1>2. Queue(c) = u \o o
  BY DEF Queue
<1> HIDE DEF S, u, o
<1>3. /\ u \o o \in Seq(S) /\ Len(u \o o) = Len(u) + Len(o) /\ Len(u) \in Nat /\ Len(o) \in Nat
      /\ \A i \in 1 .. Len(u) : (u \o o)[i] = u[i]
  BY <1>1
<1> QED BY <1>2, <1>3 DEF S, u, o

LEMMA AppendElements ==
  ASSUME NEW q \in Seq(Messages), NEW m \in Messages, NEW r, r = Append(q, m)
  PROVE  /\ r \in Seq(Messages) /\ Len(q) \in Nat /\ Len(r) = Len(q) + 1 /\ r[Len(q) + 1] = m
         /\ \A i \in 1 .. Len(q) : r[i] = q[i]
<1> DEFINE S == Messages
<1>1. q \in Seq(S) /\ m \in S
  OBVIOUS
<1> HIDE DEF S
<1>2. /\ r \in Seq(S) /\ Len(q) \in Nat /\ Len(r) = Len(q) + 1 /\ r[Len(q) + 1] = m
      /\ \A i \in 1 .. Len(q) : r[i] = q[i]
  BY <1>1
<1> QED BY <1>2 DEF S

LEMMA TailElements ==
  ASSUME NEW c \in Connections, c.up # <<>>, NEW d \in Connections, d.up = Tail(c.up),
         d.outbox = c.outbox
  PROVE  /\ Len(Queue(c)) = Len(Queue(d)) + 1 /\ Len(Queue(d)) \in Nat
         /\ Head(c.up) = Queue(c)[1]
         /\ \A i \in 1 .. Len(Queue(d)) : Queue(d)[i] = Queue(c)[i + 1]
<1> DEFINE S == Messages
           u == c.up
           o == c.outbox
<1>1. u \in Seq(S) /\ o \in Seq(S) /\ u # <<>>
  BY ConnectionFields
<1>2. Queue(c) = u \o o /\ Queue(d) = Tail(u) \o o
  BY DEF Queue
<1>3. Head(c.up) = Head(u)
  OBVIOUS
<1> HIDE DEF S, u, o
<1> DEFINE t == Tail(u)
<1>4. t \in Seq(S) /\ Len(u) = Len(t) + 1 /\ Len(t) \in Nat /\ \A i \in 1 .. Len(t) : t[i] = u[i + 1]
  BY <1>1
<1>5. Head(u) = u[1] /\ Len(u) >= 1
  BY <1>1
<1>6. /\ Len(t \o o) = Len(t) + Len(o) /\ Len(u \o o) = Len(u) + Len(o) /\ Len(o) \in Nat
      /\ \A i \in 1 .. Len(u) + Len(o) : (u \o o)[i] = IF i <= Len(u) THEN u[i] ELSE o[i - Len(u)]
  BY <1>1, <1>4
<1>7. \A i \in 1 .. Len(t) + Len(o) : (t \o o)[i] = IF i <= Len(t) THEN t[i] ELSE o[i - Len(t)]
  BY <1>1, <1>4
<1>8. (u \o o)[1] = u[1]
  BY <1>5, <1>6, <1>4
<1>9. \A i \in 1 .. Len(t \o o) : (t \o o)[i] = (u \o o)[i + 1]
  <2> SUFFICES ASSUME NEW i \in 1 .. Len(t) + Len(o) PROVE (t \o o)[i] = (u \o o)[i + 1]
    BY <1>6
  <2>1. i + 1 \in 1 .. Len(u) + Len(o) /\ (i + 1) - Len(u) = i - Len(t)
    BY <1>4, <1>6
  <2> HIDE DEF t
  <2>2. CASE i <= Len(t)
    BY <1>4, <1>6, <1>7, <2>1, <2>2
  <2>3. CASE ~(i <= Len(t))
    <3>1. ~(i + 1 <= Len(u))
      BY <1>4, <2>3
    <3> QED BY <1>6, <1>7, <2>1, <2>3, <3>1
  <2> QED BY <2>2, <2>3
<1>10. Queue(d) = t \o o
  BY <1>2
<1> HIDE DEF t
<1> QED BY <1>2, <1>3, <1>4, <1>5, <1>6, <1>8, <1>9, <1>10

LEMMA HelloElements ==
  ASSUME NEW c \in Connections, c.up = <<>>, NEW d \in Connections, d.up = <<Hello>>,
         d.outbox = c.outbox
  PROVE  /\ Len(Queue(d)) = Len(Queue(c)) + 1 /\ Len(Queue(c)) \in Nat
         /\ Queue(d)[1] = Hello
         /\ \A i \in 1 .. Len(Queue(c)) : Queue(d)[i + 1] = Queue(c)[i]
<1>1. /\ d.up # <<>> /\ Tail(d.up) = <<>> /\ Head(d.up) = Hello
  OBVIOUS
<1> QED BY <1>1, TailElements

Has(q, op) == \E i \in 1 .. Len(q) : q[i].op = op

\* The replies on their way to us.
Down(c) == {c.down[j] : j \in 1 .. Len(c.down)}

\* Three things that may happen to what is waiting.
Same(c, d) ==
  /\ Queue(d) = Queue(c) /\ (Usable(d) <=> Usable(c))
  /\ d.next = c.next /\ Down(d) \subseteq Down(c)

Dropped(c, d) ==
  /\ ~Usable(d) /\ d.up = c.up /\ d.outbox = <<>>
  /\ d.next >= c.next /\ Down(d) = {}

Grown(c, d, m) ==
  /\ Usable(d) /\ Queue(d) = Append(Queue(c), m)
  /\ d.next = c.next + 1 /\ d.down = c.down

LEMMA EmptyDown == ASSUME NEW c, c.down = <<>> PROVE Down(c) = {}
<1>1. Len(c.down) = 0
  OBVIOUS
<1> QED BY <1>1 DEF Down

LEMMA DownTail ==
  ASSUME NEW c \in Connections, c.down # <<>>, NEW d, d.down = Tail(c.down)
  PROVE  Down(d) \subseteq Down(c) /\ Head(c.down) \in Down(c)
<1> DEFINE S == Replies
           q == c.down
           r == d.down
<1>1. q \in Seq(S) /\ q # <<>> /\ r = Tail(q)
  BY ConnectionFields
<1> HIDE DEF S, q, r
<1>2. /\ Len(q) = Len(r) + 1 /\ Len(r) \in Nat /\ Head(q) = q[1]
      /\ \A i \in 1 .. Len(r) : r[i] = q[i + 1]
  BY <1>1
<1>3. {r[j] : j \in 1 .. Len(r)} \subseteq {q[j] : j \in 1 .. Len(q)}
  <2> SUFFICES ASSUME NEW j \in 1 .. Len(r) PROVE \E i \in 1 .. Len(q) : q[i] = r[j]
    OBVIOUS
  <2>1. j + 1 \in 1 .. Len(q)
    BY <1>2
  <2> QED BY <1>2, <2>1
<1>4. Head(q) \in {q[j] : j \in 1 .. Len(q)}
  <2>1. 1 \in 1 .. Len(q)
    BY <1>2
  <2> QED BY <1>2, <2>1
<1> QED BY <1>3, <1>4 DEF Down, q, r

LEMMA DownHead ==
  ASSUME NEW c \in Connections, c.down # <<>>
  PROVE  Head(c.down) \in Down(c)
<1> DEFINE d == [down |-> Tail(c.down)]
<1>1. d.down = Tail(c.down)
  OBVIOUS
<1> HIDE DEF d
<1> QED BY <1>1, DownTail

LEMMA DownAppend ==
  ASSUME NEW c \in Connections, NEW x \in Replies, NEW d, d.down = Append(c.down, x)
  PROVE  Down(d) \subseteq Down(c) \cup {x}
<1> DEFINE S == Replies
           q == c.down
           r == d.down
<1>1. q \in Seq(S) /\ r = Append(q, x) /\ x \in S
  BY ConnectionFields
<1> HIDE DEF S, q, r
<1>2. /\ Len(r) = Len(q) + 1 /\ Len(q) \in Nat /\ r[Len(q) + 1] = x
      /\ \A i \in 1 .. Len(q) : r[i] = q[i]
  BY <1>1
<1>3. {r[j] : j \in 1 .. Len(r)} \subseteq {q[j] : j \in 1 .. Len(q)} \cup {x}
  <2> SUFFICES ASSUME NEW j \in 1 .. Len(r), r[j] # x PROVE \E i \in 1 .. Len(q) : q[i] = r[j]
    OBVIOUS
  <2>1. j \in 1 .. Len(q)
    BY <1>2
  <2> QED BY <1>2, <2>1
<1> QED BY <1>3 DEF Down, q, r

\* A request of this kind was made: it waits, or its send was the connection's end.
Asked(c, d, op, v) ==
  IF Usable(c)
  THEN \/ \E m \in Messages : m.op = op /\ m.define = v /\ m.id = c.next /\ Grown(c, d, m)
       \/ Dropped(c, d)
  ELSE d = c

LEMMA RequestAsks ==
  ASSUME NEW c \in Connections, Usable(c), Flushed(c), Booked(c), NEW m \in Messages
  PROVE  Asked(c, Request(c, m), m.op, m.define)
<1> DEFINE e == Request(c, m)
           n == [m EXCEPT !.id = c.next]
<1>1. /\ e.next = c.next + 1 /\ c.next \in Nat
      /\ \/ e.state = c.state /\ Queue(e) = Append(Queue(c), n) /\ e.down = c.down
         \/ e.state = "failed" /\ e.up = c.up /\ e.outbox = <<>> /\ e.down = <<>>
  BY RequestFacts, ConnectionFields
<1>2. n \in Messages /\ n.op = m.op /\ n.define = m.define /\ n.id = c.next
  BY ConnectionFields, StampFacts
<1>3. e.down = <<>> => Down(e) = {}
  BY EmptyDown
<1> HIDE DEF e, n
<1> QED BY <1>1, <1>2, <1>3 DEF Asked, Grown, Dropped, Usable, e

LEMMA AsksAsks ==
  ASSUME NEW c \in Connections, Flushed(c), Booked(c), NEW a \in Askers, await \in [Askers -> Waits],
         NEW op \in {"hello", "setDir", "define", "attach", "health", "snapshot"},
         NEW l \in LogOrNone, NEW v \in Nat, Asks(a, c, Message(op, l, v))
  PROVE  Asked(c, conn', op, v)
<1> DEFINE m == Message(op, l, v)
<1>1. m \in Messages /\ m.op = op /\ m.define = v
  BY MessageType
<1>2. Asks(a, c, m)
  OBVIOUS
<1> HIDE DEF m
<1>3. IF Usable(c) THEN conn' = Request(c, m) ELSE conn' = c
  BY <1>1, <1>2, AsksFacts
<1> QED BY <1>1, <1>3, RequestAsks DEF Asked

\* Which kinds of message wait.
LEMMA HasGrown ==
  ASSUME NEW c \in Connections, NEW m \in Messages, NEW d \in Connections, Grown(c, d, m), NEW op
  PROVE  Has(Queue(d), op) <=> Has(Queue(c), op) \/ m.op = op
<1> DEFINE q == Queue(c)
           r == Queue(d)
<1>1. q \in Seq(Messages) /\ r = Append(q, m)
  BY QueueType DEF Grown
<1> HIDE DEF q, r
<1>2. /\ Len(q) \in Nat /\ Len(r) = Len(q) + 1 /\ r[Len(q) + 1] = m
      /\ \A i \in 1 .. Len(q) : r[i] = q[i]
  BY <1>1, AppendElements
<1>3. 1 .. Len(r) = (1 .. Len(q)) \cup {Len(q) + 1}
  BY <1>2
<1>4. Has(r, op) <=> Has(q, op) \/ m.op = op
  BY <1>2, <1>3 DEF Has
<1> QED BY <1>4 DEF q, r

LEMMA HasDropped ==
  ASSUME NEW c \in Connections, NEW d \in Connections, d.up = c.up, d.outbox = <<>>, NEW op,
         Has(Queue(d), op)
  PROVE  Has(Queue(c), op)
<1> DEFINE q == Queue(c)
           r == Queue(d)
           u == c.up
<1>1. PICK i \in 1 .. Len(r) : r[i].op = op
  BY DEF Has
<1>2. Len(q) = Len(u) + Len(c.outbox) /\ Len(u) \in Nat /\ Len(c.outbox) \in Nat
      /\ \A j \in 1 .. Len(u) : q[j] = u[j]
  BY QueueType
<1>3. Len(r) = Len(u) /\ \A j \in 1 .. Len(u) : r[j] = u[j]
  <2>1. Len(d.outbox) = 0
    OBVIOUS
  <2>2. Len(r) = Len(d.up) + Len(d.outbox) /\ \A j \in 1 .. Len(d.up) : r[j] = d.up[j]
    BY QueueType
  <2>3. d.up = u
    OBVIOUS
  <2> HIDE DEF r, u
  <2> QED BY <1>2, <2>1, <2>2, <2>3
<1>4. \E j \in 1 .. Len(q) : q[j].op = op
  <2> HIDE DEF q, r, u
  <2>1. i \in 1 .. Len(u) /\ i \in 1 .. Len(q)
    BY <1>2, <1>3
  <2> QED BY <1>1, <1>2, <1>3, <2>1
<1> QED BY <1>4 DEF Has

LEMMA HasTail ==
  ASSUME NEW c \in Connections, c.up # <<>>, NEW d \in Connections, d.up = Tail(c.up),
         d.outbox = c.outbox, NEW op
  PROVE  Has(Queue(c), op) <=> Has(Queue(d), op) \/ Head(c.up).op = op
<1> DEFINE q == Queue(c)
           r == Queue(d)
<1>1. /\ Len(q) = Len(r) + 1 /\ Len(r) \in Nat /\ Head(c.up) = q[1]
      /\ \A i \in 1 .. Len(r) : r[i] = q[i + 1]
  BY TailElements
<1> HIDE DEF q, r
<1>2. ASSUME Has(q, op) PROVE Has(r, op) \/ q[1].op = op
  <2>1. PICK i \in 1 .. Len(q) : q[i].op = op
    BY <1>2 DEF Has
  <2>2. CASE i # 1
    <3>1. i - 1 \in 1 .. Len(r) /\ (i - 1) + 1 = i
      BY <1>1, <2>1, <2>2
    <3> QED BY <1>1, <2>1, <3>1 DEF Has
  <2> QED BY <2>1, <2>2
<1>3. ASSUME Has(r, op) PROVE Has(q, op)
  <2>1. PICK i \in 1 .. Len(r) : r[i].op = op
    BY <1>3 DEF Has
  <2>2. i + 1 \in 1 .. Len(q)
    BY <1>1, <2>1
  <2> QED BY <1>1, <2>1, <2>2 DEF Has
<1>4. q[1].op = op => Has(q, op)
  <2>1. 1 \in 1 .. Len(q)
    BY <1>1
  <2> QED BY <2>1 DEF Has
<1>5. Has(q, op) <=> Has(r, op) \/ Head(c.up).op = op
  BY <1>1, <1>2, <1>3, <1>4
<1> QED BY <1>5 DEF q, r

\* No attach waits for the engine that a define does not precede.
DefinesFirst(q, d) ==
  \A i \in 1 .. Len(q) :
    q[i].op = "attach" => d # Untold \/ \E j \in 1 .. i - 1 : q[j].op = "define"

\* The last define that waits, or the one the engine holds, is v.
LatestIs(q, d, v) ==
  \/ \E i \in 1 .. Len(q) : /\ q[i].op = "define" /\ q[i].define = v
                            /\ \A j \in i + 1 .. Len(q) : q[j].op # "define"
  \/ ~Has(q, "define") /\ d = v

LEMMA OrderGrown ==
  ASSUME NEW c \in Connections, NEW m \in Messages, NEW e \in Connections, Grown(c, e, m),
         NEW d, NEW v
  PROVE  /\ /\ DefinesFirst(Queue(c), d)
            /\ m.op = "attach" => d # Untold \/ Has(Queue(c), "define")
            => DefinesFirst(Queue(e), d)
         /\ m.op = "define" => LatestIs(Queue(e), d, m.define)
         /\ m.op # "define" /\ LatestIs(Queue(c), d, v) => LatestIs(Queue(e), d, v)
<1> DEFINE q == Queue(c)
           r == Queue(e)
<1>1. q \in Seq(Messages) /\ r = Append(q, m)
  BY QueueType DEF Grown
<1>2. ASSUME NEW op PROVE Has(r, op) <=> Has(q, op) \/ m.op = op
  BY HasGrown
<1> HIDE DEF q, r
<1>3. /\ Len(q) \in Nat /\ Len(r) = Len(q) + 1 /\ r[Len(q) + 1] = m
      /\ \A i \in 1 .. Len(q) : r[i] = q[i]
  BY <1>1, AppendElements
<1>4. ASSUME DefinesFirst(q, d), m.op = "attach" => d # Untold \/ Has(q, "define")
      PROVE  DefinesFirst(r, d)
  <2> SUFFICES ASSUME NEW i \in 1 .. Len(r), r[i].op = "attach", d = Untold
               PROVE  \E j \in 1 .. i - 1 : r[j].op = "define"
    BY DEF DefinesFirst
  <2>1. CASE i = Len(q) + 1
    <3>1. PICK j \in 1 .. Len(q) : q[j].op = "define"
      BY <1>3, <1>4, <2>1 DEF Has
    <3> QED BY <1>3, <2>1, <3>1
  <2>2. CASE i # Len(q) + 1
    <3>1. i \in 1 .. Len(q)
      BY <1>3, <2>2
    <3>2. PICK j \in 1 .. i - 1 : q[j].op = "define"
      BY <1>3, <1>4, <3>1 DEF DefinesFirst
    <3>3. j \in 1 .. Len(q)
      BY <1>3, <3>1, <3>2
    <3> QED BY <1>3, <3>2, <3>3
  <2> QED BY <2>1, <2>2
<1>5. ASSUME m.op = "define" PROVE LatestIs(r, d, m.define)
  <2>1. Len(r) \in 1 .. Len(r) /\ r[Len(r)] = m /\ \A j \in Len(r) + 1 .. Len(r) : FALSE
    BY <1>3
  <2> QED BY <1>5, <2>1 DEF LatestIs
<1>6. ASSUME m.op # "define", LatestIs(q, d, v) PROVE LatestIs(r, d, v)
  <2>1. CASE ~Has(q, "define") /\ d = v
    BY <1>2, <1>6, <2>1 DEF LatestIs
  <2>2. ASSUME NEW i \in 1 .. Len(q), q[i].op = "define", q[i].define = v,
               \A j \in i + 1 .. Len(q) : q[j].op # "define"
        PROVE  LatestIs(r, d, v)
    <3>1. i \in 1 .. Len(r) /\ r[i] = q[i]
      BY <1>3
    <3>2. ASSUME NEW j \in i + 1 .. Len(r) PROVE r[j].op # "define"
      <4>1. CASE j = Len(q) + 1
        BY <1>3, <1>6, <4>1
      <4>2. CASE j # Len(q) + 1
        <5>1. j \in i + 1 .. Len(q) /\ j \in 1 .. Len(q)
          BY <1>3, <4>2
        <5> QED BY <1>3, <2>2, <5>1
      <4> QED BY <4>1, <4>2
    <3> QED BY <2>2, <3>1, <3>2 DEF LatestIs
  <2> QED BY <1>6, <2>1, <2>2 DEF LatestIs
<1> QED BY <1>4, <1>5, <1>6 DEF q, r

LEMMA OrderDropped ==
  ASSUME NEW c \in Connections, NEW e \in Connections, e.up = c.up, e.outbox = <<>>, NEW d,
         DefinesFirst(Queue(c), d)
  PROVE  DefinesFirst(Queue(e), d)
<1> DEFINE q == Queue(c)
           r == Queue(e)
           u == c.up
<1>1. Len(q) = Len(u) + Len(c.outbox) /\ Len(u) \in Nat /\ Len(c.outbox) \in Nat
      /\ \A j \in 1 .. Len(u) : q[j] = u[j]
  BY QueueType
<1>2. Len(r) = Len(u) /\ \A j \in 1 .. Len(u) : r[j] = u[j]
  <2>1. Len(e.outbox) = 0
    OBVIOUS
  <2>2. Len(r) = Len(e.up) + Len(e.outbox) /\ \A j \in 1 .. Len(e.up) : r[j] = e.up[j]
    BY QueueType
  <2>3. e.up = u
    OBVIOUS
  <2> HIDE DEF r, u
  <2> QED BY <1>1, <2>1, <2>2, <2>3
<1>3. DefinesFirst(q, d)
  OBVIOUS
<1> HIDE DEF q, r, u
<1>4. DefinesFirst(r, d)
  <2> SUFFICES ASSUME NEW i \in 1 .. Len(r), r[i].op = "attach", d = Untold
               PROVE  \E j \in 1 .. i - 1 : r[j].op = "define"
    BY DEF DefinesFirst
  <2>1. i \in 1 .. Len(q) /\ i \in 1 .. Len(u)
    BY <1>1, <1>2
  <2>2. q[i] = r[i]
    BY <1>1, <1>2, <2>1
  <2>3. PICK j \in 1 .. i - 1 : q[j].op = "define"
    BY <1>3, <2>1, <2>2 DEF DefinesFirst
  <2>4. j \in 1 .. Len(u)
    BY <1>1, <2>1, <2>3
  <2> QED BY <1>1, <1>2, <2>3, <2>4
<1> QED BY <1>4 DEF r

LEMMA OrderTail ==
  ASSUME NEW c \in Connections, c.up # <<>>, NEW e \in Connections, e.up = Tail(c.up),
         e.outbox = c.outbox, NEW d, NEW v, NEW k,
         k = IF Head(c.up).op = "define" THEN Head(c.up).define ELSE d
  PROVE  /\ DefinesFirst(Queue(c), d) => DefinesFirst(Queue(e), k)
         /\ LatestIs(Queue(c), d, v) => LatestIs(Queue(e), k, v)
         /\ DefinesFirst(Queue(c), d) /\ Head(c.up).op = "attach" => d # Untold
<1> DEFINE q == Queue(c)
           r == Queue(e)
<1>1. /\ Len(q) = Len(r) + 1 /\ Len(r) \in Nat /\ Head(c.up) = q[1]
      /\ \A i \in 1 .. Len(r) : r[i] = q[i + 1]
  BY TailElements
<1>2. Has(q, "define") <=> Has(r, "define") \/ q[1].op = "define"
  BY <1>1, HasTail
<1>3. q[1].define \in Nat
  <2>1. Head(c.up) \in Messages
    BY ConnectionFields
  <2> QED BY <1>1, <2>1 DEF Messages
<1>4. k = IF q[1].op = "define" THEN q[1].define ELSE d
  BY <1>1
<1> HIDE DEF q, r
<1>5. 1 \in 1 .. Len(q)
  BY <1>1
<1>6. d # Untold => k # Untold
  BY <1>3, <1>4 DEF Untold
<1>7. ASSUME DefinesFirst(q, d) PROVE DefinesFirst(r, k)
  <2> SUFFICES ASSUME NEW i \in 1 .. Len(r), r[i].op = "attach", k = Untold
               PROVE  \E j \in 1 .. i - 1 : r[j].op = "define"
    BY DEF DefinesFirst
  <2>1. i + 1 \in 1 .. Len(q) /\ q[i + 1].op = "attach" /\ (i + 1) - 1 = i
    BY <1>1
  <2>2. PICK j \in 1 .. i : q[j].op = "define"
    BY <1>6, <1>7, <2>1 DEF DefinesFirst
  <2>3. j # 1
    BY <1>3, <1>4, <2>2 DEF Untold
  <2>4. j - 1 \in 1 .. Len(r) /\ j - 1 \in 1 .. i - 1 /\ (j - 1) + 1 = j
    BY <1>1, <2>2, <2>3
  <2>5. r[j - 1].op = "define"
    BY <1>1, <2>2, <2>4
  <2> QED BY <2>4, <2>5
<1>8. ASSUME LatestIs(q, d, v) PROVE LatestIs(r, k, v)
  <2>1. CASE ~Has(q, "define") /\ d = v
    BY <1>2, <1>4, <1>5, <2>1 DEF LatestIs
  <2>2. ASSUME NEW i \in 1 .. Len(q), q[i].op = "define", q[i].define = v,
               \A j \in i + 1 .. Len(q) : q[j].op # "define"
        PROVE  LatestIs(r, k, v)
    <3>1. ASSUME NEW j \in 1 .. Len(r), j + 1 > i PROVE r[j].op # "define"
      <4>1. j + 1 \in i + 1 .. Len(q)
        BY <1>1, <3>1
      <4> QED BY <1>1, <2>2, <4>1
    <3>2. CASE i = 1
      <4>1. ~Has(r, "define")
        BY <1>1, <3>1, <3>2 DEF Has
      <4> QED BY <1>4, <2>2, <3>2, <4>1 DEF LatestIs
    <3>3. CASE i # 1
      <4>1. i - 1 \in 1 .. Len(r) /\ (i - 1) + 1 = i
        BY <1>1, <3>3
      <4>2. r[i - 1] = q[i]
        BY <1>1, <4>1
      <4>3. \A j \in (i - 1) + 1 .. Len(r) : r[j].op # "define"
        <5> SUFFICES ASSUME NEW j \in i .. Len(r) PROVE r[j].op # "define"
          BY <4>1
        <5>1. j \in 1 .. Len(r) /\ j + 1 > i
          BY <1>1, <2>2
        <5> QED BY <3>1, <5>1
      <4> QED BY <2>2, <4>1, <4>2, <4>3 DEF LatestIs
    <3> QED BY <3>2, <3>3
  <2> QED BY <1>8, <2>1, <2>2 DEF LatestIs
<1>9. ASSUME DefinesFirst(q, d), q[1].op = "attach" PROVE d # Untold
  BY <1>5, <1>9 DEF DefinesFirst
<1> QED BY <1>1, <1>7, <1>8, <1>9 DEF q, r

\* What a request of one kind leaves of the messages and of their order.
LEMMA AskedKeeps ==
  ASSUME NEW c \in Connections, NEW e \in Connections, NEW op, NEW v, Asked(c, e, op, v),
         NEW o, NEW d, NEW w
  PROVE  /\ op # o /\ Has(Queue(e), o) => Has(Queue(c), o)
         /\ Usable(e) => Usable(c)
         /\ Usable(e) /\ (Has(Queue(c), o) \/ op = o) => Has(Queue(e), o)
         /\ DefinesFirst(Queue(c), d)
              /\ (op = "attach" => d # Untold \/ Has(Queue(c), "define") \/ ~Usable(c))
              => DefinesFirst(Queue(e), d)
         /\ Usable(e) /\ op = "define" => LatestIs(Queue(e), d, v)
         /\ Usable(e) /\ op # "define" /\ LatestIs(Queue(c), d, w) => LatestIs(Queue(e), d, w)
<1>1. CASE ~Usable(c)
  BY <1>1 DEF Asked
<1>2. CASE Usable(c) /\ Dropped(c, e)
  BY <1>2, HasDropped, OrderDropped DEF Dropped
<1>3. ASSUME Usable(c), NEW m \in Messages, m.op = op, m.define = v, Grown(c, e, m)
      PROVE  /\ Has(Queue(e), o) <=> Has(Queue(c), o) \/ op = o
             /\ DefinesFirst(Queue(c), d) /\ (op = "attach" => d # Untold \/ Has(Queue(c), "define"))
                  => DefinesFirst(Queue(e), d)
             /\ op = "define" => LatestIs(Queue(e), d, v)
             /\ op # "define" /\ LatestIs(Queue(c), d, w) => LatestIs(Queue(e), d, w)
  BY <1>3, HasGrown, OrderGrown
<1> QED BY <1>1, <1>2, <1>3 DEF Asked

-----------------------------------------------------------------------------
(* What every step sends, and to whom it listens. *)

LEMMA StandsWhere ==
  ASSUME turn \in [Turns -> TurnStates], NEW g \in Turns, NEW p \in PCs,
         Becomes(g, p) \/ Ends(g, p)
  PROVE  turn'[g].pc = p
<1>1. PICK t \in TurnStates : turn' = [turn EXCEPT ![g] = t] /\ t.pc = p
  BY BecomesFacts, EndsFacts
<1> QED BY <1>1, TurnMoves

LEMMA ProbeStands ==
  ASSUME turn \in [Turns -> TurnStates], NEW g \in Turns, NEW c, NEW l \in LogOrNone, l # None,
         AttachAndProbe(g, c, l)
  PROVE  turn'[g].pc = "define" /\ Asks(g, c, DefineNow)
<1> DEFINE t == [NoTurn EXCEPT !.pc = "define", !.target = l, !.left = DefineOps]
<1>1. turn' = [turn EXCEPT ![g] = t] /\ Asks(g, c, DefineNow)
  BY DEF AttachAndProbe
<1>2. t \in TurnStates /\ t.pc = "define"
  <2>1. l \in LogOrNone
    OBVIOUS
  <2> QED BY <2>1, TurnBegins, Zenon
<1> HIDE DEF t
<1> QED BY <1>1, <1>2, TurnMoves

Unmoved == UNCHANGED <<owner, attachedTo, liveOn>>

Stops(g) ==
  /\ conn' = conn /\ UNCHANGED <<owner, attachedTo>>
  /\ turn'[g].pc \in {"overtaken", "noConnection", "lost", "idle", "gaveUp", "done", "rest"}
  /\ turn'[g].pc = "rest" => turn[g].pc = "health"
  /\ \/ liveOn' = liveOn
     \/ /\ g = gen /\ turn[g].pc = "health" /\ turn'[g].pc = "done" /\ liveOn' = attachedTo
        /\ await[g].got # Unanswered /\ await[g].got.status = "live"

Opens(g) ==
  /\ turn[g].pc = "connect" /\ turn'[g].pc = "logdir" /\ Unmoved
  /\ Asks(g, AttachTransport(conn), Message("setDir", None, 0))
  /\ Asked(AttachTransport(conn), conn', "setDir", 0)

Defines(g) ==
  /\ turn[g].pc \in {"logdir", "define"} /\ turn'[g].pc = "define" /\ Unmoved
  /\ Asked(conn, conn', "define", prefs)

Attaches(g) ==
  /\ turn[g].pc = "define" /\ turn'[g].pc = "attach"
  /\ owner' = "engine" /\ UNCHANGED <<attachedTo, liveOn>>
  /\ Asked(conn, conn', "attach", 0)

Polls(g) ==
  /\ turn[g].pc \in {"define", "attach", "rest"} /\ turn'[g].pc = "health"
  /\ turn[g].pc # "attach" => attachedTo' = attachedTo
  /\ UNCHANGED <<owner, liveOn>>
  /\ AskHealth(g) /\ Asked(conn, conn', "health", 0)

LEMMA TurnSends ==
  ASSUME TypeInv, NEW g \in Turns, TurnStep(g)
  PROVE  Stops(g) \/ (g = gen /\ (Opens(g) \/ Defines(g) \/ Attaches(g) \/ Polls(g)))
<1>1. /\ turn \in [Turns -> TurnStates] /\ await \in [Askers -> Waits] /\ conn \in Connections
      /\ Flushed(conn) /\ Booked(conn) /\ turn[g] \in TurnStates /\ g \in Askers
      /\ prefs \in Nat /\ None \in LogOrNone
  BY HostAssumption DEF TypeInv, TypeOK, Booked, Askers, LogOrNone
<1>2. turn[g].target \in LogOrNone
  BY <1>1 DEF TurnStates
<1>3. ASSUME AskHealth(g) PROVE Asked(conn, conn', "health", 0)
  BY <1>1, <1>3, AsksAsks DEF AskHealth
<1>4. ASSUME Asks(g, conn, DefineNow) PROVE Asked(conn, conn', "define", prefs)
  BY <1>1, <1>4, AsksAsks DEF DefineNow
<1>5. CASE Connected(g)
  <2>1. turn[g].pc = "connect" /\ UNCHANGED <<owner, attachedTo, liveOn>>
    BY <1>5 DEF Connected, hostVars
  <2>2. CASE g = gen
    <3> DEFINE c == AttachTransport(conn)
    <3>1. Becomes(g, "logdir") /\ Asks(g, c, Message("setDir", None, 0))
      BY <1>5, <2>2 DEF Connected
    <3>2. conn.transport = "none" /\ conn.state = "connecting"
      BY <2>1, <2>2 DEF TypeInv, Fresh
    <3>3. c \in Connections /\ Flushed(c) /\ Booked(c)
      <4>1. c \in Connections /\ c.next = conn.next /\ c.pending = conn.pending /\ c.state = "connecting"
        BY <1>1, <3>2, AttachFacts
      <4> QED BY <1>1, <4>1 DEF Flushed, Booked
    <3>4. Asked(c, conn', "setDir", 0)
      <4> HIDE DEF c
      <4> QED BY <1>1, <3>1, <3>3, AsksAsks
    <3>5. turn'[g].pc = "logdir"
      BY <1>1, <3>1, StandsWhere DEF PCs
    <3> QED BY <2>1, <2>2, <3>1, <3>4, <3>5 DEF Opens, Unmoved
  <2>3. CASE g # gen
    <3>1. Ends(g, "overtaken") /\ conn' = conn
      BY <1>5, <2>3 DEF Connected
    <3>2. turn'[g].pc = "overtaken"
      BY <1>1, <3>1, StandsWhere DEF PCs
    <3> QED BY <2>1, <3>1, <3>2 DEF Stops
  <2> QED BY <2>2, <2>3
<1>6. CASE CouldNotConnect(g)
  <2>1. Ends(g, "noConnection") /\ UNCHANGED <<owner, attachedTo, liveOn, conn>>
    BY <1>6 DEF CouldNotConnect, hostVars
  <2>2. turn'[g].pc = "noConnection"
    BY <1>1, <2>1, StandsWhere DEF PCs
  <2> QED BY <2>1, <2>2 DEF Stops
<1>7. CASE Lost(g)
  <2>1. Ends(g, "lost") /\ UNCHANGED <<owner, attachedTo, liveOn, conn>>
    BY <1>7 DEF Lost, hostVars
  <2>2. turn'[g].pc = "lost"
    BY <1>1, <2>1, StandsWhere DEF PCs
  <2> QED BY <2>1, <2>2 DEF Stops
<1>8. CASE LogDirPushed(g)
  <2>1. /\ turn[g].pc = "logdir" /\ g = gen /\ AttachAndProbe(g, conn, AttachTarget)
        /\ UNCHANGED <<owner, attachedTo, liveOn>>
    BY <1>8 DEF LogDirPushed, Resumes, hostVars
  <2>2. CASE AttachTarget = None
    <3>1. Becomes(g, "idle") /\ conn' = conn
      BY <2>1, <2>2 DEF AttachAndProbe, Becomes
    <3>2. turn'[g].pc = "idle"
      BY <1>1, <3>1, StandsWhere DEF PCs
    <3> QED BY <2>1, <3>1, <3>2 DEF Stops
  <2>3. CASE AttachTarget # None
    <3>1. AttachTarget \in LogOrNone
      BY DEF AttachTarget, TypeInv, TypeOK
    <3>2. turn'[g].pc = "define" /\ Asks(g, conn, DefineNow)
      BY <1>1, <2>1, <2>3, <3>1, ProbeStands
    <3> QED BY <1>4, <2>1, <3>2 DEF Defines, Unmoved
  <2> QED BY <2>2, <2>3
<1>9. CASE DefinePushed(g)
  <2>1. turn[g].pc = "define" /\ g = gen /\ UNCHANGED <<attachedTo, liveOn>>
    BY <1>9 DEF DefinePushed, Resumes
  <2>2. CASE turn[g].left > 1
    <3>1. turn' = [turn EXCEPT ![g].left = @ - 1] /\ Asks(g, conn, DefineNow) /\ owner' = owner
      BY <1>9, <2>2 DEF DefinePushed
    <3>2. turn'[g].pc = "define"
      BY <1>1, <2>1, <3>1 DEF TurnStates
    <3> QED BY <1>4, <2>1, <3>1, <3>2 DEF Defines, Unmoved
  <2>3. CASE ~(turn[g].left > 1) /\ attachedTo # turn[g].target
    <3>1. Becomes(g, "attach") /\ owner' = "engine" /\ Asks(g, conn, Message("attach", turn[g].target, 0))
      BY <1>9, <2>3 DEF DefinePushed, SendAttach
    <3>2. turn'[g].pc = "attach"
      BY <1>1, <3>1, StandsWhere DEF PCs
    <3>3. Asked(conn, conn', "attach", 0)
      BY <1>1, <1>2, <3>1, AsksAsks
    <3> QED BY <2>1, <3>1, <3>2, <3>3 DEF Attaches
  <2>4. CASE ~(turn[g].left > 1) /\ attachedTo = turn[g].target
    <3>1. Becomes(g, "health") /\ owner' = owner /\ AskHealth(g)
      BY <1>9, <2>4 DEF DefinePushed
    <3>2. turn'[g].pc = "health"
      BY <1>1, <3>1, StandsWhere DEF PCs
    <3> QED BY <1>3, <2>1, <3>1, <3>2 DEF Polls
  <2> QED BY <2>2, <2>3, <2>4
<1>10. CASE AttachAnswered(g)
  <2>1. turn[g].pc = "attach" /\ g = gen /\ UNCHANGED <<owner, liveOn>>
    BY <1>10 DEF AttachAnswered, Resumes
  <2>2. CASE await[g].got = Refused
    <3>1. Ends(g, "gaveUp") /\ UNCHANGED <<attachedTo, conn>>
      BY <1>10, <2>2 DEF AttachAnswered
    <3>2. turn'[g].pc = "gaveUp"
      BY <1>1, <3>1, StandsWhere DEF PCs
    <3> QED BY <2>1, <3>1, <3>2 DEF Stops
  <2>3. CASE await[g].got # Refused
    <3>1. Becomes(g, "health") /\ AskHealth(g)
      BY <1>10, <2>3 DEF AttachAnswered
    <3>2. turn'[g].pc = "health"
      BY <1>1, <3>1, StandsWhere DEF PCs
    <3> QED BY <1>3, <2>1, <3>1, <3>2 DEF Polls
  <2> QED BY <2>2, <2>3
<1>11. CASE HealthAnswered(g)
  <2>1. turn[g].pc = "health" /\ g = gen /\ await[g].got # Unanswered
        /\ UNCHANGED <<owner, attachedTo, conn>>
    BY <1>11 DEF HealthAnswered, Resumes
  <2>2. CASE await[g].got = Refused \/ await[g].got.status # "live"
    <3>1. liveOn' = liveOn
      BY <1>11, <2>2 DEF HealthAnswered, Refused
    <3>2. \/ Ends(g, "gaveUp")
          \/ turn' = [turn EXCEPT ![g].refusals = turn[g].refusals + 1, ![g].pc = "rest"]
          \/ turn' = [turn EXCEPT ![g].refusals = 0, ![g].polls = @ + 1, ![g].pc = "rest"]
      BY <1>11, <2>2 DEF HealthAnswered
    <3>3. CASE Ends(g, "gaveUp")
      <4>1. turn'[g].pc = "gaveUp"
        BY <1>1, <3>3, StandsWhere DEF PCs
      <4> QED BY <2>1, <3>1, <4>1 DEF Stops
    <3>4. CASE \/ turn' = [turn EXCEPT ![g].refusals = turn[g].refusals + 1, ![g].pc = "rest"]
               \/ turn' = [turn EXCEPT ![g].refusals = 0, ![g].polls = @ + 1, ![g].pc = "rest"]
      <4>1. turn'[g].pc = "rest"
        BY <1>1, <3>4 DEF TurnStates
      <4> QED BY <2>1, <3>1, <4>1 DEF Stops
    <3> QED BY <3>2, <3>3, <3>4
  <2>3. CASE await[g].got # Refused /\ await[g].got.status = "live"
    <3>1. Ends(g, "done") /\ liveOn' = attachedTo
      BY <1>11, <2>3 DEF HealthAnswered
    <3>2. turn'[g].pc = "done"
      BY <1>1, <3>1, StandsWhere DEF PCs
    <3> QED BY <2>1, <2>3, <3>1, <3>2 DEF Stops
  <2> QED BY <2>2, <2>3
<1>12. CASE Rested(g)
  <2>1. turn[g].pc = "rest" /\ UNCHANGED <<owner, attachedTo, liveOn>>
    BY <1>12 DEF Rested, hostVars
  <2>2. CASE g = gen
    <3>1. Becomes(g, "health") /\ AskHealth(g)
      BY <1>12, <2>2 DEF Rested
    <3>2. turn'[g].pc = "health"
      BY <1>1, <3>1, StandsWhere DEF PCs
    <3> QED BY <1>3, <2>1, <2>2, <3>1, <3>2 DEF Polls
  <2>3. CASE g # gen
    <3>1. Ends(g, "lost") /\ conn' = conn
      BY <1>12, <2>3 DEF Rested
    <3>2. turn'[g].pc = "lost"
      BY <1>1, <3>1, StandsWhere DEF PCs
    <3> QED BY <2>1, <3>1, <3>2 DEF Stops
  <2> QED BY <2>2, <2>3
<1> QED BY <1>5, <1>6, <1>7, <1>8, <1>9, <1>10, <1>11, <1>12 DEF TurnStep

Writes ==
  /\ prefs' = prefs + 1 /\ UNCHANGED engine
  /\ IF live # 0 /\ Usable(conn) THEN Asked(conn, conn', "define", prefs') ELSE conn' = conn

Snapshots ==
  /\ UNCHANGED <<engine, prefs>> /\ Asked(conn, conn', "snapshot", 0)

Carries ==
  /\ UNCHANGED prefs
  /\ engine'.log = engine.log /\ engine'.define = engine.define /\ engine'.told = engine.told
  /\ engine.landed => engine'.landed
  /\ engine'.status = "live" => engine'.landed \/ engine.status = "live"
  /\ Same(conn, conn') \/ Dropped(conn, conn')

Handles ==
  /\ UNCHANGED prefs /\ EngineHandles
  /\ conn.up # <<>> /\ engine' = Handled(Head(conn.up)) /\ Head(conn.up) \in Messages
  /\ conn'.up = Tail(conn.up) /\ conn'.outbox = conn.outbox /\ conn'.state = conn.state
  /\ conn'.next = conn.next
  /\ Down(conn') \subseteq Down(conn) \cup {[id |-> Head(conn.up).id, answer |-> Replied(Head(conn.up))]}

LEMMA WireSends ==
  ASSUME TypeInv,
         \/ PreferenceWritten \/ AskRead \/ ReadAnswered \/ ReaderGivesUp
         \/ EngineHandles \/ FoldLands \/ FoldFails \/ Deliver
         \/ \E id \in conn.pending : Deadline(id)
         \/ \E cleanly \in BOOLEAN : SocketLost(cleanly)
  PROVE  Writes \/ Snapshots \/ Carries \/ Handles
<1>1. /\ await \in [Askers -> Waits] /\ conn \in Connections /\ engine \in Engines
      /\ Flushed(conn) /\ Booked(conn) /\ Reader \in Askers /\ prefs \in Nat /\ None \in LogOrNone
  BY HostAssumption DEF TypeInv, TypeOK, Booked, Askers, LogOrNone
<1>2. CASE PreferenceWritten
  <2>1. prefs' = prefs + 1 /\ engine' = engine
    BY <1>2 DEF PreferenceWritten
  <2>2. CASE live # 0 /\ Usable(conn)
    <3> DEFINE m == Message("define", None, prefs')
    <3>1. Reconnected(Request(conn, m))
      BY <1>2, <2>2 DEF PreferenceWritten
    <3>2. m \in Messages /\ m.op = "define" /\ m.define = prefs'
      BY <1>1, <2>1, MessageType
    <3> HIDE DEF m
    <3>3. conn' = Request(conn, m)
      BY <1>1, <3>1, ReconnectedFacts
    <3>4. Asked(conn, Request(conn, m), m.op, m.define)
      BY <1>1, <2>2, <3>2, RequestAsks
    <3> QED BY <2>1, <2>2, <3>2, <3>3, <3>4 DEF Writes
  <2>3. CASE ~(live # 0 /\ Usable(conn))
    BY <1>2, <2>1, <2>3 DEF PreferenceWritten, Writes
  <2> QED BY <2>2, <2>3
<1>3. CASE AskRead
  <2>1. /\ UNCHANGED <<engine, prefs>> /\ Asks(Reader, conn, Message("snapshot", None, 0))
    BY <1>3 DEF AskRead
  <2>2. Asked(conn, conn', "snapshot", 0)
    BY <1>1, <2>1, AsksAsks
  <2> QED BY <2>1, <2>2 DEF Snapshots
<1>4. CASE ReadAnswered \/ ReaderGivesUp
  BY <1>4 DEF ReadAnswered, ReaderGivesUp, Carries, Same
<1>5. CASE FoldLands \/ FoldFails
  BY <1>1, <1>5 DEF FoldLands, FoldFails, Carries, Same, Engines
<1>6. CASE EngineHandles
  <2> DEFINE reply == [id |-> Head(conn.up).id, answer |-> Replied(Head(conn.up))]
             down == IF conn.transport = "open" THEN Append(conn.down, reply) ELSE conn.down
  <2>1. /\ conn.up # <<>> /\ engine' = Handled(Head(conn.up)) /\ prefs' = prefs
        /\ conn' = [conn EXCEPT !.up = Tail(conn.up), !.down = down]
    BY <1>6 DEF EngineHandles
  <2>2. Head(conn.up) \in Messages
    BY <1>1, <2>1, ConnectionFields
  <2>3. reply \in Replies
    <3>1. Head(conn.up).id \in Nat /\ Replied(Head(conn.up)) \in Outcomes
      BY <1>1, <2>2, OutcomeTypes DEF Engines, Replied, Messages
    <3> QED BY <3>1 DEF Replies
  <2> HIDE DEF down
  <2>4. /\ conn'.up = Tail(conn.up) /\ conn'.outbox = conn.outbox /\ conn'.state = conn.state
        /\ conn'.next = conn.next /\ conn'.down = down
    BY <1>1, <2>1 DEF Connections
  <2>5. Down(conn') \subseteq Down(conn) \cup {reply}
    <3>1. conn'.down = conn.down => Down(conn') = Down(conn)
      BY DEF Down
    <3> HIDE DEF reply
    <3>2. conn'.down = Append(conn.down, reply) => Down(conn') \subseteq Down(conn) \cup {reply}
      BY <1>1, <2>3, DownAppend
    <3> QED BY <2>4, <3>1, <3>2 DEF down
  <2> QED BY <1>6, <2>1, <2>2, <2>4, <2>5 DEF Handles
<1>7. CASE Deliver
  <2> DEFINE reply == Head(conn.down)
             c == [conn EXCEPT !.down = Tail(conn.down)]
  <2>1. UNCHANGED <<engine, prefs>> /\ conn.down # <<>>
    BY <1>7 DEF Deliver
  <2>2. /\ c \in Connections /\ c.state = conn.state /\ c.up = conn.up /\ c.outbox = conn.outbox
        /\ c.next = conn.next /\ c.down = Tail(conn.down)
    <3> DEFINE down == Tail(conn.down)
    <3>1. down \in Seq(Replies)
      BY <1>1, <2>1, ConnectionFields
    <3> HIDE DEF down
    <3> QED BY <1>1, <3>1 DEF Connections, down
  <2>3. Flushed(c) /\ Queue(c) = Queue(conn)
    BY <1>1, <2>2 DEF Flushed, Queue
  <2> DEFINE Shrunk == conn'.down = Tail(conn.down) => Down(conn') \subseteq Down(conn)
  <2>6. Shrunk
    BY <1>1, <2>1, DownTail
  <2>4. CASE reply.id = 0
    <3>1. Reconnected(OnHelloReply(c, TRUE))
      BY <1>7, <2>4 DEF Deliver
    <3> HIDE DEF c
    <3>2. conn' = OnHelloReply(c, TRUE)
      BY <1>1, <3>1, ReconnectedFacts
    <3>3. /\ Queue(conn') = Queue(c) /\ conn'.next = c.next /\ conn'.down = c.down
          /\ conn'.state = IF c.state = "connecting" THEN "ready" ELSE c.state
      BY <2>2, <2>3, <3>2, HelloFacts
    <3> QED BY <2>1, <2>2, <2>3, <2>6, <3>3 DEF Carries, Same, Usable
  <2>5. CASE reply.id # 0
    <3>1. conn' = TakePending(c, reply.id)
      BY <1>7, <2>5 DEF Deliver
    <3> HIDE DEF c, reply
    <3>2. /\ conn'.state = c.state /\ conn'.up = c.up /\ conn'.outbox = c.outbox
          /\ conn'.next = c.next /\ conn'.down = c.down
      BY <2>2, <3>1, TakeFacts
    <3> QED BY <2>1, <2>2, <2>6, <3>2 DEF Carries, Same, Usable, Queue
  <2> QED BY <2>4, <2>5
<1>8. ASSUME NEW id \in conn.pending, Deadline(id) PROVE Carries
  <2>1. UNCHANGED <<engine, prefs>> /\ Reconnected(TakePending(conn, id))
    BY <1>8 DEF Deadline
  <2>2. conn' = TakePending(conn, id)
    BY <1>1, <2>1, ReconnectedFacts
  <2>3. /\ conn'.state = conn.state /\ conn'.up = conn.up /\ conn'.outbox = conn.outbox
        /\ conn'.next = conn.next /\ conn'.down = conn.down
    BY <1>1, <2>2, TakeFacts
  <2> QED BY <2>1, <2>3 DEF Carries, Same, Usable, Queue, Down
<1>9. ASSUME NEW cleanly \in BOOLEAN, SocketLost(cleanly) PROVE Carries
  <2>1. UNCHANGED <<engine, prefs>>
        /\ Reconnected(IF cleanly THEN EndTransport(conn) ELSE FailConnection(conn))
    BY <1>9 DEF SocketLost
  <2>2. conn' = IF cleanly THEN EndTransport(conn) ELSE FailConnection(conn)
    BY <1>1, <2>1, ReconnectedFacts
  <2>3. CASE cleanly
    <3>1. /\ conn'.state = conn.state /\ conn'.up = conn.up /\ conn'.outbox = conn.outbox
          /\ conn'.next = conn.next /\ conn'.down = <<>>
      BY <1>1, <2>2, <2>3, EndTransportFacts
    <3>2. Down(conn') = {}
      BY <3>1, EmptyDown
    <3> QED BY <2>1, <3>1, <3>2 DEF Carries, Same, Usable, Queue
  <2>4. CASE ~cleanly /\ Usable(conn)
    <3>1. /\ conn'.state = "failed" /\ conn'.up = conn.up /\ conn'.outbox = <<>>
          /\ conn'.next = conn.next /\ conn'.down = <<>> /\ conn.next \in Nat
      BY <1>1, <2>2, <2>4, FailFacts, ConnectionFields
    <3>2. Down(conn') = {}
      BY <3>1, EmptyDown
    <3> QED BY <2>1, <3>1, <3>2 DEF Carries, Dropped, Usable
  <2>5. CASE ~cleanly /\ ~Usable(conn)
    BY <2>1, <2>2, <2>5 DEF Carries, Same, FailConnection
  <2> QED BY <2>3, <2>4, <2>5
<1> QED BY <1>2, <1>3, <1>4, <1>5, <1>6, <1>7, <1>8, <1>9

Launches ==
  /\ live' = gen + 1 /\ attachedTo' = None /\ owner' = "app"
  /\ conn' = NewConnection /\ engine' = NewEngine
  /\ gen + 1 \in Turns /\ turn'[gen + 1].pc = "connect"

Ceases == live' = 0 /\ engine' = NewEngine

Rebuilds ==
  /\ UNCHANGED <<live, owner, engine, prefs>> /\ gen + 1 \in Turns
  /\ \/ /\ turn'[gen + 1].pc = "define" /\ UNCHANGED attachedTo
        /\ Asked(conn, conn', "define", prefs)
     \/ turn'[gen + 1].pc = "none" /\ attachedTo' = None /\ conn' = conn

LEMMA EdgeSends ==
  ASSUME TypeInv,
         \/ LaunchReady \/ LaunchOver \/ StopEngineClient
         \/ \E log \in Logs \cup {None} : WorldRebuilt(log)
  PROVE  Launches \/ Ceases \/ Rebuilds
<1>1. /\ turn \in [Turns -> TurnStates] /\ await \in [Askers -> Waits] /\ conn \in Connections
      /\ Flushed(conn) /\ Booked(conn) /\ gen \in Nat /\ MaxTurns \in Nat
      /\ prefs \in Nat /\ None \in LogOrNone
  BY HostAssumption DEF TypeInv, TypeOK, Booked, LogOrNone
<1>2. gen < MaxTurns => gen + 1 \in Turns
  BY <1>1 DEF Turns
<1>3. CASE LaunchReady
  <2>1. /\ live' = gen + 1 /\ attachedTo' = None /\ owner' = "app" /\ conn' = NewConnection
        /\ engine' = NewEngine /\ turn' = [turn EXCEPT ![gen + 1].pc = "connect"] /\ gen < MaxTurns
    BY <1>3 DEF LaunchReady
  <2>2. turn'[gen + 1].pc = "connect"
    BY <1>1, <1>2, <2>1 DEF TurnStates
  <2> QED BY <1>2, <2>1, <2>2 DEF Launches
<1>4. CASE LaunchOver \/ StopEngineClient
  BY <1>4 DEF LaunchOver, StopEngineClient, Ceases
<1>5. ASSUME NEW log \in Logs \cup {None}, WorldRebuilt(log) PROVE Rebuilds
  <2>1. UNCHANGED <<live, owner, engine, prefs>> /\ gen < MaxTurns /\ log \in LogOrNone
    BY <1>5 DEF WorldRebuilt, LogOrNone
  <2>2. CASE live # 0 /\ log # None
    <3>1. AttachAndProbe(gen + 1, conn, log) /\ attachedTo' = attachedTo
      BY <1>5, <2>2 DEF WorldRebuilt
    <3>2. turn'[gen + 1].pc = "define" /\ Asks(gen + 1, conn, DefineNow)
      BY <1>1, <1>2, <2>1, <2>2, <3>1, ProbeStands
    <3>3. gen + 1 \in Askers
      BY <1>2, <2>1 DEF Askers
    <3>4. Asked(conn, conn', "define", prefs)
      BY <1>1, <3>2, <3>3, AsksAsks DEF DefineNow
    <3> QED BY <1>2, <2>1, <3>1, <3>2, <3>4 DEF Rebuilds
  <2>3. CASE ~(live # 0 /\ log # None)
    <3>1. attachedTo' = None /\ UNCHANGED <<conn, turn>>
      BY <1>5, <2>3 DEF WorldRebuilt
    <3>2. turn[gen + 1].pc = "none"
      BY <1>1, <1>2, <2>1 DEF TypeInv, Unborn
    <3> QED BY <1>2, <2>1, <3>1, <3>2 DEF Rebuilds
  <2> QED BY <2>2, <2>3
<1> QED BY <1>3, <1>4, <1>5

-----------------------------------------------------------------------------
(* One writer for the artifacts, and what the app knows before every fold. *)

\* Where a turn has pushed what the app knows, and has not ended.
Pushed == {"define", "attach", "health", "rest"}

\* Of a launch: who writes the artifacts, and in which order it is told things.
LaunchInv ==
  live # 0 =>
    /\ engine.told \/ Has(Queue(conn), "attach") => owner = "engine"
    /\ owner = "engine" => engine.told \/ Has(Queue(conn), "attach") \/ ~Usable(conn)
    /\ DefinesFirst(Queue(conn), engine.define)
    /\ gen \in Turns /\ turn[gen].pc = "connect" =>
         attachedTo = None /\ ~Has(Queue(conn), "attach")
    /\ gen \in Turns /\ turn[gen].pc = "define" =>
         engine.define # Untold \/ Has(Queue(conn), "define") \/ ~Usable(conn)
    /\ Usable(conn) /\ (attachedTo # None \/ (gen \in Turns /\ turn[gen].pc \in Pushed)) =>
         LatestIs(Queue(conn), engine.define, prefs)

\* No log is folded before the engine was told what the app knows.
ToldFirst == engine.log # None => engine.define # Untold

LEMMA TurnKeeps ==
  ASSUME TypeInv, TypeInv', LaunchInv, ToldFirst, NEW g \in Turns, TurnStep(g)
  PROVE  LaunchInv' /\ ToldFirst'
<1>1. /\ UNCHANGED <<gen, live, engine, prefs>> /\ (g # gen => conn' = conn)
      /\ \A k \in Turns \ {g} : turn'[k] = turn[k]
  <2>1. TurnMoved(g) /\ turn \in [Turns -> TurnStates]
    BY TurnStepMoves DEF TypeInv, TypeOK
  <2> QED BY <2>1, TurnMoves DEF TurnMoved
<1>2. conn \in Connections /\ conn' \in Connections /\ Flushed(conn) /\ Booked(conn)
  BY DEF TypeInv, TypeOK, Booked
<1>3. ToldFirst'
  BY <1>1 DEF ToldFirst
<1>4. SUFFICES ASSUME live # 0 PROVE LaunchInv'
  BY <1>1, <1>3 DEF LaunchInv
<1>5. CASE Stops(g)
  <2>1. conn' = conn /\ UNCHANGED <<owner, attachedTo>>
    BY <1>5 DEF Stops
  <2>2. gen \in Turns => turn'[gen].pc = turn[gen].pc \/ turn'[gen].pc \notin {"connect", "define", "attach", "health", "rest"}
                         \/ (turn'[gen].pc = "rest" /\ turn[gen].pc = "health")
    BY <1>1, <1>5 DEF Stops
  <2>3. /\ (gen \in Turns /\ turn[gen].pc \in Pushed)' => gen \in Turns /\ turn[gen].pc \in Pushed
        /\ (gen \in Turns /\ turn[gen].pc = "connect")' => gen \in Turns /\ turn[gen].pc = "connect"
        /\ (gen \in Turns /\ turn[gen].pc = "define")' => gen \in Turns /\ turn[gen].pc = "define"
    BY <1>1, <2>2 DEF Pushed
  <2>4. /\ gen' = gen /\ live' = live /\ engine' = engine /\ prefs' = prefs /\ conn' = conn
        /\ owner' = owner /\ attachedTo' = attachedTo
    BY <1>1, <2>1
  <2> QED BY <1>4, <2>3, <2>4 DEF LaunchInv
<1>6. CASE g = gen /\ Opens(g)
  <2> DEFINE c == AttachTransport(conn)
  <2>1. turn[gen].pc = "connect" /\ turn'[gen].pc = "logdir" /\ UNCHANGED <<owner, attachedTo>>
        /\ Asked(c, conn', "setDir", 0)
    BY <1>6 DEF Opens, Unmoved
  <2>2. conn.transport = "none" /\ conn.state = "connecting" /\ conn.up = <<>>
    BY <1>6, <2>1 DEF TypeInv, Fresh
  <2>3. c \in Connections /\ c.up = <<Hello>> /\ c.outbox = conn.outbox
    BY <1>2, <2>2, AttachFacts
  <2>4. attachedTo = None /\ ~Has(Queue(conn), "attach")
    BY <1>4, <1>6, <2>1 DEF LaunchInv
  <2> HIDE DEF c
  <2>5. ~Has(Queue(c), "attach")
    <3>1. c.up # <<>> /\ conn.up = Tail(c.up) /\ Head(c.up) = Hello
      BY <2>2, <2>3
    <3>2. Hello.op # "attach"
      BY DEF Hello, Message
    <3> QED BY <1>2, <2>3, <2>4, <3>1, <3>2, HasTail
  <2>6. ~Has(Queue(conn'), "attach")
    BY <1>2, <2>1, <2>3, <2>5, AskedKeeps
  <2>7. DefinesFirst(Queue(conn'), engine.define)
    BY <2>6 DEF DefinesFirst, Has
  <2>8. owner = "engine" => engine.told
    BY <1>4, <2>2, <2>4 DEF LaunchInv, Usable
  <2> QED BY <1>1, <1>4, <2>1, <2>4, <2>6, <2>7, <2>8 DEF LaunchInv, Pushed
<1>7. CASE g = gen /\ Defines(g)
  <2>1. /\ turn[gen].pc # "connect" /\ turn'[gen].pc = "define" /\ UNCHANGED <<owner, attachedTo>>
        /\ Asked(conn, conn', "define", prefs)
    BY <1>7 DEF Defines, Unmoved
  <2>2. /\ Has(Queue(conn'), "attach") => Has(Queue(conn), "attach")
        /\ Usable(conn') => Usable(conn) /\ (Has(Queue(conn), "attach") => Has(Queue(conn'), "attach"))
        /\ Usable(conn') => Has(Queue(conn'), "define")
        /\ DefinesFirst(Queue(conn), engine.define) => DefinesFirst(Queue(conn'), engine.define)
        /\ Usable(conn') => LatestIs(Queue(conn'), engine.define, prefs)
    BY <1>2, <2>1, AskedKeeps
  <2> QED BY <1>1, <1>4, <2>1, <2>2 DEF LaunchInv
<1>8. CASE g = gen /\ Attaches(g)
  <2>1. /\ turn[gen].pc = "define" /\ turn'[gen].pc = "attach" /\ owner' = "engine" /\ attachedTo' = attachedTo
        /\ Asked(conn, conn', "attach", 0)
    BY <1>8 DEF Attaches
  <2>2. engine.define # Untold \/ Has(Queue(conn), "define") \/ ~Usable(conn)
    BY <1>4, <1>8, <2>1 DEF LaunchInv
  <2>3. /\ Usable(conn') => Usable(conn) /\ Has(Queue(conn'), "attach")
        /\ DefinesFirst(Queue(conn), engine.define) => DefinesFirst(Queue(conn'), engine.define)
        /\ Usable(conn') /\ LatestIs(Queue(conn), engine.define, prefs)
             => LatestIs(Queue(conn'), engine.define, prefs)
    BY <1>2, <2>1, <2>2, AskedKeeps
  <2> QED BY <1>1, <1>4, <1>8, <2>1, <2>3 DEF LaunchInv, Pushed
<1>9. CASE g = gen /\ Polls(g)
  <2>1. /\ turn[gen].pc \in {"define", "attach", "rest"} /\ turn'[gen].pc = "health" /\ owner' = owner
        /\ Asked(conn, conn', "health", 0)
    BY <1>9 DEF Polls
  <2>2. /\ Has(Queue(conn'), "attach") => Has(Queue(conn), "attach")
        /\ Usable(conn') => Usable(conn) /\ (Has(Queue(conn), "attach") => Has(Queue(conn'), "attach"))
        /\ DefinesFirst(Queue(conn), engine.define) => DefinesFirst(Queue(conn'), engine.define)
        /\ Usable(conn') /\ LatestIs(Queue(conn), engine.define, prefs)
             => LatestIs(Queue(conn'), engine.define, prefs)
    BY <1>2, <2>1, AskedKeeps
  <2> QED BY <1>1, <1>4, <1>9, <2>1, <2>2 DEF LaunchInv, Pushed
<1> QED BY <1>5, <1>6, <1>7, <1>8, <1>9, TurnSends

LEMMA WireKeeps ==
  ASSUME TypeInv, TypeInv', LaunchInv, ToldFirst,
         \/ PreferenceWritten \/ AskRead \/ ReadAnswered \/ ReaderGivesUp
         \/ EngineHandles \/ FoldLands \/ FoldFails \/ Deliver
         \/ \E id \in conn.pending : Deadline(id)
         \/ \E cleanly \in BOOLEAN : SocketLost(cleanly)
  PROVE  LaunchInv' /\ ToldFirst'
<1>1. UNCHANGED <<gen, live, owner, attachedTo, turn>>
  BY WireTypes DEF hostVars
<1>2. conn \in Connections /\ conn' \in Connections /\ engine \in Engines
  BY DEF TypeInv, TypeOK
<1>3. CASE Writes
  <2>1. engine' = engine
    BY <1>3 DEF Writes
  <2>2. CASE live # 0 /\ Usable(conn)
    <3>1. Asked(conn, conn', "define", prefs')
      BY <1>3, <2>2 DEF Writes
    <3>2. /\ Has(Queue(conn'), "attach") => Has(Queue(conn), "attach")
          /\ Usable(conn') => (Has(Queue(conn), "attach") => Has(Queue(conn'), "attach"))
          /\ Usable(conn') => Has(Queue(conn'), "define")
          /\ DefinesFirst(Queue(conn), engine.define) => DefinesFirst(Queue(conn'), engine.define)
          /\ Usable(conn') => LatestIs(Queue(conn'), engine.define, prefs')
      BY <1>2, <3>1, AskedKeeps
    <3> QED BY <1>1, <2>1, <2>2, <3>2 DEF LaunchInv, ToldFirst
  <2>3. CASE ~(live # 0 /\ Usable(conn))
    <3>1. conn' = conn
      BY <1>3, <2>3 DEF Writes
    <3> QED BY <1>1, <2>1, <2>3, <3>1 DEF LaunchInv, ToldFirst
  <2> QED BY <2>2, <2>3
<1>4. CASE Snapshots
  <2>1. UNCHANGED <<engine, prefs>> /\ Asked(conn, conn', "snapshot", 0)
    BY <1>4 DEF Snapshots
  <2>2. /\ Has(Queue(conn'), "attach") => Has(Queue(conn), "attach")
        /\ Usable(conn') => Usable(conn) /\ (Has(Queue(conn), "attach") => Has(Queue(conn'), "attach"))
        /\ Usable(conn') => (Has(Queue(conn), "define") => Has(Queue(conn'), "define"))
        /\ DefinesFirst(Queue(conn), engine.define) => DefinesFirst(Queue(conn'), engine.define)
        /\ Usable(conn') /\ LatestIs(Queue(conn), engine.define, prefs)
             => LatestIs(Queue(conn'), engine.define, prefs)
    BY <1>2, <2>1, AskedKeeps
  <2> QED BY <1>1, <2>1, <2>2 DEF LaunchInv, ToldFirst
<1>5. CASE Carries
  <2>1. /\ prefs' = prefs
        /\ engine'.log = engine.log /\ engine'.define = engine.define /\ engine'.told = engine.told
    BY <1>5 DEF Carries
  <2>2. CASE Same(conn, conn')
    BY <1>1, <2>1, <2>2 DEF LaunchInv, ToldFirst, Same
  <2>3. CASE Dropped(conn, conn')
    <3>1. /\ ~Usable(conn')
          /\ Has(Queue(conn'), "attach") => Has(Queue(conn), "attach")
          /\ DefinesFirst(Queue(conn), engine.define) => DefinesFirst(Queue(conn'), engine.define)
      BY <1>2, <2>3, HasDropped, OrderDropped DEF Dropped
    <3> QED BY <1>1, <2>1, <3>1 DEF LaunchInv, ToldFirst
  <2> QED BY <1>5, <2>2, <2>3 DEF Carries
<1>6. CASE Handles
  <2> DEFINE m == Head(conn.up)
  <2>1. /\ live # 0 /\ prefs' = prefs /\ conn.up # <<>> /\ engine' = Handled(m) /\ m \in Messages
        /\ conn'.up = Tail(conn.up) /\ conn'.outbox = conn.outbox
        /\ (Usable(conn') <=> Usable(conn))
    BY <1>6 DEF Handles, EngineHandles, Usable
  <2>2. /\ engine'.define = IF m.op = "define" THEN m.define ELSE engine.define
        /\ engine'.told = (engine.told \/ m.op = "attach")
        /\ engine'.log = IF m.op = "attach" THEN m.log ELSE engine.log
    <3> HIDE DEF m
    <3> QED BY <1>2, <2>1 DEF Handled, Engines
  <2>3. /\ Has(Queue(conn), "attach") <=> Has(Queue(conn'), "attach") \/ m.op = "attach"
        /\ Has(Queue(conn), "define") <=> Has(Queue(conn'), "define") \/ m.op = "define"
    BY <1>2, <2>1, HasTail
  <2>4. /\ DefinesFirst(Queue(conn), engine.define) => DefinesFirst(Queue(conn'), engine'.define)
        /\ LatestIs(Queue(conn), engine.define, prefs) => LatestIs(Queue(conn'), engine'.define, prefs)
        /\ DefinesFirst(Queue(conn), engine.define) /\ m.op = "attach" => engine.define # Untold
    BY <1>2, <2>1, <2>2, OrderTail
  <2>5. m.op = "define" => m.define # Untold
    BY <2>1 DEF Messages, Untold
  <2> HIDE DEF m
  <2>6. DefinesFirst(Queue(conn), engine.define)
    BY <2>1 DEF LaunchInv
  <2>7. ToldFirst'
    BY <2>2, <2>4, <2>5, <2>6 DEF ToldFirst
  <2> QED BY <1>1, <2>1, <2>2, <2>3, <2>4, <2>5, <2>6, <2>7 DEF LaunchInv
<1> QED BY <1>3, <1>4, <1>5, <1>6, WireSends

LEMMA EdgeKeeps ==
  ASSUME TypeInv, TypeInv', LaunchInv, ToldFirst,
         \/ LaunchReady \/ LaunchOver \/ StopEngineClient
         \/ \E log \in Logs \cup {None} : WorldRebuilt(log)
  PROVE  LaunchInv' /\ ToldFirst'
<1>1. gen' = gen + 1
  BY EdgeTypes
<1>2. conn \in Connections /\ conn' \in Connections
  BY DEF TypeInv, TypeOK
<1>3. NewEngine.log = None /\ NewEngine.told = FALSE
  BY DEF NewEngine
<1>4. CASE Launches
  <2>1. /\ attachedTo' = None /\ owner' = "app" /\ conn' = NewConnection /\ engine' = NewEngine
        /\ turn'[gen'].pc = "connect"
    BY <1>1, <1>4 DEF Launches
  <2>2. Len(Queue(conn')) = 0
    <3>1. Queue(conn') = <<>> \o <<>>
      BY <2>1, NewConnectionFacts DEF Queue
    <3>2. Len(<<>> \o <<>>) = 0
      OBVIOUS
    <3> QED BY <3>1, <3>2
  <2>3. ~Has(Queue(conn'), "attach") /\ DefinesFirst(Queue(conn'), engine'.define)
    BY <2>2 DEF Has, DefinesFirst
  <2> QED BY <1>3, <2>1, <2>3 DEF LaunchInv, ToldFirst, Pushed
<1>5. CASE Ceases
  BY <1>3, <1>5 DEF Ceases, LaunchInv, ToldFirst
<1>6. CASE Rebuilds
  <2>1. UNCHANGED <<live, owner, engine, prefs>>
    BY <1>6 DEF Rebuilds
  <2>2. CASE /\ turn'[gen'].pc = "define" /\ attachedTo' = attachedTo
             /\ Asked(conn, conn', "define", prefs)
    <3>1. /\ Has(Queue(conn'), "attach") => Has(Queue(conn), "attach")
          /\ Usable(conn') => Usable(conn) /\ (Has(Queue(conn), "attach") => Has(Queue(conn'), "attach"))
          /\ Usable(conn') => Has(Queue(conn'), "define")
          /\ DefinesFirst(Queue(conn), engine.define) => DefinesFirst(Queue(conn'), engine.define)
          /\ Usable(conn') => LatestIs(Queue(conn'), engine.define, prefs)
      BY <1>2, <2>2, AskedKeeps
    <3> QED BY <2>1, <2>2, <3>1 DEF LaunchInv, ToldFirst
  <2>3. CASE turn'[gen'].pc = "none" /\ attachedTo' = None /\ conn' = conn
    BY <2>1, <2>3 DEF LaunchInv, ToldFirst, Pushed
  <2> QED BY <1>1, <1>6, <2>2, <2>3 DEF Rebuilds
<1> QED BY <1>4, <1>5, <1>6, EdgeSends

LEMMA LaunchInvHolds == Spec => [](TypeInv /\ LaunchInv /\ ToldFirst)
<1>1. Init => TypeInv /\ LaunchInv /\ ToldFirst
  BY InitTypes DEF Init, LaunchInv, ToldFirst, NewEngine
<1>2. TypeInv /\ LaunchInv /\ ToldFirst /\ [Next]_vars => (TypeInv /\ LaunchInv /\ ToldFirst)'
  <2> SUFFICES ASSUME TypeInv, LaunchInv, ToldFirst, [Next]_vars
               PROVE  (TypeInv /\ LaunchInv /\ ToldFirst)'
    OBVIOUS
  <2>1. TypeInv'
    BY NextTypes
  <2>2. CASE UNCHANGED vars
    BY <2>1, <2>2 DEF vars, hostVars, LaunchInv, ToldFirst
  <2> QED BY <2>1, <2>2, TurnKeeps, WireKeeps, EdgeKeeps DEF Next
<1> QED BY <1>1, <1>2, PTL DEF Spec

LEMMA IssuedIsQueue ==
  ASSUME conn \in Connections
  PROVE  /\ Issued = Queue(conn) /\ DOMAIN Issued = 1 .. Len(Queue(conn))
<1>1. Issued = Queue(conn)
  BY DEF Issued, Queue
<1>2. Queue(conn) \in Seq(Messages)
  BY QueueType
<1> DEFINE q == Queue(conn)
           S == Messages
<1>3. q \in Seq(S)
  BY <1>2
<1>4. DOMAIN q = 1 .. Len(q)
  <2> HIDE DEF q, S
  <2> QED BY <1>3
<1> QED BY <1>1, <1>4

\* The artifacts have one writer in every reachable state: the engine owns them
\* from the moment it is about to be told where they are, and the app stands back
\* for no engine that was not.
THEOREM OneWriter == Spec => []ArtifactsHaveOneWriter
<1>1. TypeInv /\ LaunchInv => ArtifactsHaveOneWriter
  <2> SUFFICES ASSUME TypeInv, LaunchInv PROVE ArtifactsHaveOneWriter
    OBVIOUS
  <2>1. conn \in Connections
    BY DEF TypeInv, TypeOK
  <2>2. AttachIssued <=> Has(Queue(conn), "attach")
    BY <2>1, IssuedIsQueue DEF AttachIssued, Has
  <2> QED BY <2>2 DEF LaunchInv, ArtifactsHaveOneWriter
<1> QED BY <1>1, LaunchInvHolds, PTL

\* What waits last is what LastDefine finds.
LEMMA LatestIsLast ==
  ASSUME conn \in Connections, NEW v, LatestIs(Queue(conn), engine.define, v)
  PROVE  LastDefine = v
<1> DEFINE q == Queue(conn)
           at == {i \in 1 .. Len(q) : q[i].op = "define"}
           last == CHOOSE i \in at : \A j \in at : j <= i
<1>1. LastDefine = IF at = {} THEN engine.define ELSE q[last].define
  BY IssuedIsQueue DEF LastDefine
<1>2. Len(q) \in Nat /\ LatestIs(q, engine.define, v)
  BY QueueType
<1> HIDE DEF q
<1>3. CASE ~Has(q, "define") /\ engine.define = v
  <2>1. at = {}
    BY <1>3 DEF Has
  <2> QED BY <1>1, <1>3, <2>1
<1>4. ASSUME NEW i \in 1 .. Len(q), q[i].op = "define", q[i].define = v,
             \A j \in i + 1 .. Len(q) : q[j].op # "define"
      PROVE  LastDefine = v
  <2>1. i \in at
    BY <1>4
  <2>2. ASSUME NEW j \in at PROVE j <= i
    <3>1. j \in Nat /\ i \in Nat /\ ~(j \in i + 1 .. Len(q))
      BY <1>2, <1>4, <2>2
    <3> QED BY <1>2, <2>2, <3>1
  <2>3. last \in at /\ \A j \in at : j <= last
    <3>1. \E k \in at : \A j \in at : j <= k
      BY <2>1, <2>2
    <3> HIDE DEF at
    <3> QED BY <3>1
  <2>4. last = i
    <3>1. last \in Nat /\ i \in Nat /\ last <= i /\ i <= last
      BY <1>2, <2>1, <2>2, <2>3
    <3> HIDE DEF last
    <3> QED BY <3>1
  <2> HIDE DEF last
  <2>5. at # {}
    BY <2>1
  <2> HIDE DEF at
  <2> QED BY <1>1, <1>4, <2>4, <2>5
<1> QED BY <1>2, <1>3, <1>4 DEF LatestIs

\* In every reachable state: no log is folded that the app's knowledge did not
\* precede, and an engine whose answers are served was sent the latest of it.
THEOREM KnowledgeFirst == Spec => []KnowledgeBeforeFold
<1>1. TypeInv /\ LaunchInv /\ ToldFirst => KnowledgeBeforeFold
  <2> SUFFICES ASSUME TypeInv, LaunchInv, ToldFirst PROVE KnowledgeBeforeFold
    OBVIOUS
  <2>4. engine.log # None => engine.define # Untold
    BY DEF ToldFirst
  <2>5. SUFFICES ASSUME Ready PROVE LastDefine = prefs
    BY <2>4 DEF KnowledgeBeforeFold
  <2>1. conn \in Connections
    BY DEF TypeInv, TypeOK
  <2>6. live # 0 /\ conn.state = "ready" /\ world # None /\ attachedTo = world
    BY <2>5, Zenon DEF Ready
  <2>2. live # 0 /\ Usable(conn) /\ attachedTo # None
    BY <2>6 DEF Usable
  <2>3. LatestIs(Queue(conn), engine.define, prefs)
    BY <2>2 DEF LaunchInv
  <2> QED BY <2>1, <2>3, LatestIsLast
<1> QED BY <1>1, LaunchInvHolds, PTL

-----------------------------------------------------------------------------
(* What an asker is waiting for. *)

\* Whoever awaits a request finds it on the books, and a connection that is over
\* has empty ones; without a launch nobody asks anything.
WaitInv ==
  /\ \A a \in Askers : await[a].id # 0 => await[a].id \in conn.pending
  /\ ~Usable(conn) => conn.pending = {}
  /\ live = 0 => conn.pending = {} /\ (gen \in Turns => turn[gen].pc = "none")

\* What one step may do to what a awaits.
Unheard(a) ==
  \/ await'[a] = await[a]
  \/ await'[a].id = 0 /\ await'[a].got \in {Refused, Unanswered}

Heard(a) ==
  \E r \in Down(conn) : /\ r.id # 0 /\ r.id = await[a].id
                        /\ await'[a] = [id |-> 0, got |-> r.answer]

Awaits(a) ==
  await'[a] = [id |-> conn.next, got |-> Unanswered] \/ await'[a] = [id |-> 0, got |-> Refused]

LEMMA SettledAt ==
  ASSUME NEW ids, NEW o, NEW a \in Askers
  PROVE  Settled(ids, o)[a] = IF await[a].id \in ids THEN [id |-> 0, got |-> o] ELSE await[a]
BY DEF Settled

LEMMA AsksWaits ==
  ASSUME NEW c \in Connections, Flushed(c), Booked(c), NEW m \in Messages, NEW a \in Askers,
         await \in [Askers -> Waits], Asks(a, c, m), c.next = conn.next,
         \A x \in Askers : await[x].id # 0 => await[x].id \in c.pending,
         ~Usable(c) => c.pending = {}
  PROVE  /\ \A x \in Askers : await'[x].id # 0 => await'[x].id \in conn'.pending
         /\ ~Usable(conn') => conn'.pending = {}
         /\ Awaits(a)
         /\ \A x \in Askers \ {a} : Unheard(x)
<1> DEFINE sent == IF Usable(c) THEN Request(c, m) ELSE c
           wait == IF c.next \in sent.pending
                   THEN [id |-> c.next, got |-> Unanswered]
                   ELSE [id |-> 0, got |-> Refused]
           base == Settled(c.pending \ sent.pending, Refused)
<1>1. conn' = sent /\ await' = [base EXCEPT ![a] = wait]
  BY DEF Asks
<1>2. base \in [Askers -> Waits]
  BY SettledType, OutcomeTypes
<1>3. /\ c.next \in Nat \ {0} /\ c.next \notin c.pending /\ 0 \notin c.pending
  BY ConnectionFields DEF Booked
<1>4. \/ sent.pending = c.pending \cup {c.next} /\ Usable(sent)
      \/ sent.pending = {}
  <2>1. CASE Usable(c)
    BY <2>1, RequestFacts DEF Usable
  <2>2. CASE ~Usable(c)
    BY <2>2
  <2> QED BY <2>1, <2>2
<1>5. \A x \in Askers : base[x] = IF await[x].id \in c.pending \ sent.pending
                                  THEN [id |-> 0, got |-> Refused] ELSE await[x]
  BY SettledAt
<1>6. await'[a] = wait /\ \A x \in Askers \ {a} : await'[x] = base[x]
  <2> HIDE DEF base, wait
  <2> QED BY <1>1, <1>2
<1> HIDE DEF sent, base
<1>7. \A x \in Askers \ {a} :
        /\ Unheard(x)
        /\ await'[x].id # 0 => await'[x].id \in sent.pending
  BY <1>3, <1>4, <1>5, <1>6 DEF Unheard
<1>8. Awaits(a) /\ (await'[a].id # 0 => await'[a].id \in sent.pending)
  BY <1>6 DEF Awaits
<1> QED BY <1>1, <1>4, <1>7, <1>8

LEMMA ReconnectedWaits ==
  ASSUME NEW c \in Connections, Reconnected(c), await \in [Askers -> Waits],
         Booked(conn), conn \in Connections,
         \A x \in Askers : await[x].id # 0 => await[x].id \in conn.pending
  PROVE  /\ \A x \in Askers : await'[x].id # 0 => await'[x].id \in conn'.pending
         /\ \A x \in Askers : Unheard(x)
<1>1. conn' = c /\ await' = Settled(conn.pending \ c.pending, Refused)
  BY DEF Reconnected
<1>2. \A x \in Askers : await'[x] = IF await[x].id \in conn.pending \ c.pending
                                    THEN [id |-> 0, got |-> Refused] ELSE await[x]
  BY <1>1, SettledAt
<1>3. ASSUME NEW x \in Askers
      PROVE  Unheard(x) /\ (await'[x].id # 0 => await'[x].id \in conn'.pending)
  <2>1. CASE await[x].id \in conn.pending \ c.pending
    <3>1. await'[x] = [id |-> 0, got |-> Refused]
      BY <1>2, <2>1
    <3> QED BY <3>1 DEF Unheard
  <2>2. CASE await[x].id \notin conn.pending \ c.pending
    <3>1. await'[x] = await[x]
      BY <1>2, <2>2
    <3> QED BY <1>1, <2>2, <3>1 DEF Unheard
  <2> QED BY <2>1, <2>2
<1> QED BY <1>3

\* A turn's step asks on its connection, or on the one it has just opened, or
\* asks nothing.
LEMMA TurnAsks ==
  ASSUME TypeInv, NEW g \in Turns, TurnStep(g)
  PROVE  \/ \E m \in Messages : Asks(g, conn, m)
         \/ /\ g = gen /\ turn[g].pc = "connect"
            /\ \E m \in Messages : Asks(g, AttachTransport(conn), m)
         \/ conn' = conn /\ await' \in {await, [await EXCEPT ![g] = NoWait]}
<1>1. /\ None \in LogOrNone /\ prefs \in Nat /\ turn[g].target \in LogOrNone
  BY HostAssumption DEF TypeInv, TypeOK, LogOrNone, TurnStates
<1>2. /\ DefineNow \in Messages /\ Message("health", None, 0) \in Messages
      /\ Message("setDir", None, 0) \in Messages
      /\ Message("attach", turn[g].target, 0) \in Messages
  BY <1>1, MessageType DEF DefineNow
<1>3. AskHealth(g) => \E m \in Messages : Asks(g, conn, m)
  BY <1>2 DEF AskHealth
<1>4. CASE Connected(g)
  BY <1>2, <1>4 DEF Connected
<1>5. CASE CouldNotConnect(g) \/ Lost(g)
  BY <1>5 DEF CouldNotConnect, Lost
<1>6. CASE LogDirPushed(g)
  BY <1>2, <1>6 DEF LogDirPushed, AttachAndProbe
<1>7. CASE DefinePushed(g)
  <2>1. Asks(g, conn, DefineNow) \/ Asks(g, conn, Message("attach", turn[g].target, 0)) \/ AskHealth(g)
    BY <1>7 DEF DefinePushed, SendAttach
  <2> QED BY <1>2, <1>3, <2>1
<1>8. CASE AttachAnswered(g)
  BY <1>3, <1>8 DEF AttachAnswered
<1>9. CASE HealthAnswered(g)
  BY <1>9 DEF HealthAnswered
<1>10. CASE Rested(g)
  BY <1>3, <1>10 DEF Rested
<1> QED BY <1>4, <1>5, <1>6, <1>7, <1>8, <1>9, <1>10 DEF TurnStep

LEMMA TurnStands ==
  ASSUME NEW g \in Turns, TurnStep(g)
  PROVE  turn[g].pc \in {"connect", "logdir", "define", "attach", "health", "rest"}
BY DEF TurnStep, Connected, CouldNotConnect, Lost, LogDirPushed, DefinePushed, AttachAnswered,
       HealthAnswered, Rested, Resumes

LEMMA TurnWaits ==
  ASSUME TypeInv, WaitInv, NEW g \in Turns, TurnStep(g)
  PROVE  /\ WaitInv'
         /\ \A x \in Askers \ {g} : Unheard(x)
         /\ Polls(g) => Awaits(g)
<1>1. /\ conn \in Connections /\ Flushed(conn) /\ Booked(conn) /\ await \in [Askers -> Waits]
      /\ g \in Askers /\ None \in LogOrNone
  BY DEF TypeInv, TypeOK, Booked, Askers, LogOrNone
<1>2. /\ UNCHANGED <<gen, live>> /\ (g # gen => conn' = conn)
      /\ \A k \in Turns \ {g} : turn'[k] = turn[k]
  <2>1. TurnMoved(g) /\ turn \in [Turns -> TurnStates]
    BY TurnStepMoves DEF TypeInv, TypeOK
  <2> QED BY <2>1, TurnMoves DEF TurnMoved
<1>3. live = 0 => g # gen
  BY TurnStands DEF WaitInv
<1>4. live' = 0 => conn'.pending = {} /\ (gen' \in Turns => turn'[gen'].pc = "none")
  BY <1>2, <1>3 DEF WaitInv
<1>5. ASSUME NEW m \in Messages, Asks(g, conn, m)
      PROVE  WaitInv' /\ Awaits(g) /\ \A x \in Askers \ {g} : Unheard(x)
  <2>1. /\ \A x \in Askers : await'[x].id # 0 => await'[x].id \in conn'.pending
        /\ ~Usable(conn') => conn'.pending = {}
        /\ Awaits(g) /\ \A x \in Askers \ {g} : Unheard(x)
    BY <1>1, <1>5, AsksWaits DEF WaitInv
  <2> QED BY <1>4, <2>1 DEF WaitInv
<1>6. ASSUME g = gen, turn[g].pc = "connect", NEW m \in Messages, Asks(g, AttachTransport(conn), m)
      PROVE  WaitInv' /\ \A x \in Askers \ {g} : Unheard(x)
  <2> DEFINE c == AttachTransport(conn)
  <2>1. conn.transport = "none" /\ conn.state = "connecting"
    BY <1>6 DEF TypeInv, Fresh
  <2>2. c \in Connections /\ c.next = conn.next /\ c.pending = conn.pending /\ c.state = "connecting"
    BY <1>1, <2>1, AttachFacts
  <2>3. Flushed(c) /\ Booked(c) /\ Usable(c)
    BY <1>1, <2>2 DEF Flushed, Booked, Usable
  <2>4. Asks(g, c, m) /\ \A x \in Askers : await[x].id # 0 => await[x].id \in c.pending
    BY <1>6, <2>2 DEF WaitInv
  <2> HIDE DEF c
  <2>5. /\ \A x \in Askers : await'[x].id # 0 => await'[x].id \in conn'.pending
        /\ ~Usable(conn') => conn'.pending = {}
        /\ \A x \in Askers \ {g} : Unheard(x)
    BY <1>1, <2>2, <2>3, <2>4, AsksWaits
  <2> QED BY <1>4, <2>5 DEF WaitInv
<1>7. ASSUME conn' = conn, await' \in {await, [await EXCEPT ![g] = NoWait]}
      PROVE  WaitInv' /\ \A x \in Askers \ {g} : Unheard(x)
  <2>1. \A x \in Askers : await'[x] = await[x] \/ (x = g /\ await'[x].id = 0)
    BY <1>1, <1>7 DEF NoWait
  <2> QED BY <1>4, <1>7, <2>1 DEF WaitInv, Unheard
<1>8. Polls(g) => Awaits(g)
  BY <1>1, <1>5, MessageType DEF Polls, AskHealth
<1> QED BY <1>5, <1>6, <1>7, <1>8, TurnAsks

LEMMA WireWaits ==
  ASSUME TypeInv, WaitInv,
         \/ PreferenceWritten \/ AskRead \/ ReadAnswered \/ ReaderGivesUp
         \/ EngineHandles \/ FoldLands \/ FoldFails \/ Deliver
         \/ \E id \in conn.pending : Deadline(id)
         \/ \E cleanly \in BOOLEAN : SocketLost(cleanly)
  PROVE  /\ WaitInv'
         /\ \A x \in Askers : Unheard(x) \/ Heard(x) \/ (x = Reader /\ AskRead)
         /\ AskRead => Awaits(Reader)
         /\ EngineHandles => await' = await
<1>1. /\ conn \in Connections /\ Flushed(conn) /\ Booked(conn) /\ await \in [Askers -> Waits]
      /\ Reader \in Askers /\ None \in LogOrNone /\ prefs \in Nat
  BY HostAssumption DEF TypeInv, TypeOK, Booked, Askers, LogOrNone
<1>2. UNCHANGED <<gen, live, turn>> /\ \A x \in Askers : await[x].id # 0 => await[x].id \in conn.pending
  BY WireTypes DEF hostVars, WaitInv
<1> DEFINE Fine ==
      /\ \A x \in Askers : await'[x].id # 0 => await'[x].id \in conn'.pending
      /\ ~Usable(conn') => conn'.pending = {}
      /\ live = 0 => conn'.pending = {}
      /\ \A x \in Askers : Unheard(x) \/ Heard(x) \/ (x = Reader /\ AskRead)
<1>3. Fine => /\ WaitInv'
              /\ \A x \in Askers : Unheard(x) \/ Heard(x) \/ (x = Reader /\ AskRead)
  BY <1>2 DEF WaitInv
<1>4. AskRead => Fine /\ Awaits(Reader)
  <2> SUFFICES ASSUME AskRead PROVE Fine /\ Awaits(Reader)
    OBVIOUS
  <2> DEFINE m == Message("snapshot", None, 0)
  <2>1. Asks(Reader, conn, m) /\ live # 0
    BY DEF AskRead, Ready
  <2>2. m \in Messages
    BY <1>1, MessageType
  <2> HIDE DEF m
  <2>3. /\ \A x \in Askers : await'[x].id # 0 => await'[x].id \in conn'.pending
        /\ ~Usable(conn') => conn'.pending = {}
        /\ Awaits(Reader) /\ \A x \in Askers \ {Reader} : Unheard(x)
    BY <1>1, <2>1, <2>2, AsksWaits DEF WaitInv
  <2> QED BY <2>1, <2>3
<1>5. EngineHandles => Fine /\ await' = await
  <2> SUFFICES ASSUME EngineHandles PROVE Fine /\ await' = await
    OBVIOUS
  <2>1. await' = await /\ conn'.pending = conn.pending /\ conn'.state = conn.state
    <3> DEFINE down == IF conn.transport = "open"
                       THEN Append(conn.down, [id |-> Head(conn.up).id, answer |-> Replied(Head(conn.up))])
                       ELSE conn.down
    <3>1. await' = await /\ conn' = [conn EXCEPT !.up = Tail(conn.up), !.down = down]
      BY DEF EngineHandles
    <3> HIDE DEF down
    <3> QED BY <1>1, <3>1 DEF Connections
  <2> QED BY <1>2, <2>1 DEF WaitInv, Unheard, Usable
<1>6. ASSUME NEW c \in Connections, Reconnected(c),
             ~Usable(c) => c.pending = {}, live = 0 => c.pending = {}
      PROVE  Fine
  <2>1. /\ \A x \in Askers : await'[x].id # 0 => await'[x].id \in conn'.pending
        /\ \A x \in Askers : Unheard(x)
    BY <1>1, <1>2, <1>6, ReconnectedWaits
  <2>2. conn' = c
    BY <1>6 DEF Reconnected
  <2> QED BY <1>6, <2>1, <2>2
<1>7. CASE PreferenceWritten
  <2>1. CASE live # 0 /\ Usable(conn)
    <3> DEFINE m == Message("define", None, prefs')
               c == Request(conn, m)
    <3>1. Reconnected(c) /\ prefs' = prefs + 1
      BY <1>7, <2>1 DEF PreferenceWritten
    <3>2. m \in Messages
      BY <1>1, <3>1, MessageType
    <3> HIDE DEF m
    <3>3. c \in Connections /\ (~Usable(c) => c.pending = {})
      BY <1>1, <2>1, <3>2, RequestFacts DEF Usable
    <3> HIDE DEF c
    <3> QED BY <1>3, <1>4, <1>5, <1>6, <2>1, <3>1, <3>3
  <2>2. CASE ~(live # 0 /\ Usable(conn))
    <3>1. UNCHANGED <<conn, await>>
      BY <1>7, <2>2 DEF PreferenceWritten
    <3>2. Fine
      BY <1>2, <3>1 DEF WaitInv, Unheard
    <3> QED BY <1>3, <1>4, <1>5, <3>2
  <2> QED BY <2>1, <2>2
<1>8. CASE ReadAnswered \/ ReaderGivesUp
  <2>1. conn' = conn /\ await' = [await EXCEPT ![Reader] = NoWait]
    BY <1>8 DEF ReadAnswered, ReaderGivesUp
  <2>2. \A x \in Askers : await'[x] = await[x] \/ await'[x] = NoWait
    BY <1>1, <2>1
  <2>3. Fine
    BY <1>2, <2>1, <2>2 DEF WaitInv, Unheard, NoWait
  <2> QED BY <1>3, <1>4, <1>5, <2>3
<1>9. CASE FoldLands \/ FoldFails
  <2>1. UNCHANGED <<conn, await>>
    BY <1>9 DEF FoldLands, FoldFails
  <2>2. Fine
    BY <1>2, <2>1 DEF WaitInv, Unheard
  <2> QED BY <1>3, <1>4, <1>5, <2>2
<1>10. CASE Deliver
  <2> DEFINE reply == Head(conn.down)
             c == [conn EXCEPT !.down = Tail(conn.down)]
  <2>1. conn.down # <<>> /\ reply \in Down(conn)
    BY <1>1, <1>10, DownHead DEF Deliver
  <2>2. c \in Connections /\ c.pending = conn.pending /\ c.state = conn.state /\ c.outbox = conn.outbox
    <3> DEFINE down == Tail(conn.down)
    <3>1. down \in Seq(Replies)
      BY <1>1, <2>1, ConnectionFields
    <3> HIDE DEF down
    <3> QED BY <1>1, <3>1 DEF Connections, down
  <2>3. CASE reply.id = 0
    <3> DEFINE e == OnHelloReply(c, TRUE)
    <3>1. Reconnected(e)
      BY <1>10, <2>3 DEF Deliver
    <3>2. Flushed(c)
      BY <1>1, <2>2 DEF Flushed
    <3> HIDE DEF c
    <3>3. /\ e \in Connections /\ e.pending = c.pending
          /\ e.state = IF c.state = "connecting" THEN "ready" ELSE c.state
      BY <2>2, <3>2, HelloFacts
    <3> HIDE DEF e
    <3>4. Fine
      BY <1>6, <2>2, <3>1, <3>3 DEF WaitInv, Usable
    <3> QED BY <1>3, <1>4, <1>5, <3>4
  <2>4. CASE reply.id # 0
    <3>1. /\ conn' = TakePending(c, reply.id)
          /\ await' = Settled({reply.id} \cap c.pending, reply.answer)
      BY <1>10, <2>4 DEF Deliver
    <3> HIDE DEF c, reply
    <3>2. conn'.pending = conn.pending \ {reply.id} /\ conn'.state = conn.state
      BY <2>2, <3>1, TakeFacts
    <3>3. ASSUME NEW x \in Askers
          PROVE  (Unheard(x) \/ Heard(x)) /\ (await'[x].id # 0 => await'[x].id \in conn'.pending)
      <4>1. await'[x] = IF await[x].id \in {reply.id} \cap c.pending
                        THEN [id |-> 0, got |-> reply.answer] ELSE await[x]
        BY <3>1, SettledAt
      <4>2. CASE await[x].id \in {reply.id} \cap c.pending
        <5>1. await'[x] = [id |-> 0, got |-> reply.answer] /\ reply.id = await[x].id
          BY <4>1, <4>2
        <5> QED BY <2>1, <2>4, <5>1 DEF Heard
      <4>3. CASE await[x].id \notin {reply.id} \cap c.pending
        <5>1. await'[x] = await[x]
          BY <4>1, <4>3
        <5> QED BY <1>2, <2>2, <3>2, <4>3, <5>1 DEF Unheard
      <4> QED BY <4>2, <4>3
    <3>4. Fine
      BY <3>2, <3>3 DEF WaitInv, Usable
    <3> QED BY <1>3, <1>4, <1>5, <3>4
  <2> QED BY <2>3, <2>4
<1>11. ASSUME NEW id \in conn.pending, Deadline(id) PROVE Fine
  <2> DEFINE c == TakePending(conn, id)
  <2>1. Reconnected(c)
    BY <1>11 DEF Deadline
  <2>2. c \in Connections /\ c.pending = conn.pending \ {id} /\ c.state = conn.state
    BY <1>1, TakeFacts
  <2> HIDE DEF c
  <2> QED BY <1>6, <2>1, <2>2 DEF WaitInv, Usable
<1>12. ASSUME NEW cleanly \in BOOLEAN, SocketLost(cleanly) PROVE Fine
  <2> DEFINE c == IF cleanly THEN EndTransport(conn) ELSE FailConnection(conn)
  <2>1. Reconnected(c)
    BY <1>12 DEF SocketLost
  <2>2. /\ c \in Connections /\ (~Usable(c) => c.pending = {})
        /\ live = 0 => c.pending = {}
    <3>1. CASE cleanly
      <4>1. c = EndTransport(conn)
        BY <3>1
      <4> HIDE DEF c
      <4>2. c \in Connections /\ c.pending = conn.pending /\ c.state = conn.state
        BY <1>1, <4>1, EndTransportFacts
      <4> QED BY <4>2 DEF WaitInv, Usable
    <3>2. CASE ~cleanly /\ Usable(conn)
      <4>1. c = FailConnection(conn)
        BY <3>2
      <4> HIDE DEF c
      <4> QED BY <1>1, <3>2, <4>1, FailFacts
    <3>3. CASE ~cleanly /\ ~Usable(conn)
      BY <1>1, <3>3 DEF WaitInv, FailConnection
    <3> QED BY <3>1, <3>2, <3>3
  <2> HIDE DEF c
  <2> QED BY <1>6, <2>1, <2>2
<1> QED BY <1>3, <1>4, <1>5, <1>7, <1>8, <1>9, <1>10, <1>11, <1>12

LEMMA EdgeWaits ==
  ASSUME TypeInv, WaitInv,
         \/ LaunchReady \/ LaunchOver \/ StopEngineClient
         \/ \E log \in Logs \cup {None} : WorldRebuilt(log)
  PROVE  WaitInv' /\ \A x \in Askers : x # gen + 1 => Unheard(x)
<1>1. /\ conn \in Connections /\ Flushed(conn) /\ Booked(conn) /\ await \in [Askers -> Waits]
      /\ None \in LogOrNone /\ prefs \in Nat /\ gen \in Nat /\ MaxTurns \in Nat
  BY HostAssumption DEF TypeInv, TypeOK, Booked, LogOrNone
<1>2. gen' = gen + 1 /\ \A k \in Turns : k > gen => turn[k].pc = "none"
  BY EdgeTypes DEF TypeInv, Unborn
<1>3. \A x \in Askers : await[x].id # 0 => await[x].id \in conn.pending
  BY DEF WaitInv
<1>4. CASE LaunchReady
  <2>1. /\ live = 0 /\ live' = gen + 1 /\ conn' = NewConnection /\ await' = await
    BY <1>4 DEF LaunchReady
  <2>2. \A x \in Askers : await[x].id = 0
    BY <1>3, <2>1 DEF WaitInv
  <2> QED BY <1>1, <2>1, <2>2, NewConnectionFacts DEF WaitInv, Unheard, Usable
<1>5. CASE (LaunchOver /\ live # 0) \/ StopEngineClient
  <2>1. live' = 0 /\ turn' = turn /\ Reconnected(Close(conn))
    BY <1>5 DEF LaunchOver, StopEngineClient
  <2> DEFINE c == Close(conn)
  <2>2. c \in Connections /\ c.pending = {}
    BY <1>1, CloseFacts DEF WaitInv
  <2> HIDE DEF c
  <2>3. conn' = c /\ Reconnected(c)
    BY <2>1 DEF Reconnected, c
  <2>4. /\ \A x \in Askers : await'[x].id # 0 => await'[x].id \in conn'.pending
        /\ \A x \in Askers : Unheard(x)
    BY <1>1, <1>3, <2>2, <2>3, ReconnectedWaits
  <2>5. gen' \in Turns => turn'[gen'].pc = "none"
    BY <1>1, <1>2, <2>1
  <2> QED BY <2>1, <2>2, <2>3, <2>4, <2>5 DEF WaitInv
<1>6. CASE LaunchOver /\ live = 0
  <2>1. live' = 0 /\ UNCHANGED <<turn, conn, await>>
    BY <1>6 DEF LaunchOver
  <2>2. gen' \in Turns => turn'[gen'].pc = "none"
    BY <1>1, <1>2, <2>1
  <2> QED BY <1>6, <2>1, <2>2 DEF WaitInv, Unheard
<1>7. ASSUME NEW log \in Logs \cup {None}, WorldRebuilt(log)
      PROVE  WaitInv' /\ \A x \in Askers : x # gen + 1 => Unheard(x)
  <2>1. live' = live /\ gen < MaxTurns
    BY <1>7 DEF WorldRebuilt
  <2>2. CASE live # 0 /\ log # None
    <3>1. gen + 1 \in Askers
      BY <1>1, <2>1 DEF Askers, Turns
    <3>2. Asks(gen + 1, conn, DefineNow)
      <4>1. AttachAndProbe(gen + 1, conn, log)
        BY <1>7, <2>2 DEF WorldRebuilt
      <4>2. gen + 1 \in Turns /\ log \in LogOrNone /\ turn \in [Turns -> TurnStates]
        BY <1>1, <2>1 DEF Turns, LogOrNone, TypeInv, TypeOK
      <4> QED BY <2>2, <4>1, <4>2, ProbeStands
    <3>3. DefineNow \in Messages
      BY <1>1, MessageType DEF DefineNow
    <3>4. /\ \A x \in Askers : await'[x].id # 0 => await'[x].id \in conn'.pending
          /\ ~Usable(conn') => conn'.pending = {}
          /\ \A x \in Askers \ {gen + 1} : Unheard(x)
      BY <1>1, <3>1, <3>2, <3>3, AsksWaits DEF WaitInv
    <3> QED BY <2>1, <2>2, <3>4 DEF WaitInv
  <2>3. CASE ~(live # 0 /\ log # None)
    <3>1. UNCHANGED <<conn, turn, await>>
      BY <1>7, <2>3 DEF WorldRebuilt
    <3>2. gen' \in Turns => turn'[gen'].pc = "none"
      BY <1>1, <1>2, <3>1
    <3> QED BY <2>1, <3>1, <3>2 DEF WaitInv, Unheard
  <2> QED BY <2>2, <2>3
<1> QED BY <1>4, <1>5, <1>6, <1>7

-----------------------------------------------------------------------------
(* What is asked after an attach, and what before the next one. *)

Young(q, n) == \A i \in 1 .. Len(q) : q[i].id < n

HasId(q, k) == \E i \in 1 .. Len(q) : q[i].id = k

\* Request k was made after every attach that waits, or before every one.
After(q, k) == \A i, l \in 1 .. Len(q) : q[i].op = "attach" /\ q[l].id = k => i < l
Before(q, k) == \A i, l \in 1 .. Len(q) : q[i].op = "attach" /\ q[l].id = k => l < i

LEMMA MarksGrown ==
  ASSUME NEW c \in Connections, NEW m \in Messages, NEW e \in Connections, Grown(c, e, m),
         m.id = c.next, NEW k
  PROVE  /\ Young(Queue(c), c.next) => Young(Queue(e), e.next)
         /\ m.op # "attach" /\ After(Queue(c), k) => After(Queue(e), k)
         /\ m.op # "attach" /\ k = c.next /\ Young(Queue(c), c.next) => After(Queue(e), k)
         /\ k # c.next /\ Before(Queue(c), k) => Before(Queue(e), k)
         /\ m.op # "attach" /\ ~Has(Queue(c), "attach") => Before(Queue(e), k)
         /\ HasId(Queue(e), k) => HasId(Queue(c), k) \/ k = c.next
<1> DEFINE q == Queue(c)
           r == Queue(e)
<1>1. q \in Seq(Messages) /\ r = Append(q, m) /\ e.next = c.next + 1 /\ c.next \in Nat
  BY QueueType, ConnectionFields DEF Grown
<1>2. \A i \in 1 .. Len(q) : q[i].id \in Nat
  <2> DEFINE S == Messages
  <2>1. q \in Seq(S) /\ \A x \in S : x.id \in Nat
    BY <1>1 DEF Messages
  <2> HIDE DEF S, q
  <2> QED BY <2>1
<1> HIDE DEF q, r
<1>3. /\ Len(q) \in Nat /\ Len(r) = Len(q) + 1 /\ r[Len(q) + 1] = m
      /\ \A i \in 1 .. Len(q) : r[i] = q[i]
  BY <1>1, AppendElements
<1>4. 1 .. Len(r) = (1 .. Len(q)) \cup {Len(q) + 1} /\ \A i \in 1 .. Len(q) : i < Len(q) + 1 /\ i \in Nat
  BY <1>3
<1>5. Young(q, c.next) => Young(r, e.next)
  BY <1>1, <1>2, <1>3, <1>4 DEF Young
<1>6. m.op # "attach" /\ After(q, k) => After(r, k)
  BY <1>3, <1>4 DEF After
<1>7. ASSUME m.op # "attach", k = c.next, Young(q, c.next) PROVE After(r, k)
  <2>1. \A l \in 1 .. Len(q) : q[l].id # k
    BY <1>1, <1>2, <1>7 DEF Young
  <2> QED BY <1>3, <1>4, <1>7, <2>1 DEF After
<1>8. k # c.next /\ Before(q, k) => Before(r, k)
  BY <1>3, <1>4 DEF Before
<1>9. m.op # "attach" /\ ~Has(q, "attach") => Before(r, k)
  BY <1>3, <1>4 DEF Before, Has
<1>10. HasId(r, k) => HasId(q, k) \/ k = c.next
  BY <1>3, <1>4 DEF HasId
<1> QED BY <1>5, <1>6, <1>7, <1>8, <1>9, <1>10 DEF q, r

LEMMA MarksDropped ==
  ASSUME NEW c \in Connections, NEW e \in Connections, e.up = c.up, e.outbox = <<>>, NEW k, NEW n
  PROVE  /\ Young(Queue(c), n) => Young(Queue(e), n)
         /\ After(Queue(c), k) => After(Queue(e), k)
         /\ Before(Queue(c), k) => Before(Queue(e), k)
         /\ HasId(Queue(e), k) => HasId(Queue(c), k)
<1> DEFINE q == Queue(c)
           r == Queue(e)
           u == c.up
<1>1. Len(q) = Len(u) + Len(c.outbox) /\ Len(u) \in Nat /\ Len(c.outbox) \in Nat
      /\ \A j \in 1 .. Len(u) : q[j] = u[j]
  BY QueueType
<1>2. Len(r) = Len(u) /\ \A j \in 1 .. Len(u) : r[j] = u[j]
  <2>1. Len(e.outbox) = 0
    OBVIOUS
  <2>2. Len(r) = Len(e.up) + Len(e.outbox) /\ \A j \in 1 .. Len(e.up) : r[j] = e.up[j]
    BY QueueType
  <2>3. e.up = u
    OBVIOUS
  <2> HIDE DEF r, u
  <2> QED BY <1>1, <2>1, <2>2, <2>3
<1> HIDE DEF q, r, u
<1>3. \A i \in 1 .. Len(r) : i \in 1 .. Len(q) /\ r[i] = q[i]
  BY <1>1, <1>2
<1>4. /\ Young(q, n) => Young(r, n)
      /\ After(q, k) => After(r, k)
      /\ Before(q, k) => Before(r, k)
      /\ HasId(r, k) => HasId(q, k)
  BY <1>3 DEF Young, After, Before, HasId
<1> QED BY <1>4 DEF q, r

LEMMA MarksTail ==
  ASSUME NEW c \in Connections, c.up # <<>>, NEW e \in Connections, e.up = Tail(c.up),
         e.outbox = c.outbox, NEW k, NEW n
  PROVE  /\ Young(Queue(c), n) => Young(Queue(e), n) /\ Head(c.up).id < n
         /\ After(Queue(c), k) => After(Queue(e), k)
         /\ Before(Queue(c), k) => Before(Queue(e), k)
         /\ HasId(Queue(e), k) \/ Head(c.up).id = k => HasId(Queue(c), k)
         /\ After(Queue(c), k) /\ Head(c.up).id = k =>
              ~Has(Queue(e), "attach") /\ Head(c.up).op # "attach"
         /\ Before(Queue(c), k) /\ Head(c.up).op = "attach" => ~HasId(Queue(c), k)
<1> DEFINE q == Queue(c)
           r == Queue(e)
<1>1. /\ Len(q) = Len(r) + 1 /\ Len(r) \in Nat /\ Head(c.up) = q[1]
      /\ \A i \in 1 .. Len(r) : r[i] = q[i + 1]
  BY TailElements
<1> HIDE DEF q, r
<1>2. 1 \in 1 .. Len(q) /\ \A i \in 1 .. Len(r) : i \in Nat /\ i + 1 \in 1 .. Len(q) /\ ~(i + 1 < 1) /\ ~(i < 1)
  BY <1>1
<1>3. Young(q, n) => Young(r, n) /\ q[1].id < n
  BY <1>1, <1>2 DEF Young
<1>4. After(q, k) => After(r, k)
  <2> SUFFICES ASSUME After(q, k), NEW i \in 1 .. Len(r), NEW l \in 1 .. Len(r),
                      r[i].op = "attach", r[l].id = k
               PROVE  i < l
    BY DEF After
  <2>1. i + 1 < l + 1
    BY <1>1, <1>2 DEF After
  <2> QED BY <2>1
<1>5. Before(q, k) => Before(r, k)
  <2> SUFFICES ASSUME Before(q, k), NEW i \in 1 .. Len(r), NEW l \in 1 .. Len(r),
                      r[i].op = "attach", r[l].id = k
               PROVE  l < i
    BY DEF Before
  <2>1. l + 1 < i + 1
    BY <1>1, <1>2 DEF Before
  <2> QED BY <2>1
<1>6. HasId(r, k) \/ q[1].id = k => HasId(q, k)
  BY <1>1, <1>2 DEF HasId
<1>7. ASSUME After(q, k), q[1].id = k PROVE ~Has(r, "attach") /\ q[1].op # "attach"
  <2>1. \A i \in 1 .. Len(q) : q[i].op = "attach" => i < 1
    BY <1>2, <1>7 DEF After
  <2> QED BY <1>1, <1>2, <2>1 DEF Has
<1>8. ASSUME Before(q, k), q[1].op = "attach" PROVE ~HasId(q, k)
  <2>1. \A l \in 1 .. Len(q) : q[l].id = k => l < 1
    BY <1>2, <1>8 DEF Before
  <2>2. \A l \in 1 .. Len(q) : ~(l < 1)
    OBVIOUS
  <2> QED BY <2>1, <2>2 DEF HasId
<1> QED BY <1>1, <1>3, <1>4, <1>5, <1>6, <1>7, <1>8 DEF q, r

LEMMA YoungLater ==
  ASSUME NEW q \in Seq(Messages), NEW a \in Nat, NEW b \in Nat, b >= a, Young(q, a)
  PROVE  Young(q, b)
<1> DEFINE S == Messages
<1>1. q \in Seq(S) /\ \A x \in S : x.id \in Nat
  BY DEF Messages
<1> HIDE DEF S
<1>2. \A i \in 1 .. Len(q) : q[i].id \in Nat
  BY <1>1
<1> QED BY <1>2 DEF Young

\* What a request of one kind leaves of these.
LEMMA AskedMarks ==
  ASSUME NEW c \in Connections, NEW e \in Connections, NEW op, NEW v, Asked(c, e, op, v), NEW k
  PROVE  /\ Young(Queue(c), c.next) => Young(Queue(e), e.next)
         /\ e.next >= c.next /\ Down(e) \subseteq Down(c)
         /\ op # "attach" /\ After(Queue(c), k) => After(Queue(e), k)
         /\ op # "attach" /\ k = c.next /\ Young(Queue(c), c.next) => After(Queue(e), k)
         /\ k # c.next /\ Before(Queue(c), k) => Before(Queue(e), k)
         /\ op # "attach" /\ ~Has(Queue(c), "attach") => Before(Queue(e), k)
         /\ HasId(Queue(e), k) => HasId(Queue(c), k) \/ k = c.next
<1>1. c.next \in Nat /\ e.next \in Nat /\ Queue(c) \in Seq(Messages)
  BY ConnectionFields, QueueType
<1>2. ~Has(Queue(c), "attach") => Before(Queue(c), k)
  BY DEF Before, Has
<1>3. k = c.next /\ Young(Queue(c), c.next) => After(Queue(c), k)
  <2> SUFFICES ASSUME k = c.next, NEW l \in 1 .. Len(Queue(c)), Queue(c)[l].id < c.next, Queue(c)[l].id = k
               PROVE  FALSE
    BY DEF Young, After
  <2> QED BY <1>1
<1>4. CASE ~Usable(c)
  <2>1. e = c
    BY <1>4 DEF Asked
  <2> QED BY <1>1, <1>2, <1>3, <2>1
<1>5. CASE Usable(c) /\ Dropped(c, e)
  <2>1. /\ e.up = c.up /\ e.outbox = <<>> /\ e.next >= c.next /\ Down(e) = {}
    BY <1>5 DEF Dropped
  <2>2. /\ Young(Queue(c), e.next) => Young(Queue(e), e.next)
        /\ After(Queue(c), k) => After(Queue(e), k)
        /\ Before(Queue(c), k) => Before(Queue(e), k)
        /\ HasId(Queue(e), k) => HasId(Queue(c), k)
    BY <2>1, MarksDropped
  <2>3. Young(Queue(c), c.next) => Young(Queue(c), e.next)
    BY <1>1, <2>1, YoungLater
  <2> QED BY <1>1, <1>2, <1>3, <2>1, <2>2, <2>3
<1>6. ASSUME NEW m \in Messages, m.op = op, m.id = c.next, Grown(c, e, m)
      PROVE  /\ Young(Queue(c), c.next) => Young(Queue(e), e.next)
             /\ e.next >= c.next /\ Down(e) \subseteq Down(c)
             /\ op # "attach" /\ After(Queue(c), k) => After(Queue(e), k)
             /\ op # "attach" /\ k = c.next /\ Young(Queue(c), c.next) => After(Queue(e), k)
             /\ k # c.next /\ Before(Queue(c), k) => Before(Queue(e), k)
             /\ op # "attach" /\ ~Has(Queue(c), "attach") => Before(Queue(e), k)
             /\ HasId(Queue(e), k) => HasId(Queue(c), k) \/ k = c.next
  <2>1. e.next >= c.next /\ Down(e) \subseteq Down(c)
    BY <1>1, <1>6 DEF Grown, Down
  <2> QED BY <1>6, <2>1, MarksGrown
<1> QED BY <1>4, <1>5, <1>6 DEF Asked

-----------------------------------------------------------------------------
(* What is served is the fold of the log the app is on. *)

\* The current turn's poll comes after every attach of the launch, and so does
\* its answer; an answer that says "live" finds the fold landed.
PollInv ==
  gen \in Turns /\ turn[gen].pc = "health" =>
    /\ await[gen].id # 0 =>
         /\ After(Queue(conn), await[gen].id)
         /\ \A r \in Down(conn) : r.id = await[gen].id =>
              ~Has(Queue(conn), "attach") /\ (r.answer.status = "live" => engine.landed)
    /\ await[gen].got.status = "live" => ~Has(Queue(conn), "attach") /\ engine.landed

\* What was observed live stays: no attach is under way.
LiveInv ==
  liveOn # None =>
    gen \in Turns /\ turn[gen].pc = "done" /\ ~Has(Queue(conn), "attach") /\ engine.landed

\* A read that was let through is asked before any further attach.
ReadInv ==
  /\ gen \in Turns /\ turn[gen].pc = "connect" => await[Reader].id = 0
  /\ await[Reader].id # 0 /\ ~read.astray =>
       /\ Before(Queue(conn), await[Reader].id)
       /\ HasId(Queue(conn), await[Reader].id) => engine.log = read.asked
       /\ \A r \in Down(conn) : r.id = await[Reader].id /\ r.answer # Refused =>
            r.answer.log = read.asked

IdsInv == Young(Queue(conn), conn.next) /\ \A r \in Down(conn) : r.id < conn.next

ServInv ==
  /\ engine.status = "live" => engine.landed
  /\ live # 0 => IdsInv /\ PollInv /\ LiveInv /\ ReadInv
  /\ ~read.astray /\ await[Reader].got \notin {Refused, Unanswered} =>
       await[Reader].got.log = read.asked
  /\ ReadsAreOfTheirLog

LEMMA NotLive == Refused.status # "live" /\ Unanswered.status # "live"
BY DEF Refused, Unanswered

LEMMA ReaderIsNoTurn == Reader \in Askers /\ \A g \in Turns : g # Reader /\ g \in Askers
BY DEF Reader, Turns, Askers

\* The reader's part, where no read is asked and none is answered.
LEMMA ReaderKeeps ==
  ASSUME ServInv, read' = read, Unheard(Reader)
  PROVE  /\ (~read.astray /\ await[Reader].got \notin {Refused, Unanswered} =>
               await[Reader].got.log = read.asked)'
         /\ ReadsAreOfTheirLog'
BY DEF ServInv, Unheard, ReadsAreOfTheirLog, Refused, Unanswered

LEMMA ServTurn ==
  ASSUME TypeInv, TypeInv', WaitInv, ServInv, NEW g \in Turns, TurnStep(g)
  PROVE  ServInv'
<1>1. /\ gen' = gen /\ live' = live /\ engine' = engine /\ read' = read
      /\ (g # gen => conn' = conn)
      /\ \A k \in Turns \ {g} : turn'[k] = turn[k]
  <2>1. TurnMoved(g) /\ turn \in [Turns -> TurnStates]
    BY TurnStepMoves DEF TypeInv, TypeOK
  <2> QED BY <2>1, TurnMoves DEF TurnMoved
<1>2. /\ conn \in Connections /\ conn' \in Connections /\ Flushed(conn) /\ Booked(conn)
      /\ conn.next \in Nat
  BY ConnectionFields DEF TypeInv, TypeOK, Booked
<1>3. \A x \in Askers \ {g} : Unheard(x)
  BY TurnWaits
<1>4. Unheard(Reader)
  BY <1>3, ReaderIsNoTurn
<1>5. turn[g].pc \in {"connect", "logdir", "define", "attach", "health", "rest"}
  BY TurnStands
<1>6. /\ (~read.astray /\ await[Reader].got \notin {Refused, Unanswered} =>
             await[Reader].got.log = read.asked)'
      /\ ReadsAreOfTheirLog'
  BY <1>1, <1>4, ReaderKeeps
<1>7. await'[Reader].id # 0 => await'[Reader] = await[Reader] /\ await[Reader].id # conn.next
                               /\ await[Reader].id # 0
  <2>1. await'[Reader].id # 0 => await'[Reader] = await[Reader]
    BY <1>4 DEF Unheard
  <2>2. await[Reader].id # 0 => await[Reader].id \in 1 .. conn.next - 1
    BY <1>2, ReaderIsNoTurn DEF WaitInv, Booked
  <2> QED BY <1>2, <2>1, <2>2
<1>8. SUFFICES ASSUME live # 0 PROVE (IdsInv /\ PollInv /\ LiveInv /\ ReadInv)'
  BY <1>1, <1>6 DEF ServInv
<1>9. IdsInv /\ PollInv /\ LiveInv /\ ReadInv
  BY <1>8 DEF ServInv
<1>10. g = gen => liveOn = None
  BY <1>5, <1>9 DEF LiveInv
\* A request of this turn, or none, that is not an attach made before the reader's.
<1>11. ASSUME NEW c \in Connections, NEW op, NEW v, Asked(c, conn', op, v), c.next = conn.next,
              Young(Queue(c), c.next), \A r \in Down(c) : r.id < c.next,
              await[Reader].id # 0 /\ ~read.astray =>
                /\ Before(Queue(c), await[Reader].id)
                /\ HasId(Queue(c), await[Reader].id) => engine.log = read.asked
                /\ \A r \in Down(c) : r.id = await[Reader].id /\ r.answer # Refused =>
                     r.answer.log = read.asked,
              turn'[g].pc # "connect", g = gen
       PROVE  IdsInv' /\ ReadInv'
  <2> DEFINE k == await[Reader].id
  <2>1. /\ Young(Queue(conn'), conn'.next) /\ conn'.next >= conn.next /\ Down(conn') \subseteq Down(c)
        /\ k # conn.next /\ Before(Queue(c), k) => Before(Queue(conn'), k)
        /\ HasId(Queue(conn'), k) => HasId(Queue(c), k) \/ k = conn.next
    BY <1>2, <1>11, AskedMarks
  <2>2. \A r \in Down(c) : r \in Replies /\ r.id \in Nat
    <3> DEFINE S == Replies
               q == c.down
    <3>1. q \in Seq(S) /\ \A r \in S : r.id \in Nat
      BY ConnectionFields DEF Replies
    <3> HIDE DEF S, q
    <3>2. \A j \in 1 .. Len(q) : q[j] \in S
      BY <3>1
    <3> QED BY <3>1, <3>2 DEF Down, q, S
  <2>3. conn'.next \in Nat
    BY <1>2, ConnectionFields
  <2>4. IdsInv'
    BY <1>2, <1>11, <2>1, <2>2, <2>3 DEF IdsInv
  <2> HIDE DEF k
  <2>5. ReadInv'
    BY <1>1, <1>7, <1>11, <2>1 DEF ReadInv, k
  <2> QED BY <2>4, <2>5
<1>12. ASSUME NEW op, NEW v, Asked(conn, conn', op, v), turn'[g].pc # "connect", g = gen
       PROVE  IdsInv' /\ ReadInv'
  BY <1>2, <1>9, <1>11, <1>12 DEF IdsInv, ReadInv
<1>13. CASE Stops(g)
  <2>1. conn' = conn /\ attachedTo' = attachedTo
        /\ turn'[g].pc \notin {"connect", "health"}
    BY <1>13 DEF Stops
  <2>2. IdsInv'
    BY <1>9, <2>1 DEF IdsInv
  <2>3. ReadInv'
    <3>1. (gen \in Turns /\ turn[gen].pc = "connect")' => gen \in Turns /\ turn[gen].pc = "connect"
      BY <1>1, <2>1
    <3> QED BY <1>1, <1>7, <1>9, <2>1, <3>1 DEF ReadInv
  <2>4. PollInv'
    <3> SUFFICES ASSUME gen \in Turns, turn'[gen].pc = "health" PROVE PollInv'
      BY <1>1 DEF PollInv
    <3>1. g # gen /\ turn'[gen] = turn[gen]
      BY <1>1, <2>1
    <3>2. Unheard(gen)
      BY <1>3, <3>1, ReaderIsNoTurn
    <3> QED BY <1>1, <1>9, <2>1, <3>1, <3>2, NotLive DEF PollInv, Unheard
  <2>5. LiveInv'
    <3>1. CASE liveOn' = liveOn
      <4>1. liveOn' # None => g # gen
        BY <1>10, <3>1
      <4> QED BY <1>1, <1>9, <2>1, <3>1, <4>1 DEF LiveInv
    <3>2. CASE /\ g = gen /\ turn[g].pc = "health" /\ turn'[g].pc = "done"
               /\ await[g].got.status = "live"
      BY <1>1, <1>9, <2>1, <3>2 DEF LiveInv, PollInv
    <3> QED BY <1>13, <3>1, <3>2 DEF Stops
  <2> QED BY <2>2, <2>3, <2>4, <2>5
<1>14. CASE g = gen /\ Opens(g)
  <2> DEFINE c == AttachTransport(conn)
  <2>1. turn[g].pc = "connect" /\ turn'[g].pc = "logdir" /\ liveOn' = liveOn /\ Asked(c, conn', "setDir", 0)
    BY <1>14 DEF Opens, Unmoved
  <2>2. conn.transport = "none" /\ conn.state = "connecting" /\ conn.up = <<>>
    BY <1>14, <2>1 DEF TypeInv, Fresh
  <2>3. c \in Connections /\ c.next = conn.next /\ c.up = <<Hello>> /\ c.outbox = conn.outbox /\ c.down = <<>>
    BY <1>2, <2>2, AttachFacts
  <2>4. await[Reader].id = 0
    BY <1>9, <1>14, <2>1 DEF ReadInv
  <2>5. Down(c) = {}
    BY <2>3, EmptyDown
  <2> HIDE DEF c
  <2>6. Young(Queue(c), c.next)
    <3> DEFINE q == Queue(conn)
               r == Queue(c)
    <3>1. Len(r) = Len(q) + 1 /\ Len(q) \in Nat /\ r[1] = Hello /\ \A i \in 1 .. Len(q) : r[i + 1] = q[i]
      BY <1>2, <2>2, <2>3, HelloElements
    <3>2. \A i \in 1 .. Len(q) : q[i].id < conn.next
      BY <1>9 DEF IdsInv, Young
    <3>3. Hello.id = 0 /\ 0 < conn.next
      BY <1>2, ConnectionFields DEF Hello, Message
    <3> HIDE DEF q, r
    <3>4. ASSUME NEW i \in 1 .. Len(r) PROVE r[i].id < conn.next
      <4>1. CASE i = 1
        BY <3>1, <3>3, <4>1
      <4>2. CASE i # 1
        <5>1. i - 1 \in 1 .. Len(q) /\ (i - 1) + 1 = i
          BY <3>1, <4>2
        <5>2. r[i] = q[i - 1]
          BY <3>1, <5>1
        <5> QED BY <3>2, <5>1, <5>2
      <4> QED BY <4>1, <4>2
    <3> QED BY <2>3, <3>4 DEF Young, r
  <2>7. IdsInv' /\ ReadInv'
    BY <1>11, <1>14, <2>1, <2>3, <2>4, <2>5, <2>6
  <2> QED BY <1>1, <1>10, <1>14, <2>1, <2>7 DEF PollInv, LiveInv
<1>15. CASE g = gen /\ (Defines(g) \/ Attaches(g))
  <2>1. turn'[g].pc \in {"define", "attach"} /\ liveOn' = liveOn
    BY <1>15 DEF Defines, Attaches, Unmoved
  <2>2. IdsInv' /\ ReadInv'
    BY <1>12, <1>15, <2>1 DEF Defines, Attaches
  <2> QED BY <1>1, <1>10, <1>15, <2>1, <2>2 DEF PollInv, LiveInv
<1>16. CASE g = gen /\ Polls(g)
  <2>1. turn'[g].pc = "health" /\ liveOn' = liveOn /\ Asked(conn, conn', "health", 0) /\ Awaits(g)
    BY <1>16, TurnWaits DEF Polls
  <2>2. IdsInv' /\ ReadInv'
    BY <1>12, <1>16, <2>1
  <2>3. After(Queue(conn'), conn.next) /\ Down(conn') \subseteq Down(conn)
    BY <1>2, <1>9, <2>1, AskedMarks DEF IdsInv
  <2>4. \A r \in Down(conn) : r.id # conn.next
    BY <1>2, <1>9 DEF IdsInv
  <2>5. await'[g].id \in {0, conn.next} /\ await'[g].got \in {Refused, Unanswered}
    BY <2>1 DEF Awaits
  <2>6. PollInv'
    BY <1>1, <1>16, <2>3, <2>4, <2>5, NotLive DEF PollInv
  <2> QED BY <1>1, <1>10, <1>16, <2>1, <2>2, <2>6 DEF LiveInv
<1> QED BY <1>13, <1>14, <1>15, <1>16, TurnSends

\* What every step but a turn's and the engine's own leaves as it was.
Quiet ==
  /\ IdsInv'
  /\ \A k \in Nat : After(Queue(conn), k) => After(Queue(conn'), k)
  /\ \A k \in Nat \ {conn.next} :
       /\ Before(Queue(conn), k) => Before(Queue(conn'), k)
       /\ HasId(Queue(conn'), k) => HasId(Queue(conn), k)
  /\ Has(Queue(conn'), "attach") => Has(Queue(conn), "attach")
  /\ Down(conn') \subseteq Down(conn)

LEMMA DownIds ==
  ASSUME NEW c \in Connections
  PROVE  \A r \in Down(c) : r.id \in Nat
<1> DEFINE S == Replies
           q == c.down
<1>1. q \in Seq(S) /\ \A r \in S : r.id \in Nat
  BY ConnectionFields DEF Replies
<1> HIDE DEF S, q
<1>2. \A j \in 1 .. Len(q) : q[j] \in S
  BY <1>1
<1> QED BY <1>1, <1>2 DEF Down, q

LEMMA IdsLater ==
  ASSUME conn \in Connections, conn' \in Connections, IdsInv, conn'.next >= conn.next,
         Young(Queue(conn'), conn'.next), Down(conn') \subseteq Down(conn)
  PROVE  IdsInv'
<1>1. conn.next \in Nat /\ conn'.next \in Nat
  BY ConnectionFields
<1>2. \A r \in Down(conn') : r.id \in Nat /\ r.id < conn.next
  BY DownIds DEF IdsInv
<1> QED BY <1>1, <1>2 DEF IdsInv

LEMMA AskedQuiet ==
  ASSUME conn \in Connections, conn' \in Connections, IdsInv,
         NEW op, NEW v, op # "attach", Asked(conn, conn', op, v)
  PROVE  Quiet
<1>1. /\ Young(Queue(conn'), conn'.next) /\ conn'.next >= conn.next
      /\ Down(conn') \subseteq Down(conn)
  BY AskedMarks DEF IdsInv
<1>2. ASSUME NEW k
      PROVE  /\ After(Queue(conn), k) => After(Queue(conn'), k)
             /\ k # conn.next /\ Before(Queue(conn), k) => Before(Queue(conn'), k)
             /\ HasId(Queue(conn'), k) => HasId(Queue(conn), k) \/ k = conn.next
  BY AskedMarks
<1>3. Has(Queue(conn'), "attach") => Has(Queue(conn), "attach")
  BY AskedKeeps
<1>4. IdsInv'
  BY <1>1, IdsLater
<1> QED BY <1>1, <1>2, <1>3, <1>4 DEF Quiet

LEMMA CarriedQuiet ==
  ASSUME conn \in Connections, conn' \in Connections, IdsInv,
         Same(conn, conn') \/ Dropped(conn, conn')
  PROVE  Quiet
<1>1. CASE Same(conn, conn')
  <2>1. /\ Queue(conn') = Queue(conn) /\ conn'.next = conn.next /\ Down(conn') \subseteq Down(conn)
    BY <1>1 DEF Same
  <2>2. conn'.next >= conn.next
    BY <2>1, ConnectionFields
  <2>3. IdsInv'
    BY <2>1, <2>2, IdsLater DEF IdsInv
  <2> QED BY <2>1, <2>3 DEF Quiet
<1>2. CASE Dropped(conn, conn')
  <2>1. /\ conn'.up = conn.up /\ conn'.outbox = <<>> /\ conn'.next >= conn.next
        /\ Down(conn') \subseteq Down(conn)
    BY <1>2 DEF Dropped
  <2>2. ASSUME NEW k, NEW n
        PROVE  /\ Young(Queue(conn), n) => Young(Queue(conn'), n)
               /\ After(Queue(conn), k) => After(Queue(conn'), k)
               /\ Before(Queue(conn), k) => Before(Queue(conn'), k)
               /\ HasId(Queue(conn'), k) => HasId(Queue(conn), k)
    BY <2>1, MarksDropped
  <2>3. Has(Queue(conn'), "attach") => Has(Queue(conn), "attach")
    BY <2>1, HasDropped
  <2>4. Young(Queue(conn), conn'.next)
    BY <2>1, QueueType, ConnectionFields, YoungLater DEF IdsInv
  <2>5. IdsInv'
    BY <2>1, <2>2, <2>4, IdsLater
  <2> QED BY <2>1, <2>2, <2>3, <2>5 DEF Quiet
<1> QED BY <1>1, <1>2

\* An engine that only lands, loses its fold or stays.
Steady ==
  /\ engine'.log = engine.log
  /\ engine.landed => engine'.landed
  /\ engine'.status = "live" => engine'.landed \/ engine.status = "live"

\* The turn's part and the reader's, where nothing that matters was sent.
LEMMA QuietKeeps ==
  ASSUME conn \in Connections, WaitInv, Booked(conn), await \in [Askers -> Waits],
         Quiet, Steady, IdsInv, PollInv, LiveInv, ReadInv,
         UNCHANGED <<gen, turn, liveOn>>, read'.astray = read.astray, read'.asked = read.asked,
         \A x \in Askers : Unheard(x) \/ Heard(x)
  PROVE  IdsInv' /\ PollInv' /\ LiveInv' /\ ReadInv'
<1>1. ASSUME NEW x \in Askers, await'[x].id # 0
      PROVE  await'[x] = await[x] /\ await[x].id \in Nat \ {conn.next}
  <2>3. Heard(x) => await'[x].id = 0
    BY DEF Heard
  <2>1. await'[x] = await[x]
    BY <1>1, <2>3 DEF Unheard
  <2>2. await[x].id \in 1 .. conn.next - 1
    BY <1>1, <2>1 DEF WaitInv, Booked
  <2> QED BY <2>1, <2>2, ConnectionFields
<1>2. PollInv'
  <2> SUFFICES ASSUME gen \in Turns, turn[gen].pc = "health" PROVE PollInv'
    BY DEF PollInv
  <2>1. gen \in Askers
    BY DEF Askers
  <2>2. ASSUME await'[gen].id # 0
        PROVE  /\ After(Queue(conn'), await'[gen].id)
               /\ \A r \in Down(conn') : r.id = await'[gen].id =>
                    ~Has(Queue(conn'), "attach") /\ (r.answer.status = "live" => engine'.landed)
    BY <1>1, <2>1, <2>2 DEF Quiet, Steady, PollInv
  <2>3. ASSUME await'[gen].got.status = "live"
        PROVE  ~Has(Queue(conn'), "attach") /\ engine'.landed
    <3>1. CASE Unheard(gen)
      <4>1. await'[gen] = await[gen]
        BY <2>3, <3>1, NotLive DEF Unheard
      <4> QED BY <2>3, <4>1 DEF Quiet, Steady, PollInv
    <3>2. CASE Heard(gen)
      <4>1. PICK r \in Down(conn) : /\ r.id # 0 /\ r.id = await[gen].id
                                    /\ await'[gen] = [id |-> 0, got |-> r.answer]
        BY <3>2 DEF Heard
      <4>2. r.answer.status = "live"
        BY <2>3, <4>1
      <4> QED BY <4>1, <4>2 DEF Quiet, Steady, PollInv
    <3> QED BY <2>1, <3>1, <3>2
  <2> QED BY <2>2, <2>3 DEF PollInv
<1>3. LiveInv'
  BY DEF LiveInv, Quiet, Steady
<1>4. ReadInv'
  <2>1. Reader \in Askers
    BY ReaderIsNoTurn
  <2>2. gen \in Turns /\ turn[gen].pc = "connect" => await'[Reader].id = 0
    BY <1>1, <2>1 DEF ReadInv
  <2>3. ASSUME await'[Reader].id # 0, ~read.astray
        PROVE  /\ Before(Queue(conn'), await'[Reader].id)
               /\ HasId(Queue(conn'), await'[Reader].id) => engine'.log = read.asked
               /\ \A r \in Down(conn') : r.id = await'[Reader].id /\ r.answer # Refused =>
                    r.answer.log = read.asked
    BY <1>1, <2>1, <2>3 DEF Quiet, Steady, ReadInv
  <2> QED BY <2>2, <2>3 DEF ReadInv
<1> QED BY <1>2, <1>3, <1>4 DEF Quiet

\* The reader, when an answer may come.
LEMMA ReaderHears ==
  ASSUME ServInv, WaitInv, Unheard(Reader) \/ Heard(Reader),
         \/ read' = read
         \/ /\ await[Reader].got \notin {Refused, Unanswered}
            /\ read' = [read EXCEPT !.got = await[Reader].got.log],
         read \in Reads
  PROVE  /\ (~read.astray /\ await[Reader].got \notin {Refused, Unanswered} =>
               await[Reader].got.log = read.asked)'
         /\ ReadsAreOfTheirLog'
<1>1. read'.astray = read.astray /\ read'.asked = read.asked
  BY DEF Reads
<1>2. ASSUME Heard(Reader), ~read.astray, await'[Reader].got # Refused
      PROVE  await'[Reader].got.log = read.asked
  <2>1. PICK r \in Down(conn) : /\ r.id # 0 /\ r.id = await[Reader].id
                                /\ await'[Reader] = [id |-> 0, got |-> r.answer]
    BY <1>2 DEF Heard
  <2>2. live # 0
    BY <2>1, ReaderIsNoTurn DEF WaitInv
  <2> QED BY <1>2, <2>1, <2>2 DEF ServInv, ReadInv
<1>3. (~read.astray /\ await[Reader].got \notin {Refused, Unanswered} =>
         await[Reader].got.log = read.asked)'
  BY <1>1, <1>2 DEF ServInv, Unheard
<1>4. ReadsAreOfTheirLog'
  <2>1. CASE read' = read
    BY <2>1 DEF ServInv, ReadsAreOfTheirLog
  <2>2. CASE /\ await[Reader].got \notin {Refused, Unanswered}
             /\ read' = [read EXCEPT !.got = await[Reader].got.log]
    <3>1. read'.got = await[Reader].got.log
      BY <2>2 DEF Reads
    <3> QED BY <1>1, <2>2, <3>1 DEF ServInv, ReadsAreOfTheirLog
  <2> QED BY <2>1, <2>2
<1> QED BY <1>3, <1>4

\* Readiness: the engine holds the log, landed, and no attach is on its way.
LEMMA ReadyServes ==
  ASSUME TypeInv, ServInv, Ready
  PROVE  /\ gen \in Turns /\ turn[gen].pc = "done" /\ ~Has(Queue(conn), "attach") /\ engine.landed
         /\ Astray <=> engine.log # world
<1>1. gen \in Turns /\ turn[gen].pc = "done" /\ ~Has(Queue(conn), "attach") /\ engine.landed
  BY DEF Ready, ServInv, LiveInv
<1>2. conn \in Connections
  BY DEF TypeInv, TypeOK
<1>3. LastAttach = engine.log
  BY <1>1, <1>2, IssuedIsQueue DEF LastAttach, Has
<1> QED BY <1>1, <1>3 DEF Astray, Ready

LEMMA ServAskRead ==
  ASSUME TypeInv, TypeInv', WaitInv, ServInv, AskRead
  PROVE  ServInv'
<1>1. /\ conn \in Connections /\ conn' \in Connections /\ Flushed(conn) /\ Booked(conn)
      /\ await \in [Askers -> Waits] /\ Reader \in Askers /\ None \in LogOrNone
      /\ conn.next \in Nat
  BY ConnectionFields DEF TypeInv, TypeOK, Booked, Askers, LogOrNone
<1>2. /\ UNCHANGED <<hostVars, turn, engine>> /\ Ready
      /\ read' = [asked |-> world, astray |-> Astray, got |-> None]
      /\ Asks(Reader, conn, Message("snapshot", None, 0))
  BY DEF AskRead
<1>3. UNCHANGED <<gen, live, liveOn>> /\ live # 0
  BY <1>2 DEF hostVars, Ready
<1>4. IdsInv /\ LiveInv
  BY <1>3 DEF ServInv
<1>5. /\ turn[gen].pc = "done" /\ ~Has(Queue(conn), "attach")
      /\ ~read'.astray => engine.log = read'.asked
  BY <1>2, ReadyServes
<1>6. Asked(conn, conn', "snapshot", 0)
  BY <1>1, <1>2, AsksAsks
<1>7. Quiet
  BY <1>1, <1>4, <1>6, AskedQuiet
<1>8. /\ await'[Reader].id \in {0, conn.next} /\ await'[Reader].got \in {Refused, Unanswered}
  BY WireWaits DEF Awaits
<1>9. Before(Queue(conn'), conn.next)
  BY <1>1, <1>5, <1>6, AskedMarks
<1>10. \A r \in Down(conn') : r.id # conn.next
  BY <1>1, <1>4, <1>7, DownIds DEF Quiet, IdsInv
<1>11. PollInv' /\ LiveInv'
  BY <1>2, <1>3, <1>4, <1>5, <1>7 DEF PollInv, LiveInv, Quiet
<1>12. ReadInv'
  BY <1>2, <1>3, <1>5, <1>8, <1>9, <1>10 DEF ReadInv
<1>13. ReadsAreOfTheirLog'
  BY <1>2 DEF ReadsAreOfTheirLog
<1>14. IdsInv'
  BY <1>7 DEF Quiet
<1>15. (engine.status = "live" => engine.landed)'
  BY <1>2 DEF ServInv
<1> QED BY <1>8, <1>11, <1>12, <1>13, <1>14, <1>15 DEF ServInv

\* The engine takes one request, and answers it.
LEMMA ServHandles ==
  ASSUME TypeInv, conn' \in Connections, WaitInv, IdsInv, PollInv, LiveInv, ReadInv,
         engine.status = "live" => engine.landed,
         Handles, UNCHANGED <<gen, turn, liveOn, await, read>>
  PROVE  /\ IdsInv' /\ PollInv' /\ LiveInv' /\ ReadInv'
         /\ (engine.status = "live" => engine.landed)'
<1> DEFINE m == Head(conn.up)
           reply == [id |-> m.id, answer |-> Replied(m)]
<1>1. /\ conn \in Connections /\ engine \in Engines /\ await \in [Askers -> Waits]
      /\ conn.next \in Nat /\ conn'.next = conn.next
  BY ConnectionFields DEF TypeInv, TypeOK, Handles
<1>2. /\ conn.up # <<>> /\ conn'.up = Tail(conn.up) /\ conn'.outbox = conn.outbox
      /\ engine' = Handled(m) /\ m \in Messages
      /\ Down(conn') \subseteq Down(conn) \cup {reply}
  BY DEF Handles
<1>3. reply.id = m.id /\ reply.answer = Replied(m)
  OBVIOUS
<1>4. /\ reply.answer.status = "live" => engine.landed
      /\ reply.answer # Refused => reply.answer.log = engine.log
  BY <1>3 DEF Replied, Answer, Refused
<1>5. /\ m.op # "attach" => engine'.log = engine.log /\ engine'.landed = engine.landed
      /\ engine'.status = "live" => engine'.landed
  <2>1. CASE m.op = "attach"
    BY <1>1, <1>2, <2>1 DEF Handled, Engines
  <2>2. CASE m.op = "define"
    BY <1>1, <1>2, <2>2 DEF Handled, Engines
  <2>3. CASE m.op \notin {"attach", "define"}
    BY <1>1, <1>2, <2>3 DEF Handled
  <2> QED BY <2>1, <2>2, <2>3
<1> HIDE DEF m, reply
<1>6. ASSUME NEW k, NEW n
      PROVE  /\ Young(Queue(conn), n) => Young(Queue(conn'), n) /\ m.id < n
             /\ After(Queue(conn), k) => After(Queue(conn'), k)
             /\ Before(Queue(conn), k) => Before(Queue(conn'), k)
             /\ HasId(Queue(conn'), k) \/ m.id = k => HasId(Queue(conn), k)
             /\ After(Queue(conn), k) /\ m.id = k => ~Has(Queue(conn'), "attach") /\ m.op # "attach"
             /\ Before(Queue(conn), k) /\ m.op = "attach" => ~HasId(Queue(conn), k)
  BY <1>1, <1>2, MarksTail DEF m
<1>7. Has(Queue(conn), "attach") <=> Has(Queue(conn'), "attach") \/ m.op = "attach"
  BY <1>1, <1>2, HasTail DEF m
<1>8. IdsInv'
  BY <1>1, <1>2, <1>3, <1>6 DEF IdsInv
<1>9. PollInv'
  <2> SUFFICES ASSUME gen \in Turns, turn[gen].pc = "health" PROVE PollInv'
    BY DEF PollInv
  <2> DEFINE k == await[gen].id
  <2>1. ASSUME k # 0
        PROVE  /\ After(Queue(conn'), k)
               /\ \A r \in Down(conn') : r.id = k =>
                    ~Has(Queue(conn'), "attach") /\ (r.answer.status = "live" => engine'.landed)
    <3>1. After(Queue(conn), k)
      BY <2>1 DEF PollInv
    <3>2. ASSUME NEW r \in Down(conn), r.id = k
          PROVE  ~Has(Queue(conn'), "attach") /\ (r.answer.status = "live" => engine'.landed)
      BY <1>5, <1>7, <2>1, <3>2 DEF PollInv
    <3>3. ASSUME reply.id = k
          PROVE  ~Has(Queue(conn'), "attach") /\ (reply.answer.status = "live" => engine'.landed)
      BY <1>3, <1>4, <1>5, <1>6, <3>1, <3>3
    <3> QED BY <1>2, <1>6, <3>1, <3>2, <3>3
  <2>2. await[gen].got.status = "live" => ~Has(Queue(conn'), "attach") /\ engine'.landed
    BY <1>5, <1>7 DEF PollInv
  <2> QED BY <2>1, <2>2 DEF PollInv
<1>10. LiveInv'
  BY <1>5, <1>7 DEF LiveInv
<1>11. ReadInv'
  <2> DEFINE k == await[Reader].id
  <2>1. ASSUME k # 0, ~read.astray
        PROVE  /\ Before(Queue(conn'), k)
               /\ HasId(Queue(conn'), k) => engine'.log = read.asked
               /\ \A r \in Down(conn') : r.id = k /\ r.answer # Refused => r.answer.log = read.asked
    <3>1. /\ Before(Queue(conn), k) /\ (HasId(Queue(conn), k) => engine.log = read.asked)
          /\ \A r \in Down(conn) : r.id = k /\ r.answer # Refused => r.answer.log = read.asked
      BY <2>1 DEF ReadInv
    <3> HIDE DEF k
    <3> QED BY <1>2, <1>3, <1>4, <1>5, <1>6, <3>1
  <2> QED BY <2>1 DEF ReadInv
<1> QED BY <1>5, <1>8, <1>9, <1>10, <1>11

LEMMA ServWire ==
  ASSUME TypeInv, TypeInv', WaitInv, ServInv,
         \/ PreferenceWritten \/ AskRead \/ ReadAnswered \/ ReaderGivesUp
         \/ EngineHandles \/ FoldLands \/ FoldFails \/ Deliver
         \/ \E id \in conn.pending : Deadline(id)
         \/ \E cleanly \in BOOLEAN : SocketLost(cleanly)
  PROVE  ServInv'
<1>1. CASE AskRead
  BY <1>1, ServAskRead
<1>2. SUFFICES ASSUME ~AskRead PROVE ServInv'
  BY <1>1
<1>3. /\ conn \in Connections /\ conn' \in Connections /\ Booked(conn)
      /\ await \in [Askers -> Waits] /\ read \in Reads
  BY DEF TypeInv, TypeOK, Booked
<1>4. UNCHANGED <<gen, live, liveOn, turn>>
  BY WireTypes DEF hostVars
<1>5. /\ \A x \in Askers : Unheard(x) \/ Heard(x)
      /\ EngineHandles => await' = await
  BY <1>2, WireWaits
<1>6. \/ read' = read
      \/ /\ await[Reader].got \notin {Refused, Unanswered}
         /\ read' = [read EXCEPT !.got = await[Reader].got.log]
  BY <1>2 DEF PreferenceWritten, ReadAnswered, ReaderGivesUp, EngineHandles, FoldLands,
              FoldFails, Deliver, Deadline, SocketLost
<1>7. /\ (~read.astray /\ await[Reader].got \notin {Refused, Unanswered} =>
             await[Reader].got.log = read.asked)'
      /\ ReadsAreOfTheirLog'
  BY <1>3, <1>5, <1>6, ReaderHears, ReaderIsNoTurn
<1>8. read'.astray = read.astray /\ read'.asked = read.asked
  BY <1>3, <1>6 DEF Reads
<1>9. engine.status = "live" => engine.landed
  BY DEF ServInv
<1>10. CASE Writes \/ Snapshots \/ Carries
  <2>1. Steady
    BY <1>10 DEF Writes, Snapshots, Carries, Steady
  <2>2. \/ Same(conn, conn') \/ Dropped(conn, conn')
        \/ \E op \in {"define", "snapshot"} : \E v \in {0, prefs'} : Asked(conn, conn', op, v)
    <3>1. conn' = conn => Same(conn, conn')
      BY DEF Same
    <3> QED BY <1>10, <3>1 DEF Writes, Snapshots, Carries
  <2>3. IdsInv => Quiet
    BY <1>3, <2>2, AskedQuiet, CarriedQuiet
  <2>4. live # 0 => (IdsInv /\ PollInv /\ LiveInv /\ ReadInv)'
    BY <1>3, <1>4, <1>5, <1>8, <2>1, <2>3, QuietKeeps DEF ServInv
  <2> QED BY <1>4, <1>7, <1>9, <2>1, <2>4 DEF ServInv, Steady
<1>11. CASE Handles
  <2>1. live # 0 /\ await' = await /\ read' = read
    BY <1>5, <1>11 DEF Handles, EngineHandles
  <2> QED BY <1>3, <1>4, <1>7, <1>9, <1>11, <2>1, ServHandles DEF ServInv
<1> QED BY <1>10, <1>11, WireSends

LEMMA ServEdge ==
  ASSUME TypeInv, TypeInv', WaitInv, ServInv,
         \/ LaunchReady \/ LaunchOver \/ StopEngineClient
         \/ \E log \in Logs \cup {None} : WorldRebuilt(log)
  PROVE  ServInv'
<1>1. /\ conn \in Connections /\ conn' \in Connections /\ Booked(conn) /\ gen \in Nat
  BY DEF TypeInv, TypeOK, Booked
<1>2. gen' = gen + 1 /\ liveOn' = None /\ read' = read
  BY EdgeTypes DEF LaunchReady, LaunchOver, StopEngineClient, WorldRebuilt, BumpGen
<1>3. WaitInv' /\ Unheard(Reader)
  <2>1. Reader # gen + 1
    BY <1>1 DEF Reader
  <2> QED BY <2>1, EdgeWaits, ReaderIsNoTurn
<1>4. /\ (~read.astray /\ await[Reader].got \notin {Refused, Unanswered} =>
             await[Reader].got.log = read.asked)'
      /\ ReadsAreOfTheirLog'
  BY <1>2, <1>3, ReaderKeeps
<1>5. CASE Launches
  <2>1. /\ turn'[gen'].pc = "connect" /\ conn' = NewConnection /\ engine' = NewEngine
    BY <1>2, <1>5 DEF Launches
  <2>2. await'[Reader].id = 0
    BY <1>3, <2>1, NewConnectionFacts, ReaderIsNoTurn DEF WaitInv
  <2>3. Len(Queue(conn')) = 0 /\ Down(conn') = {}
    <3>1. conn'.up = <<>> /\ conn'.outbox = <<>> /\ conn'.down = <<>>
      BY <2>1, NewConnectionFacts
    <3>2. Len(Queue(conn')) = Len(conn'.up) + Len(conn'.outbox)
      BY <1>1, QueueType
    <3> QED BY <3>1, <3>2, EmptyDown
  <2>4. Young(Queue(conn'), conn'.next)
    <3> DEFINE q == Queue(conn')
    <3>1. 1 .. Len(q) = {}
      BY <2>3
    <3> HIDE DEF q
    <3>2. Young(q, conn'.next)
      BY <3>1 DEF Young
    <3> QED BY <3>2 DEF q
  <2>5. IdsInv' /\ PollInv' /\ LiveInv' /\ ReadInv'
    BY <1>2, <2>1, <2>2, <2>3, <2>4 DEF IdsInv, PollInv, LiveInv, ReadInv
  <2> QED BY <1>4, <2>1, <2>5 DEF ServInv, NewEngine
<1>6. CASE Ceases
  BY <1>4, <1>6 DEF Ceases, ServInv, NewEngine
<1>7. CASE Rebuilds
  <2>1. UNCHANGED <<live, engine>> /\ turn'[gen'].pc \in {"define", "none"}
    BY <1>2, <1>7 DEF Rebuilds
  <2>2. Asked(conn, conn', "define", prefs) \/ Same(conn, conn')
    BY <1>7 DEF Rebuilds, Same
  <2>3. IdsInv => Quiet
    BY <1>1, <2>2, AskedQuiet, CarriedQuiet
  <2>4. await'[Reader].id # 0 =>
          await'[Reader] = await[Reader] /\ await[Reader].id \in Nat \ {conn.next}
    <3> SUFFICES ASSUME await'[Reader].id # 0
                 PROVE  await'[Reader] = await[Reader] /\ await[Reader].id \in Nat \ {conn.next}
      OBVIOUS
    <3>1. await'[Reader] = await[Reader]
      BY <1>3 DEF Unheard
    <3>2. await[Reader].id \in 1 .. conn.next - 1
      BY <1>1, <3>1, ReaderIsNoTurn DEF WaitInv, Booked
    <3> QED BY <1>1, <3>1, <3>2, ConnectionFields
  <2>5. live # 0 => (IdsInv /\ PollInv /\ LiveInv /\ ReadInv)'
    <3> SUFFICES ASSUME live # 0 PROVE (IdsInv /\ PollInv /\ LiveInv /\ ReadInv)'
      OBVIOUS
    <3>1. IdsInv /\ ReadInv /\ Quiet
      BY <2>3 DEF ServInv
    <3>2. PollInv' /\ LiveInv'
      BY <1>2, <2>1 DEF PollInv, LiveInv
    <3>3. ReadInv'
      BY <1>2, <2>1, <2>4, <3>1 DEF ReadInv, Quiet
    <3> QED BY <3>1, <3>2, <3>3 DEF Quiet
  <2> QED BY <1>4, <2>1, <2>5 DEF ServInv
<1> QED BY <1>5, <1>6, <1>7, EdgeSends

LEMMA InitServ == Init => WaitInv /\ ServInv
<1> SUFFICES ASSUME Init PROVE WaitInv /\ ServInv
  OBVIOUS
<1>1. /\ live = 0 /\ gen = 0 /\ conn = NewConnection /\ engine = NewEngine
      /\ await = [a \in Askers |-> NoWait]
      /\ read = [asked |-> None, astray |-> FALSE, got |-> None]
  BY DEF Init
<1>2. conn.pending = {} /\ Usable(conn)
  BY <1>1, NewConnectionFacts DEF Usable
<1>3. \A a \in Askers : await[a] = NoWait
  BY <1>1
<1>4. gen \notin Turns
  BY <1>1, HostAssumption DEF Turns
<1>5. WaitInv
  BY <1>2, <1>3, <1>4 DEF WaitInv, NoWait
<1>6. await[Reader].got = Unanswered
  BY <1>3, ReaderIsNoTurn DEF NoWait
<1> QED BY <1>1, <1>5, <1>6 DEF ServInv, NewEngine, ReadsAreOfTheirLog

LEMMA ServInvHolds == Spec => [](TypeInv /\ WaitInv /\ ServInv)
<1>1. Init => TypeInv /\ WaitInv /\ ServInv
  BY InitTypes, InitServ
<1>2. TypeInv /\ WaitInv /\ ServInv /\ [Next]_vars => (TypeInv /\ WaitInv /\ ServInv)'
  <2> SUFFICES ASSUME TypeInv, WaitInv, ServInv, [Next]_vars
               PROVE  (TypeInv /\ WaitInv /\ ServInv)'
    OBVIOUS
  <2>1. TypeInv'
    BY NextTypes
  <2>2. CASE UNCHANGED vars
    BY <2>1, <2>2 DEF vars, hostVars, WaitInv, ServInv, IdsInv, PollInv, LiveInv, ReadInv,
                      ReadsAreOfTheirLog
  <2>3. CASE LaunchReady \/ LaunchOver \/ StopEngineClient
             \/ \E log \in Logs \cup {None} : WorldRebuilt(log)
    BY <2>1, <2>3, EdgeWaits, ServEdge
  <2>4. CASE \E g \in Turns : TurnStep(g)
    BY <2>1, <2>4, TurnWaits, ServTurn
  <2>5. CASE \/ PreferenceWritten \/ AskRead \/ ReadAnswered \/ ReaderGivesUp
             \/ EngineHandles \/ FoldLands \/ FoldFails \/ Deliver
             \/ \E id \in conn.pending : Deadline(id)
             \/ \E cleanly \in BOOLEAN : SocketLost(cleanly)
    BY <2>1, <2>5, WireWaits, ServWire
  <2> QED BY <2>2, <2>3, <2>4, <2>5 DEF Next
<1> QED BY <1>1, <1>2, PTL DEF Spec

\* engineServeReadiness says yes only for the landed fold of the log the app is on,
\* in every reachable state in which no attach went astray.
THEOREM ReadinessIsTrue == Spec => []ReadyMeansServing
<1>1. TypeInv /\ ServInv => ReadyMeansServing
  BY ReadyServes DEF ReadyMeansServing
<1> QED BY <1>1, ServInvHolds, PTL

\* A read that was let through is answered from the log it was asked about, however
\* many worlds, launches and lost sockets lie between the question and the answer.
THEOREM ReadsAreTrue == Spec => []ReadsAreOfTheirLog
<1>1. ServInv => ReadsAreOfTheirLog
  BY DEF ServInv
<1> QED BY <1>1, ServInvHolds, PTL
=============================================================================
