----------------------------- MODULE WindowProofs -----------------------------
(***************************************************************************)
(* Windows in step: what a client draws once everything queued for it has  *)
(* arrived is the window the engine holds for it, whatever the number of   *)
(* connections, attaches, revisions and ids, and however long the queues.  *)
(***************************************************************************)
EXTENDS WorldProofs

USE DEF Gens, SubIds, Epochs

\* Receiving a frame depends on nothing but the client and the frame.
Receives(none, cl, m) == Receive(cl, m)

F == INSTANCE FoldFacts WITH Op <- Receives

\* Everything queued for a client, received one frame at a time.
LEMMA DrainIsFold ==
  ASSUME NEW cl, NEW s
  PROVE  FoldLeft(Receive, cl, s) = F!Fold(0, cl, s)
BY DEF FoldLeft, MapThenFoldSet, Max, F!Fold, F!Greatest, Receives

LEMMA DrainNothing ==
  ASSUME NEW cl
  PROVE  FoldLeft(Receive, cl, <<>>) = cl
BY DrainIsFold, F!FoldEmpty

LEMMA DrainLonger ==
  ASSUME NEW cl, NEW s \in Seq(Frames), NEW m \in Frames
  PROVE  FoldLeft(Receive, cl, Append(s, m)) = Receive(FoldLeft(Receive, cl, s), m)
<1>1. F!Fold(0, cl, Append(s, m)) = Receive(F!Fold(0, cl, s), m)
  BY F!FoldAppend DEF Receives
<1> QED BY <1>1, DrainIsFold

LEMMA DrainDelivered ==
  ASSUME NEW cl, NEW s \in Seq(Frames), s # <<>>
  PROVE  FoldLeft(Receive, Receive(cl, Head(s)), Tail(s)) = FoldLeft(Receive, cl, s)
<1>1. F!Fold(0, cl, s) = F!Fold(0, Receive(cl, Head(s)), Tail(s))
  BY F!FoldHead DEF Receives
<1> QED BY <1>1, DrainIsFold

LEMMA DrainStays ==
  ASSUME NEW S, NEW A, NEW cl \in A, NEW s \in Seq(S),
         \A a \in A, m \in S : Receive(a, m) \in A
  PROVE  FoldLeft(Receive, cl, s) \in A
<1>1. F!Fold(0, cl, s) \in A
  BY F!FoldStays DEF Receives
<1> QED BY <1>1, DrainIsFold

-----------------------------------------------------------------------------
(* What each frame the engine sends makes of the client that receives it.  *)

LEMMA ReceiveEpoch ==
  ASSUME NEW cl \in Clients, NEW e \in Nat \ {0}, cl.epoch <= e
  PROVE  LET after == Receive(cl, EpochMessage(e))
         IN  /\ after.id = cl.id /\ after.open = cl.open /\ after.epoch = e
             /\ after.view = IF cl.epoch # 0 /\ cl.epoch < e THEN LOADING ELSE cl.view
<1>1. cl.epoch \in Nat /\ ~Stale(cl, e)
  BY BoundsAssumption DEF Clients, Stale
<1> QED BY <1>1 DEF Receive, EpochMessage, Frame, NoteEpoch, Clients

LEMMA ReceiveReset ==
  ASSUME NEW cl \in Clients, NEW e \in Nat \ {0}, cl.epoch <= e, NEW w
  PROVE  LET after == Receive(cl, ResetMessage(cl.id, e, w))
         IN  after.id = cl.id /\ after.open = cl.open /\ after.epoch = e /\ after.view = w
<1>1. cl.epoch \in Nat /\ ~Stale(cl, e)
  BY BoundsAssumption DEF Clients, Stale
<1> QED BY <1>1 DEF Receive, ResetMessage, Frame, OnReset, NoteEpoch, Clients

LEMMA ReceiveDiff ==
  ASSUME NEW cl \in Clients, cl.epoch # 0, cl.view # LOADING, NEW w
  PROVE  LET after == Receive(cl, DiffMessage(cl.id, cl.epoch, cl.view, w))
         IN  /\ after.id = cl.id /\ after.open = cl.open
             /\ after.epoch = cl.epoch /\ after.view = w
<1>1. cl.epoch \in Nat /\ ~Stale(cl, cl.epoch)
  BY BoundsAssumption DEF Clients, Stale
<1> QED BY <1>1 DEF Receive, DiffMessage, Frame, OnDiff, ApplyDiff, NoteEpoch, Clients

LEMMA ReceiveStaleReset ==
  ASSUME NEW cl \in Clients, NEW e \in Nat, e < cl.epoch, NEW id, NEW w
  PROVE  Receive(cl, ResetMessage(id, e, w)) = cl
<1>1. cl.epoch \in Nat /\ Stale(cl, e) /\ ~(e > cl.epoch)
  BY BoundsAssumption DEF Clients, Stale
<1> QED BY <1>1 DEF Receive, ResetMessage, Frame, OnReset, NoteEpoch, Clients

LEMMA ReceiveAnswer ==
  ASSUME NEW cl, NEW e
  PROVE  Receive(cl, Answer(e)) = cl
BY DEF Receive, Answer, Frame

\* A frame of some epoch up to e leaves the client on one, and a client that has
\* seen none draws nothing.
Fresh(cl) == cl.epoch = 0 => cl.view = LOADING

LEMMA ReceiveKeeps ==
  ASSUME NEW cl \in Clients, NEW e \in Nat, cl.epoch <= e, Fresh(cl),
         NEW m \in Frames, m.kind # "answer" => m.epoch \in 1 .. e
  PROVE  LET after == Receive(cl, m)
         IN  after.id = cl.id /\ after.open = cl.open /\ after.epoch <= e /\ Fresh(after)
<1>0. CASE m.kind = "answer"
  BY <1>0 DEF Receive
<1> SUFFICES ASSUME m.kind # "answer"
             PROVE  LET after == Receive(cl, m)
                    IN  after.id = cl.id /\ after.open = cl.open /\ after.epoch <= e /\ Fresh(after)
  BY <1>0
<1>1. cl.epoch \in Nat /\ m.epoch \in Nat \ {0} /\ m.epoch <= e
  BY BoundsAssumption DEF Clients
<1>2. LET noted == NoteEpoch(cl, m.epoch)
      IN  noted.id = cl.id /\ noted.open = cl.open /\ noted.epoch <= e /\ noted.epoch # 0
  BY <1>1 DEF NoteEpoch, Stale, Clients
<1>3. NoteEpoch(cl, m.epoch) \in Clients
  BY <1>1, WindowTypes DEF NoteEpoch, Clients, Frames
<1>4. \A w : LET after == [NoteEpoch(cl, m.epoch) EXCEPT !.view = w]
             IN  after.id = cl.id /\ after.open = cl.open /\ after.epoch <= e /\ after.epoch # 0
  BY <1>2, <1>3 DEF Clients
<1> HIDE DEF Fresh
<1>5. \A x : x.epoch # 0 => Fresh(x)
  BY DEF Fresh
<1> QED BY <1>2, <1>4, <1>5 DEF Receive, OnReset, OnDiff, Frames

\* A client that draws nothing goes on drawing nothing until a frame names its
\* subscription.
LEMMA ReceiveOthers ==
  ASSUME NEW cl \in Clients, cl.view = LOADING,
         NEW m \in Frames, m.kind \in {"reset", "diff"} => m.id # cl.id
  PROVE  LET after == Receive(cl, m) IN after.view = LOADING /\ after.id = cl.id
<1>1. LET noted == NoteEpoch(cl, m.epoch) IN noted.view = LOADING /\ noted.id = cl.id
  BY DEF NoteEpoch, Clients
<1> QED BY <1>1 DEF Receive, OnReset, OnDiff, Frames

-----------------------------------------------------------------------------
(* What is on the wire.  Frames name an epoch the engine has announced, and  *)
(* a request the connection has spent; engine and client agree on which one  *)
(* is open; nothing is open or queued where nobody is connected.             *)

OnWire(e, n) ==
  {f \in Frames : /\ f.kind # "answer" => f.epoch \in 1 .. e
                  /\ f.kind \in {"reset", "diff"} => f.id \in 1 .. n - 1}

Wire(c) ==
  /\ outbox[c] \in Seq(OnWire(epoch, nextId[c]))
  /\ client[c].epoch <= epoch
  /\ client[c].id = subs[c].id /\ client[c].id < nextId[c]
  /\ ~client[c].open => client[c].id = 0
  /\ c \notin listeners => outbox[c] = <<>> /\ job[c] = Idle /\ client[c].id = 0
  /\ c \in listeners /\ client[c].id = 0 => client[c].view = LOADING
  /\ c \in listeners => Fresh(client[c])
  /\ job[c].op = "opening" => job[c].id = subs[c].id /\ job[c].at \in 1 .. epoch
  /\ subs[c].held = Owed \/ subs[c].held.is = "rows"

WireInv == \A c \in Conns : Wire(c)

\* The client with everything on the wire received.
LEMMA DrainedFacts ==
  ASSUME TypeOK, NEW c \in listeners, Wire(c)
  PROVE  /\ Drained(c) \in Clients /\ Drained(c).id = client[c].id
         /\ Drained(c).epoch <= epoch /\ Fresh(Drained(c))
<1> DEFINE A == {cl \in Clients : cl.id = client[c].id /\ cl.epoch <= epoch /\ Fresh(cl)}
<1>1. epoch \in Nat /\ client[c] \in A
  BY BoundsAssumption DEF TypeOK, WorldTypes, ClientTypes, ConnTypes, Wire
<1>2. \A a \in A, m \in OnWire(epoch, nextId[c]) : Receive(a, m) \in A
  <2> SUFFICES ASSUME NEW a \in A, NEW m \in OnWire(epoch, nextId[c]) PROVE Receive(a, m) \in A
    OBVIOUS
  <2>1. Receive(a, m) \in Clients
    BY ReceiveType DEF OnWire
  <2>2. LET after == Receive(a, m)
        IN  after.id = a.id /\ after.epoch <= epoch /\ Fresh(after)
    BY <1>1, ReceiveKeeps DEF OnWire
  <2> QED BY <2>1, <2>2
<1>3. outbox[c] \in Seq(OnWire(epoch, nextId[c]))
  BY DEF Wire
<1> HIDE DEF A
<1>4. Drained(c) \in A
  BY <1>1, <1>2, <1>3, DrainStays DEF Drained
<1> QED BY <1>4 DEF A

\* A client that draws nothing and whose subscription nothing on the wire names.
LEMMA DrainedBlank ==
  ASSUME NEW cl \in Clients, cl.view = LOADING, NEW S, NEW s \in Seq(S),
         \A m \in S : m \in Frames /\ (m.kind \in {"reset", "diff"} => m.id # cl.id)
  PROVE  FoldLeft(Receive, cl, s).view = LOADING
<1> DEFINE A == {a \in Clients : a.view = LOADING /\ a.id = cl.id}
<1>1. cl \in A
  OBVIOUS
<1>2. \A a \in A, m \in S : Receive(a, m) \in A
  BY ReceiveType, ReceiveOthers
<1> HIDE DEF A
<1>3. FoldLeft(Receive, cl, s) \in A
  BY <1>1, <1>2, DrainStays
<1> QED BY <1>3 DEF A

LEMMA OnWireGrows ==
  ASSUME NEW e \in Nat, NEW e2 \in Nat, e <= e2, NEW n \in Nat, NEW n2 \in Nat, n <= n2,
         NEW s \in Seq(OnWire(e, n))
  PROVE  s \in Seq(OnWire(e2, n2))
<1>1. OnWire(e, n) \subseteq OnWire(e2, n2)
  BY DEF OnWire
<1> HIDE DEF OnWire
<1> QED BY <1>1

LEMMA OnWireMakers ==
  ASSUME NEW e \in Epochs \ {0}, NEW n \in Nat
  PROVE  /\ EpochMessage(e) \in OnWire(e, n)
         /\ \A x \in Epochs : Answer(x) \in OnWire(e, n)
         /\ \A id \in 1 .. n - 1, x \in 1 .. e, from \in Windows, to \in Windows :
              id \in SubIds => /\ ResetMessage(id, x, to) \in OnWire(e, n)
                               /\ DiffMessage(id, x, from, to) \in OnWire(e, n)
<1>1. e \in Nat /\ \A x \in 1 .. e : x \in Epochs
  BY BoundsAssumption
<1>2. EpochMessage(e) \in OnWire(e, n)
  BY <1>1, FrameTypes DEF OnWire, EpochMessage, Frame
<1>3. \A x \in Epochs : Answer(x) \in OnWire(e, n)
  BY FrameTypes DEF OnWire, Answer, Frame
<1>4. ASSUME NEW id \in 1 .. n - 1, NEW x \in 1 .. e, NEW from \in Windows, NEW to \in Windows,
             id \in SubIds
      PROVE  /\ ResetMessage(id, x, to) \in OnWire(e, n)
             /\ DiffMessage(id, x, from, to) \in OnWire(e, n)
  <2>1. ResetMessage(id, x, to) \in Frames /\ DiffMessage(id, x, from, to) \in Frames
    BY <1>1, <1>4, FrameTypes
  <2> QED BY <2>1 DEF OnWire, ResetMessage, DiffMessage, Frame
<1> QED BY <1>2, <1>3, <1>4

\* What is in flight is what the engine could have sent: a queued frame names an
\* epoch the engine has announced and a request the connection has spent, engine
\* and client agree on which subscription is open, and nothing is queued or open
\* where nobody is connected (world.rs, attach and subscribe).
THEOREM WireHolds == Spec => []WireInv
<1>1. TypeOK /\ Init => WireInv
  <2> SUFFICES ASSUME TypeOK, Init, NEW c \in Conns PROVE Wire(c)
    BY DEF WireInv
  <2>1. /\ client[c].epoch = 0 /\ client[c].id = 0 /\ client[c].view = LOADING
        /\ subs[c].id = 0 /\ subs[c].held = Owed
        /\ outbox[c] = <<>> /\ job[c] = Idle /\ Idle.op # "opening" /\ nextId[c] = 1
    BY DEF Init, NewClient, NoSub, Idle
  <2>2. <<>> \in Seq(OnWire(epoch, nextId[c]))
    OBVIOUS
  <2> QED BY <2>1, <2>2 DEF Init, Wire, Fresh
<1>2. TypeOK /\ TypeOK' /\ WireInv /\ [Next]_vars => WireInv'
  <2> SUFFICES ASSUME TypeOK, TypeOK', WireInv, [Next]_vars, NEW c \in Conns PROVE Wire(c)'
    BY DEF WireInv
  <2>0. /\ epoch \in Epochs \ {0} /\ epoch' \in Epochs \ {0} /\ epoch \in Nat /\ epoch' \in Nat
        /\ nextId[c] \in Nat \ {0} /\ nextId'[c] \in Nat \ {0} /\ DOMAIN nextId = Conns
        /\ client \in [Conns -> Clients] /\ subs \in [Conns -> Subs] /\ job \in [Conns -> Jobs]
        /\ client' \in [Conns -> Clients] /\ subs' \in [Conns -> Subs]
        /\ DOMAIN outbox = Conns /\ DOMAIN outbox' = Conns /\ listeners \subseteq Conns
        /\ Wire(c)
    <3>1. epoch \in Epochs \ {0} /\ epoch \in Nat
      BY BoundsAssumption DEF TypeOK, WorldTypes
    <3>2. epoch' \in Epochs \ {0} /\ epoch' \in Nat
      <4>1. generation' \in 0 .. MaxGen /\ epoch' = generation' + 1
        BY DEF TypeOK, WorldTypes
      <4>2. \A x \in 0 .. MaxGen : x + 1 \in Epochs \ {0} /\ x + 1 \in Nat
        BY BoundsAssumption
      <4> QED BY <4>1, <4>2
    <3>3. nextId[c] \in Nat \ {0} /\ DOMAIN nextId = Conns
      BY BoundsAssumption DEF TypeOK, ClientTypes
    <3>4. nextId'[c] \in Nat \ {0}
      BY BoundsAssumption DEF TypeOK, ClientTypes
    <3> QED BY <3>1, <3>2, <3>3, <3>4 DEF TypeOK, ClientTypes, ConnTypes, WireInv
  <2>1. CASE Attach
    <3>1. epoch' = epoch + 1 /\ UNCHANGED <<listeners, subs, job, client, nextId>>
      BY <2>1 DEF Attach, clientVars
    <3>2. \/ outbox'[c] = outbox[c]
          \/ c \in listeners /\ outbox'[c] = Append(outbox[c], EpochMessage(epoch'))
      BY <2>1 DEF Attach, Broadcast
    <3>3. EpochMessage(epoch') \in OnWire(epoch', nextId'[c])
      BY <2>0, OnWireMakers
    <3>7. outbox[c] \in Seq(OnWire(epoch', nextId'[c]))
      <4>1. outbox[c] \in Seq(OnWire(epoch, nextId[c]))
        BY <2>0 DEF Wire
      <4>2. epoch <= epoch' /\ nextId[c] <= nextId'[c]
        BY <2>0, <3>1
      <4> QED BY <2>0, <4>1, <4>2, OnWireGrows
    <3>4. outbox'[c] \in Seq(OnWire(epoch', nextId'[c]))
      BY <3>2, <3>3, <3>7
    <3>5. c \notin listeners' => outbox'[c] = <<>>
      BY <2>0, <3>1, <3>2 DEF Wire
    <3>6. client[c].epoch \in Nat
      BY <2>0, BoundsAssumption DEF Clients
    <3> QED BY <2>0, <3>1, <3>4, <3>5, <3>6 DEF Wire
  <2>2. ASSUME NEW g \in Gens,
               \/ StartIngest(g) \/ SpawnFails(g) \/ Preempted(g) \/ ReportAttaching(g)
               \/ ApplyHeldDefines(g) \/ IngestFails(g) \/ ServeAsks(g) \/ ServeWrites(g)
               \/ TakePost(g) \/ ResumeScan(g) \/ PrepareViews(g)
        PROVE  Wire(c)'
    <3>1. UNCHANGED <<epoch, listeners, subs, outbox, client, nextId>>
      BY <2>2 DEF StartIngest, SpawnFails, Preempted, ReportAttaching, ApplyHeldDefines, IngestFails,
         ServeAsks, ServeWrites, TakePost, ResumeScan, PrepareViews, worldVars, connVars, clientVars
    <3>2. \/ job'[c] = job[c]
          \/ job[c].op = "waiting" /\ job'[c].op = "answered"
      <4>1. CASE TakePost(g)
        BY <2>0, <4>1 DEF TakePost
      <4>2. CASE ~TakePost(g)
        BY <2>2, <4>2 DEF StartIngest, SpawnFails, Preempted, ReportAttaching, ApplyHeldDefines,
           IngestFails, ServeAsks, ServeWrites, ResumeScan, PrepareViews, connVars
      <4> QED BY <4>1, <4>2
    <3>3. Idle.op = "idle"
      BY DEF Idle
    <3> QED BY <2>0, <3>1, <3>2, <3>3 DEF Wire
  <2>3. ASSUME NEW g \in Gens, FoldBatch(g) \/ ScanEnds(g) \/ TailPoll(g)
        PROVE  Wire(c)'
    <3>1. UNCHANGED <<epoch, listeners, subs, job, client, nextId>>
      BY <2>3 DEF FoldBatch, ScanEnds, TailPoll, clientVars
    <3>2. \/ outbox'[c] = outbox[c]
          \/ c \in listeners /\ outbox'[c] = Append(outbox[c], EpochMessage(epoch))
      BY <2>3 DEF FoldBatch, ScanEnds, TailPoll, MaybeReportProgress, ReportProgress, Broadcast
    <3>3. EpochMessage(epoch) \in OnWire(epoch, nextId[c])
      BY <2>0, OnWireMakers
    <3>4. outbox'[c] \in Seq(OnWire(epoch, nextId[c]))
      <4>1. outbox[c] \in Seq(OnWire(epoch, nextId[c]))
        BY <2>0 DEF Wire
      <4> QED BY <3>2, <3>3, <4>1
    <3>5. c \notin listeners' => outbox'[c] = <<>>
      BY <2>0, <3>1, <3>2 DEF Wire
    <3> QED BY <2>0, <3>1, <3>4, <3>5 DEF Wire
  <2>4. ASSUME NEW g \in Gens, NEW all \in BOOLEAN, ServeIfPrepared(g, all),
               UNCHANGED <<epoch, listeners, job, client, nextId>>
        PROVE  Wire(c)'
    <3>1. \/ outbox'[c] = outbox[c] /\ subs'[c] = subs[c]
          \/ /\ c \in Subscribed /\ subs'[c].id = subs[c].id /\ subs'[c].held = Rows(g, rev[g])
             /\ outbox'[c] = outbox[c] \o Served(c, g, all)
      <4>1. CASE ~prepared[g]
        BY <2>4, <4>1 DEF ServeIfPrepared
      <4>2. CASE prepared[g] /\ Skipped(c, g, all)
        BY <2>4, <4>2 DEF ServeIfPrepared, Serve
      <4>3. CASE prepared[g] /\ ~Skipped(c, g, all)
        <5>1. c \in Subscribed
          BY <4>3 DEF Skipped
        <5>2. /\ subs'[c] = [subs[c] EXCEPT !.held = Rows(g, rev[g]), !.rev = rev[g]]
              /\ outbox'[c] = outbox[c] \o Served(c, g, all)
          BY <2>4, <4>3 DEF ServeIfPrepared, Serve
        <5>3. subs'[c].id = subs[c].id /\ subs'[c].held = Rows(g, rev[g])
          BY <2>0, <5>2 DEF Subs
        <5> QED BY <5>1, <5>2, <5>3
      <4> QED BY <4>1, <4>2, <4>3
    <3>2. CASE outbox'[c] = outbox[c] /\ subs'[c] = subs[c]
      BY <2>0, <2>4, <3>2 DEF Wire
    <3>3. CASE /\ c \in Subscribed /\ subs'[c].id = subs[c].id /\ subs'[c].held = Rows(g, rev[g])
               /\ outbox'[c] = outbox[c] \o Served(c, g, all)
      <4>1. c \in listeners /\ subs[c].id \in 1 .. nextId[c] - 1 /\ subs[c].id \in SubIds
        BY <2>0, <3>3 DEF Subscribed, Subs, Wire
      <4>2. Rows(g, rev[g]).is = "rows"
        BY DEF Rows, Empty, Window
      <4>3. subs[c].held \in Windows /\ Rows(g, rev[g]) \in Windows /\ epoch \in Epochs
        <5>1. subs[c].held \in Windows
          BY <2>0 DEF Subs
        <5>2. rev[g] \in 0 .. MaxRev /\ g \in 0 .. MaxGen
          BY BoundsAssumption DEF TypeOK, FoldTypes
        <5> QED BY <2>0, <5>1, <5>2, WindowTypes
      <4>4. /\ ResetMessage(subs[c].id, epoch, Rows(g, rev[g])) \in OnWire(epoch, nextId[c])
            /\ DiffMessage(subs[c].id, epoch, subs[c].held, Rows(g, rev[g])) \in OnWire(epoch, nextId[c])
        BY <2>0, <4>1, <4>3, OnWireMakers
      <4>5. Served(c, g, all) \in Seq(OnWire(epoch, nextId[c]))
        <5>1. \A f \in OnWire(epoch, nextId[c]) : <<f>> \in Seq(OnWire(epoch, nextId[c]))
          OBVIOUS
        <5>2. <<>> \in Seq(OnWire(epoch, nextId[c]))
          OBVIOUS
        <5> QED BY <4>4, <5>1, <5>2 DEF Served
      <4>6. outbox'[c] \in Seq(OnWire(epoch, nextId[c]))
        BY <2>0, <3>3, <4>5 DEF Wire
      <4> QED BY <2>0, <2>4, <3>3, <4>1, <4>2, <4>6 DEF Wire
    <3> QED BY <3>1, <3>2, <3>3
  <2>5. ASSUME NEW g \in Gens, Land(g) \/ ServeViews(g)
        PROVE  Wire(c)'
    <3>1. UNCHANGED <<epoch, listeners, job, client, nextId>>
      BY <2>5 DEF Land, ServeViews, worldVars, clientVars
    <3>2. ServeIfPrepared(g, TRUE) \/ ServeIfPrepared(g, FALSE)
      BY <2>5 DEF Land, ServeViews
    <3> QED BY <2>4, <3>1, <3>2
  <2>6. ASSUME NEW d \in Conns, Connection(d) \/ User(d) \/ Subscribe(d) \/ Deliver(d)
        PROVE  Wire(c)'
    <3>0. UNCHANGED epoch
      BY <2>6 DEF Connection, User, SendOpeningReset, SendPost, Reply, GiveUp, Connect, Disconnect,
         OpenView, Unsubscribe, Post, Subscribe, Deliver, worldVars
    <3>1. CASE c # d
      <4>1. /\ UNCHANGED <<subs[c], outbox[c], job[c], client[c], nextId[c]>>
            /\ c \in listeners' <=> c \in listeners
        BY <2>0, <2>6, <3>1 DEF Connection, User, SendOpeningReset, SendPost, Reply, GiveUp, Connect, Disconnect,
         OpenView, Unsubscribe, Post, Subscribe, Deliver, connVars, clientVars
      <4> QED BY <2>0, <3>0, <4>1 DEF Wire
    <3>2. CASE c = d
      <4> USE <3>2
      <4>0. /\ Idle.op = "idle" /\ client[c].epoch \in Nat
            /\ client[c].view \in Windows /\ client[c].open \in BOOLEAN /\ Idle.op # "opening"
        BY <2>0, BoundsAssumption DEF Idle, Clients
      <4>1. CASE SendOpeningReset(d)
        <5>1. /\ job[c].op = "opening" /\ outbox'[c] = Append(outbox[c], ResetMessage(job[c].id, job[c].at, Empty))
              /\ job'[c] = Idle /\ UNCHANGED <<listeners, subs, client, nextId>>
          BY <2>0, <4>1 DEF SendOpeningReset, clientVars
        <5>2. /\ job[c].id \in 1 .. nextId[c] - 1 /\ job[c].at \in 1 .. epoch /\ c \in listeners
              /\ job[c].id \in SubIds /\ job[c].at \in Epochs
          <6>1. job[c].id \in 1 .. MaxIds /\ job[c].at \in 1 .. MaxGen + 1
            BY <2>0, <5>1, JobTypes
          <6>2. /\ job[c].id = subs[c].id /\ subs[c].id = client[c].id /\ client[c].id < nextId[c]
                /\ job[c].at \in 1 .. epoch /\ c \in listeners
            BY <2>0, <4>0, <5>1 DEF Wire
          <6> QED BY <2>0, <6>1, <6>2, BoundsAssumption
        <5>4. ResetMessage(job[c].id, job[c].at, Empty) \in OnWire(epoch, nextId[c])
          BY <2>0, <5>2, OnWireMakers, WindowTypes
        <5>5. outbox'[c] \in Seq(OnWire(epoch, nextId[c]))
          BY <2>0, <5>1, <5>4 DEF Wire
        <5> QED BY <2>0, <3>0, <4>0, <5>1, <5>2, <5>5 DEF Wire
      <4>2. CASE Reply(d)
        <5>1. /\ job[c].op = "answered" /\ outbox'[c] = Append(outbox[c], Answer(job[c].at + 1))
              /\ job'[c] = Idle /\ UNCHANGED <<listeners, subs, client, nextId>>
          BY <2>0, <4>2 DEF Reply, clientVars
        <5>2. job[c].at + 1 \in Epochs /\ c \in listeners
          <6>1. job[c].at \in Gens
            BY <2>0, <5>1, JobTypes
          <6>2. c \in listeners
            BY <2>0, <4>0, <5>1 DEF Wire
          <6> QED BY <6>1, <6>2, BoundsAssumption
        <5>3. Answer(job[c].at + 1) \in OnWire(epoch, nextId[c])
          BY <2>0, <5>2, OnWireMakers
        <5>5. outbox'[c] \in Seq(OnWire(epoch, nextId[c]))
          BY <2>0, <5>1, <5>3 DEF Wire
        <5> QED BY <2>0, <3>0, <4>0, <5>1, <5>2, <5>5 DEF Wire
      <4>3. CASE SendPost(d) \/ GiveUp(d) \/ \E kind \in Kinds : Post(d, kind)
        <5>1. UNCHANGED <<listeners, subs, outbox, client, nextId>>
          BY <4>3 DEF SendPost, GiveUp, Post, clientVars
        <5>2. job'[c] = job[c] \/ (job'[c].op # "opening" /\ c \in listeners)
          <6>1. CASE SendPost(d) \/ GiveUp(d)
            <7>1. job[c].op # "idle"
              BY <6>1 DEF SendPost, GiveUp
            <7>2. c \in listeners
              BY <2>0, <4>0, <7>1 DEF Wire
            <7>3. job'[c] = Idle \/ job'[c] = [job[c] EXCEPT !.op = "waiting"]
              BY <2>0, <6>1 DEF SendPost, GiveUp
            <7>4. job[c].op = "posting" => [job[c] EXCEPT !.op = "waiting"].op = "waiting"
              <8>1. job[c] \in Jobs
                BY <2>0
              <8> QED BY <8>1 DEF Jobs, Posted, Opened, Idle
            <7>5. job'[c] # Idle => job[c].op = "posting"
              BY <2>0, <6>1 DEF SendPost, GiveUp
            <7> QED BY <4>0, <7>2, <7>3, <7>4, <7>5
          <6>2. ASSUME NEW kind \in Kinds, Post(d, kind)
                PROVE  job'[c] = job[c] \/ (job'[c].op # "opening" /\ c \in listeners)
            BY <2>0, <6>2 DEF Post, Job
          <6> QED BY <4>3, <6>1, <6>2
        <5> QED BY <2>0, <3>0, <4>0, <5>1, <5>2 DEF Wire
      <4>4. CASE Connect(d)
        <5>1. /\ c \notin listeners /\ listeners' = listeners \cup {c}
              /\ client'[c] = AttachTransport(client[c])
              /\ UNCHANGED <<outbox, subs, job, nextId>>
          BY <2>0, <4>4 DEF Connect
        <5>2. client'[c].epoch = 0 /\ client'[c].id = 0 /\ client'[c].view = LOADING
          BY <2>0, <5>1 DEF AttachTransport, Clients
        <5> QED BY <2>0, <3>0, <4>0, <5>1, <5>2 DEF Wire, Fresh
      <4>5. CASE Disconnect(d)
        <5>1. /\ c \notin listeners' /\ job[c] = Idle /\ outbox'[c] = <<>> /\ subs'[c] = NoSub
              /\ client'[c] = FailConnection(client[c]) /\ UNCHANGED <<job, nextId>>
          BY <2>0, <4>5 DEF Disconnect
        <5>2. client'[c].epoch = client[c].epoch /\ client'[c].id = 0
          BY <2>0, <5>1 DEF FailConnection, Clients
        <5>3. outbox'[c] \in Seq(OnWire(epoch, nextId[c]))
          BY <5>1
        <5>4. NoSub.id = 0 /\ NoSub.held = Owed
          BY DEF NoSub
        <5> QED BY <2>0, <3>0, <4>0, <5>1, <5>2, <5>3, <5>4 DEF Wire
      <4>6. CASE OpenView(d)
        <5>1. /\ ~client[c].open /\ UNCHANGED <<listeners, subs, outbox, job, nextId>>
              /\ client'[c] = [client[c] EXCEPT !.open = TRUE, !.view = LOADING]
          BY <2>0, <4>6 DEF OpenView, connVars
        <5>2. /\ client'[c].epoch = client[c].epoch /\ client'[c].id = client[c].id
              /\ client'[c].view = LOADING /\ client'[c].open
          BY <2>0, <5>1 DEF Clients
        <5> QED BY <2>0, <3>0, <4>0, <5>1, <5>2 DEF Wire, Fresh
      <4>7. CASE Unsubscribe(d)
        <5>1. /\ c \in listeners /\ job[c] = Idle /\ UNCHANGED <<listeners, outbox, job, nextId>>
              /\ subs'[c] = NoSub
              /\ client'[c] = [client[c] EXCEPT !.open = FALSE, !.id = 0, !.view = LOADING]
          BY <2>0, <4>7 DEF Unsubscribe
        <5>2. /\ client'[c].epoch = client[c].epoch /\ client'[c].id = 0
              /\ client'[c].view = LOADING
          BY <2>0, <5>1 DEF Clients
        <5>3. NoSub.id = 0 /\ NoSub.held = Owed
          BY DEF NoSub
        <5> QED BY <2>0, <3>0, <4>0, <5>1, <5>2, <5>3 DEF Wire, Fresh
      <4>8. CASE Subscribe(d)
        <5>1. /\ c \in listeners /\ client[c].open /\ nextId'[c] = nextId[c] + 1
              /\ UNCHANGED <<listeners, outbox>>
              /\ client'[c] = [client[c] EXCEPT !.id = nextId[c]]
              /\ subs'[c] = [NoSub EXCEPT !.id = nextId[c]]
              /\ job'[c] = Job("opening", "none", nextId[c], epoch)
          BY <2>0, <4>8 DEF Subscribe
        <5>2. /\ client'[c].epoch = client[c].epoch /\ client'[c].id = nextId[c]
              /\ client'[c].view = client[c].view /\ client'[c].open
          BY <2>0, <5>1 DEF Clients
        <5>3. /\ subs'[c].id = nextId[c] /\ subs'[c].held = Owed
              /\ job'[c].id = nextId[c] /\ job'[c].at = epoch
          BY <5>1 DEF NoSub, Job
        <5>4. outbox'[c] \in Seq(OnWire(epoch', nextId'[c]))
          <6>1. outbox[c] \in Seq(OnWire(epoch, nextId[c]))
            BY <2>0 DEF Wire
          <6>2. epoch <= epoch' /\ nextId[c] <= nextId'[c]
            BY <2>0, <3>0, <5>1
          <6> QED BY <2>0, <5>1, <6>1, <6>2, OnWireGrows
        <5> QED BY <2>0, <3>0, <4>0, <5>1, <5>2, <5>3, <5>4 DEF Wire, Fresh
      <4>9. CASE Deliver(d)
        <5>1. /\ outbox[c] # <<>> /\ outbox'[c] = Tail(outbox[c])
              /\ client'[c] = Receive(client[c], Head(outbox[c]))
              /\ UNCHANGED <<listeners, subs, job, nextId>>
          BY <2>0, <4>9 DEF Deliver
        <5>2. c \in listeners /\ Head(outbox[c]) \in OnWire(epoch, nextId[c]) /\ outbox'[c] \in Seq(OnWire(epoch, nextId[c]))
          BY <2>0, <5>1 DEF Wire
        <5> DEFINE m == Head(outbox[c])
        <5>3. m \in Frames /\ (m.kind # "answer" => m.epoch \in 1 .. epoch)
              /\ (m.kind \in {"reset", "diff"} => m.id # 0)
          BY <5>2 DEF OnWire
        <5>4. client[c] \in Clients /\ client[c].epoch <= epoch /\ Fresh(client[c])
              /\ (client[c].id = 0 => client[c].view = LOADING)
          BY <2>0, <5>2 DEF Wire
        <5> HIDE DEF m
        <5>5. /\ client'[c].id = client[c].id /\ client'[c].open = client[c].open
              /\ client'[c].epoch <= epoch /\ Fresh(client'[c])
          BY <2>0, <5>1, <5>3, <5>4, ReceiveKeeps DEF m
        <5>6. client[c].id = 0 => client'[c].view = LOADING
          BY <5>1, <5>3, <5>4, ReceiveOthers DEF m
        <5> QED BY <2>0, <3>0, <5>1, <5>2, <5>5, <5>6 DEF Wire
      <4> QED BY <2>6, <4>1, <4>2, <4>3, <4>4, <4>5, <4>6, <4>7, <4>8, <4>9 DEF Connection, User
    <3> QED BY <3>1, <3>2
  <2>7. CASE UNCHANGED vars
    BY <2>0, <2>7 DEF vars, worldVars, connVars, foldVars, clientVars, Wire
  <2> QED BY <2>1, <2>2, <2>3, <2>5, <2>6, <2>7 DEF Next, Ingest
<1> QED BY <1>1, <1>2, TypeCorrect, PTL DEF Spec

-----------------------------------------------------------------------------
(* Windows in step.  Between registering a subscription and sending its    *)
(* opening reset the connection's thread holds no lock: as long as the     *)
(* epoch it read is current, nothing has been served to it (else it is     *)
(* overtaken); once an attach has gone by, its own reset will arrive stale. *)

Live == generation # 0 /\ pc[generation] \in Landed

Drawn(c) ==
  c \in listeners \ overtaken =>
    IF job[c].op = "opening" /\ job[c].at = epoch
    THEN subs[c].held = Owed /\ Drained(c).view = LOADING
    ELSE /\ InStep(c)
         /\ job[c].op = "opening" => Drained(c).epoch = epoch

DrawnInv == \A c \in Conns : Drawn(c)

\* A step that leaves a connection's drained client, its subscription and its
\* opening alone.
LEMMA DrawnKept ==
  ASSUME NEW c \in Conns, Drawn(c),
         c \in listeners' \ overtaken' => c \in listeners \ overtaken,
         Drained(c)' = Drained(c), subs'[c] = subs[c], epoch' = epoch, Live' => Live,
         job'[c] = job[c] \/ (job[c].op # "opening" /\ job'[c].op # "opening")
  PROVE  Drawn(c)'
BY DEF Drawn, InStep, Live

LEMMA LiveKept ==
  ASSUME TypeOK, NEW g \in Gens, UNCHANGED generation,
         \A h \in Gens \ {g} : pc'[h] = pc[h],
         pc'[g] \in Landed => pc[g] \in Landed
  PROVE  Live' => Live
<1>1. generation # 0 => generation \in Gens
  BY DEF TypeOK, WorldTypes
<1>2. CASE generation = g
  BY <1>2 DEF Live
<1>3. CASE generation # g
  BY <1>1, <1>3 DEF Live
<1> QED BY <1>2, <1>3

LEMMA WindowKinds ==
  /\ LOADING.is # "parted" /\ Empty.is # "parted" /\ Owed # LOADING
  /\ \A g, r : Rows(g, r).is = "rows" /\ Rows(g, r) # Owed /\ Rows(g, r).is # "parted"
  /\ \A w : w.is = "rows" => w # LOADING
BY DEF LOADING, Empty, Owed, Rows, Window

\* Progress frames name the current epoch: a client of a landed fold is on it.
LEMMA ProgressKeepsStep ==
  ASSUME TypeOK, NEW c \in Conns, Wire(c), Drawn(c),
         UNCHANGED <<epoch, listeners, overtaken, subs, job, client>>, Live' => Live,
         \/ outbox'[c] = outbox[c]
         \/ c \in listeners /\ outbox'[c] = Append(outbox[c], EpochMessage(epoch))
  PROVE  Drawn(c)'
<1>1. CASE outbox'[c] = outbox[c]
  <2>1. Drained(c)' = Drained(c)
    BY <1>1 DEF Drained
  <2> QED BY <2>1, DrawnKept
<1>2. CASE c \in listeners /\ outbox'[c] = Append(outbox[c], EpochMessage(epoch))
  <2>1. epoch \in Nat \ {0} /\ epoch \in Epochs /\ outbox[c] \in Seq(Frames)
    BY BoundsAssumption DEF TypeOK, WorldTypes, ConnTypes
  <2>2. /\ Drained(c) \in Clients /\ Drained(c).epoch <= epoch
    BY <1>2, DrainedFacts
  <2>3. EpochMessage(epoch) \in Frames
    BY <2>1, FrameTypes
  <2>4. Drained(c)' = Receive(Drained(c), EpochMessage(epoch))
    BY <1>2, <2>1, <2>3, DrainLonger DEF Drained
  <2> DEFINE d == Drained(c)
             after == Receive(d, EpochMessage(epoch))
  <2>5. /\ after.id = d.id /\ after.epoch = epoch
        /\ after.view = IF d.epoch # 0 /\ d.epoch < epoch THEN LOADING ELSE d.view
    BY <2>1, <2>2, ReceiveEpoch
  <2>6. Drained(c)' = after
    BY <2>4
  <2>7. d.epoch = epoch => after.view = d.view
    BY <2>1, <2>5
  <2>8. after.view = d.view \/ after.view = LOADING
    BY <2>5
  <2> HIDE DEF after, d
  <2> SUFFICES ASSUME c \in listeners' \ overtaken' PROVE Drawn(c)'
    BY DEF Drawn
  <2>9. CASE job[c].op = "opening" /\ job[c].at = epoch
    BY <2>6, <2>8, <2>9 DEF Drawn, d
  <2>10. CASE ~(job[c].op = "opening" /\ job[c].at = epoch)
    <3>1. InStep(c) /\ (job[c].op = "opening" => d.epoch = epoch)
      BY <2>10 DEF Drawn, d
    <3>2. InStep(c)'
      BY <2>5, <2>6, <2>7, <2>8, <3>1, WindowKinds DEF InStep, Live, d
    <3> QED BY <2>5, <2>6, <2>10, <3>2 DEF Drawn
  <2> QED BY <2>9, <2>10
<1> QED BY <1>1, <1>2

\* A pass of the owner over the subscriptions.
LEMMA ServeKeepsStep ==
  ASSUME TypeOK, SyncInv, NEW c \in Conns, Wire(c), Drawn(c),
         NEW g \in Gens, Owns(g), NEW all \in BOOLEAN, ServeIfPrepared(g, all),
         UNCHANGED <<epoch, generation, listeners, job, client>>, Live',
         \/ ~all /\ Live
         \/ all /\ (prepared[g] \/ \A d \in Conns : subs[d].held = Owed)
  PROVE  Drawn(c)'
<1> DEFINE d == Drained(c)
           rows == Rows(g, rev[g])
<1>0. /\ epoch \in Nat \ {0} /\ epoch \in Epochs /\ outbox[c] \in Seq(Frames)
      /\ rows \in Windows /\ subs[c] \in Subs /\ subs[c].id \in SubIds /\ subs[c].held \in Windows
  <2>1. epoch \in Nat \ {0} /\ epoch \in Epochs /\ outbox[c] \in Seq(Frames)
    BY BoundsAssumption DEF TypeOK, WorldTypes, ConnTypes
  <2>2. rev[g] \in 0 .. MaxRev /\ g \in 0 .. MaxGen
    BY BoundsAssumption DEF TypeOK, FoldTypes
  <2>3. subs[c] \in Subs
    BY DEF TypeOK, ConnTypes
  <2> QED BY <2>1, <2>2, <2>3, WindowTypes DEF Subs
<1> SUFFICES ASSUME c \in listeners' \ overtaken' PROVE Drawn(c)'
  BY DEF Drawn
<1>1. c \in listeners /\ d \in Clients /\ d.id = client[c].id /\ d.epoch <= epoch /\ Fresh(d)
  BY DrainedFacts
<1>2. d.id = subs[c].id
  BY <1>1 DEF Wire
<1> HIDE DEF d, rows
<1>3. CASE ~prepared[g]
  <2>1. UNCHANGED <<outbox, subs, overtaken>>
    BY <1>3 DEF ServeIfPrepared
  <2>2. Drained(c)' = Drained(c)
    BY <2>1 DEF Drained
  <2>3. CASE Live
    BY <2>1, <2>2, <2>3, DrawnKept
  <2>4. CASE subs[c].held = Owed
    BY <2>1, <2>2, <2>4 DEF Drawn, InStep
  <2> QED BY <1>3, <2>3, <2>4
<1>4. CASE prepared[g] /\ Skipped(c, g, all)
  <2>1. UNCHANGED <<outbox[c], subs[c]>> /\ (c \notin overtaken' => c \notin overtaken)
    BY <1>4 DEF ServeIfPrepared, Serve
  <2>2. Drained(c)' = Drained(c)
    BY <2>1 DEF Drained
  <2>3. CASE ~all /\ Live
    BY <2>1, <2>2, <2>3, DrawnKept
  <2>4. CASE all
    <3>1. subs[c].id = 0 /\ subs[c].held = Owed
      BY <1>1, <1>4, <2>4 DEF Skipped, Subscribed, SyncInv, OnlyOpenSubsHold
    <3> QED BY <2>1, <2>2, <3>1 DEF Drawn, InStep
  <2> QED BY <2>3, <2>4
<1>5. CASE prepared[g] /\ ~Skipped(c, g, all)
  <2>1. c \in Subscribed /\ subs[c].id # 0
    BY <1>5 DEF Skipped, Subscribed
  <2>2. /\ subs'[c] = [subs[c] EXCEPT !.held = rows, !.rev = rev[g]]
        /\ outbox'[c] = outbox[c] \o Served(c, g, all)
        /\ ~(job[c].op = "opening" /\ job[c].at = epoch)
        /\ ~all => c \notin overtaken
    BY <1>5 DEF ServeIfPrepared, Serve, rows
  <2>3. subs'[c].id = subs[c].id /\ subs'[c].held = rows
    BY <1>0, <2>2 DEF Subs
  <2>4. Drained(c)'.id = d.id /\ Drained(c)'.view = rows /\ Drained(c)'.epoch = epoch
    <3>1. CASE all \/ subs[c].held = Owed
      <4> DEFINE m == ResetMessage(subs[c].id, epoch, rows)
      <4>1. m \in Frames
        BY <1>0, FrameTypes
      <4>2. Served(c, g, all) = <<m>>
        BY <3>1 DEF Served, rows
      <4> HIDE DEF m
      <4>3. outbox'[c] = Append(outbox[c], m)
        BY <1>0, <2>2, <4>1, <4>2
      <4>4. Drained(c)' = Receive(d, m)
        BY <1>0, <4>1, <4>3, DrainLonger DEF Drained, d
      <4>5. m = ResetMessage(d.id, epoch, rows)
        BY <1>2 DEF m
      <4> QED BY <1>0, <1>1, <4>4, <4>5, ReceiveReset
    <3>2. CASE ~all /\ subs[c].held # Owed
      <4>1. InStep(c)
        BY <1>1, <2>2, <3>2 DEF Drawn
      <4>2. d.view = subs[c].held /\ d.epoch = epoch
        BY <1>2, <2>1, <3>2, <4>1 DEF InStep, Live, d
      <4>3. CASE subs[c].held = rows
        <5>1. Served(c, g, all) = <<>>
          BY <3>2, <4>3 DEF Served, rows
        <5>2. outbox'[c] = outbox[c]
          BY <1>0, <2>2, <5>1
        <5>3. Drained(c)' = d
          BY <5>2 DEF Drained, d
        <5> QED BY <4>2, <4>3, <5>3
      <4>4. CASE subs[c].held # rows
        <5> DEFINE m == DiffMessage(subs[c].id, epoch, subs[c].held, rows)
        <5>1. m \in Frames
          BY <1>0, FrameTypes
        <5>2. Served(c, g, all) = <<m>>
          BY <3>2, <4>4 DEF Served, rows
        <5> HIDE DEF m
        <5>3. outbox'[c] = Append(outbox[c], m)
          BY <1>0, <2>2, <5>1, <5>2
        <5>4. Drained(c)' = Receive(d, m)
          BY <1>0, <5>1, <5>3, DrainLonger DEF Drained, d
        <5>5. subs[c].held # LOADING
          BY <3>2, WindowKinds DEF Wire
        <5>6. m = DiffMessage(d.id, d.epoch, d.view, rows) /\ d.epoch # 0 /\ d.view # LOADING
          BY <1>0, <1>2, <4>2, <5>5 DEF m
        <5>7. /\ Drained(c)'.id = d.id /\ Drained(c)'.epoch = d.epoch /\ Drained(c)'.view = rows
          BY <1>1, <5>4, <5>6, ReceiveDiff
        <5> QED BY <4>2, <5>7
      <4> QED BY <4>3, <4>4
    <3> QED BY <3>1, <3>2
  <2>5. rows.is # "parted"
    BY WindowKinds DEF rows
  <2>6. InStep(c)'
    BY <2>3, <2>4, <2>5 DEF InStep
  <2> QED BY <2>2, <2>4, <2>6 DEF Drawn
<1> QED BY <1>3, <1>4, <1>5

\* The inductive form of windows in step: what drawing the queue to its end gives,
\* in every stage a subscription passes between registration and its first reset
\* (world.rs, subscribe and publish).
THEOREM DrawnHolds == Spec => []DrawnInv
<1>1. Init => DrawnInv
  BY DEF Init, DrawnInv, Drawn
<1>2. /\ TypeOK /\ TypeOK' /\ UnattachedIsUntouched /\ SyncInv /\ WireInv /\ WireInv' /\ DrawnInv
      /\ [Next]_vars
      => DrawnInv'
  <2> SUFFICES ASSUME TypeOK, TypeOK', UnattachedIsUntouched, SyncInv, WireInv, WireInv', DrawnInv,
                      [Next]_vars, NEW c \in Conns
               PROVE  Drawn(c)'
    BY DEF DrawnInv
  <2>0. /\ epoch \in Nat \ {0} /\ epoch \in Epochs /\ Wire(c) /\ Wire(c)' /\ Drawn(c)
        /\ DOMAIN pc = Gens /\ DOMAIN outbox = Conns /\ DOMAIN job = Conns /\ DOMAIN client = Conns
        /\ DOMAIN subs = Conns /\ DOMAIN nextId = Conns
        /\ outbox[c] \in Seq(Frames) /\ client[c] \in Clients /\ client'[c] \in Clients
        /\ nextId[c] \in Nat
    <3>1. epoch \in Nat \ {0} /\ epoch \in Epochs
      BY BoundsAssumption DEF TypeOK, WorldTypes
    <3>2. nextId[c] \in Nat /\ DOMAIN nextId = Conns
      BY BoundsAssumption DEF TypeOK, ClientTypes
    <3>3. client[c] \in Clients /\ client'[c] \in Clients /\ DOMAIN client = Conns
      BY DEF TypeOK, ClientTypes
    <3> QED BY <3>1, <3>2, <3>3 DEF TypeOK, ConnTypes, FoldTypes, WireInv, DrawnInv
  <2>1. CASE Attach
    <3>1. /\ epoch' = epoch + 1 /\ generation' = generation + 1 /\ generation < MaxGen
          /\ UNCHANGED <<listeners, overtaken, subs, job, client, pc>>
      BY <2>1 DEF Attach, foldVars, clientVars
    <3>2. SUFFICES ASSUME c \in listeners \ overtaken PROVE Drawn(c)'
      BY <3>1 DEF Drawn
    <3>3. outbox'[c] = Append(outbox[c], EpochMessage(epoch'))
      BY <2>0, <2>1, <3>1, <3>2 DEF Attach, Broadcast
    <3> DEFINE d == Drained(c)
    <3>4. d \in Clients /\ d.epoch <= epoch /\ d.epoch \in Nat /\ Fresh(d)
      <4>1. d \in Clients /\ d.epoch <= epoch /\ Fresh(d)
        BY <2>0, <3>2, DrainedFacts
      <4> QED BY <4>1, BoundsAssumption DEF Clients
    <3>5. epoch' \in Epochs /\ epoch' \in Nat \ {0} /\ generation' \in Gens
      <4>1. generation \in 0 .. MaxGen /\ epoch = generation + 1
        BY DEF TypeOK, WorldTypes
      <4> QED BY <3>1, <4>1, BoundsAssumption
    <3>6. Drained(c)' = Receive(d, EpochMessage(epoch'))
      <4>1. EpochMessage(epoch') \in Frames
        BY <3>5, FrameTypes
      <4>2. Drained(c)' = FoldLeft(Receive, client[c], Append(outbox[c], EpochMessage(epoch')))
        BY <3>1, <3>3 DEF Drained
      <4> QED BY <2>0, <4>1, <4>2, DrainLonger DEF Drained
    <3> HIDE DEF d
    <3>7. Drained(c)'.epoch = epoch' /\ Drained(c)'.view = LOADING
      <4>1. d.epoch <= epoch'
        BY <2>0, <3>1, <3>4
      <4>2. /\ Drained(c)'.epoch = epoch'
            /\ Drained(c)'.view = IF d.epoch # 0 /\ d.epoch < epoch' THEN LOADING ELSE d.view
        BY <3>4, <3>5, <3>6, <4>1, ReceiveEpoch
      <4> QED BY <2>0, <3>1, <3>4, <4>2 DEF Fresh
    <3>8. pc'[generation'] = "none"
      <4>1. generation' > generation
        BY <3>1 DEF TypeOK, WorldTypes
      <4> QED BY <3>1, <3>5, <4>1 DEF UnattachedIsUntouched
    <3>9. ~ (job'[c].op = "opening" /\ job'[c].at = epoch')
      BY <2>0, <3>1 DEF Wire
    <3> QED BY <3>7, <3>8, <3>9, WindowKinds DEF Drawn, InStep, Landed
  <2>2. ASSUME NEW g \in Gens,
               \/ StartIngest(g) \/ SpawnFails(g) \/ Preempted(g) \/ ReportAttaching(g)
               \/ ApplyHeldDefines(g) \/ IngestFails(g) \/ ServeAsks(g) \/ ServeWrites(g)
               \/ TakePost(g) \/ ResumeScan(g) \/ PrepareViews(g)
        PROVE  Drawn(c)'
    <3>1. UNCHANGED <<epoch, generation, listeners, overtaken, subs, outbox, client>>
      BY <2>2 DEF StartIngest, SpawnFails, Preempted, ReportAttaching, ApplyHeldDefines, IngestFails,
         ServeAsks, ServeWrites, TakePost, ResumeScan, PrepareViews, worldVars, connVars, clientVars
    <3>2. \/ job'[c] = job[c]
          \/ job[c].op # "opening" /\ job'[c].op # "opening"
      <4>1. CASE TakePost(g)
        BY <2>0, <4>1 DEF TakePost
      <4>2. CASE ~TakePost(g)
        BY <2>2, <4>2 DEF StartIngest, SpawnFails, Preempted, ReportAttaching, ApplyHeldDefines,
           IngestFails, ServeAsks, ServeWrites, ResumeScan, PrepareViews, connVars
      <4> QED BY <4>1, <4>2
    <3>3. \A h \in Gens \ {g} : pc'[h] = pc[h]
      BY <2>0, <2>2 DEF StartIngest, SpawnFails, Preempted, ReportAttaching, ApplyHeldDefines,
         IngestFails, ServeAsks, ServeWrites, TakePost, ResumeScan, PrepareViews, Ended
    <3>4. pc'[g] \in Landed => pc[g] \in Landed
      BY <2>0, <2>2 DEF StartIngest, SpawnFails, Preempted, ReportAttaching, ApplyHeldDefines,
         IngestFails, ServeAsks, ServeWrites, TakePost, ResumeScan, PrepareViews, Ended, Landed
    <3>5. Live' => Live
      BY <3>1, <3>3, <3>4, LiveKept
    <3>6. Drained(c)' = Drained(c)
      BY <3>1 DEF Drained
    <3> QED BY <2>0, <3>1, <3>2, <3>5, <3>6, DrawnKept
  <2>3. ASSUME NEW g \in Gens, FoldBatch(g) \/ ScanEnds(g) \/ TailPoll(g)
        PROVE  Drawn(c)'
    <3>1. UNCHANGED <<epoch, generation, listeners, overtaken, subs, job, client>>
      BY <2>3 DEF FoldBatch, ScanEnds, TailPoll, clientVars
    <3>2. \/ outbox'[c] = outbox[c]
          \/ c \in listeners /\ outbox'[c] = Append(outbox[c], EpochMessage(epoch))
      BY <2>3 DEF FoldBatch, ScanEnds, TailPoll, MaybeReportProgress, ReportProgress, Broadcast
    <3>3. \A h \in Gens \ {g} : pc'[h] = pc[h]
      BY <2>0, <2>3 DEF FoldBatch, ScanEnds, TailPoll
    <3>4. pc'[g] \in Landed => pc[g] \in Landed
      BY <2>0, <2>3 DEF FoldBatch, ScanEnds, TailPoll, Landed
    <3>5. Live' => Live
      BY <3>1, <3>3, <3>4, LiveKept
    <3> QED BY <2>0, <3>1, <3>2, <3>5, ProgressKeepsStep
  <2>4. ASSUME NEW g \in Gens, Land(g) \/ ServeViews(g)
        PROVE  Drawn(c)'
    <3>1. /\ Owns(g) /\ UNCHANGED <<epoch, generation, listeners, job, client>>
      BY <2>4 DEF Land, ServeViews, worldVars, clientVars
    <3>2. g = generation /\ generation # 0
      BY <3>1 DEF Owns
    <3>3. pc'[g] = "tail"
      BY <2>0, <2>4 DEF Land, ServeViews
    <3>4. Live'
      BY <3>1, <3>2, <3>3 DEF Live, Landed
    <3>5. \/ ServeIfPrepared(g, TRUE) /\ pc[g] = "prepared"
          \/ ServeIfPrepared(g, FALSE) /\ pc[g] = "serving"
      BY <2>4 DEF Land, ServeViews
    <3>6. CASE ServeIfPrepared(g, TRUE) /\ pc[g] = "prepared"
      <4>1. prepared[g] \/ \A d \in Conns : subs[d].held = Owed
        BY <3>2, <3>6 DEF SyncInv, HeldIsLanded
      <4> QED BY <2>0, <3>1, <3>4, <3>6, <4>1, ServeKeepsStep
    <3>7. CASE ServeIfPrepared(g, FALSE) /\ pc[g] = "serving"
      <4>1. Live
        BY <3>2, <3>7 DEF Live, Landed
      <4> QED BY <2>0, <3>1, <3>4, <3>7, <4>1, ServeKeepsStep
    <3> QED BY <3>5, <3>6, <3>7
  <2>5. ASSUME NEW d \in Conns, Connection(d) \/ User(d) \/ Subscribe(d) \/ Deliver(d)
        PROVE  Drawn(c)'
    <3>0. UNCHANGED <<epoch, generation, pc>> /\ (Live' <=> Live)
      BY <2>5 DEF Connection, User, SendOpeningReset, SendPost, Reply, GiveUp, Connect, Disconnect,
         OpenView, Unsubscribe, Post, Subscribe, Deliver, worldVars, foldVars, Live
    <3>1. CASE c # d
      <4>1. /\ UNCHANGED <<subs[c], outbox[c], job[c], client[c]>>
            /\ c \in listeners' \ overtaken' => c \in listeners \ overtaken
        BY <2>0, <2>5, <3>1 DEF Connection, User, SendOpeningReset, SendPost, Reply, GiveUp, Connect,
           Disconnect, OpenView, Unsubscribe, Post, Subscribe, Deliver, connVars, clientVars
      <4>2. Drained(c)' = Drained(c)
        BY <4>1 DEF Drained
      <4> QED BY <2>0, <3>0, <4>1, <4>2, DrawnKept
    <3>2. CASE c = d
      <4> USE <3>2
      <4>0. /\ Idle.op = "idle" /\ Idle.op # "opening"
            /\ c \in listeners => /\ Drained(c) \in Clients /\ Drained(c).id = client[c].id
                                  /\ Drained(c).epoch <= epoch
        BY <2>0, DrainedFacts DEF Idle
      <4>1. CASE SendOpeningReset(d)
        <5> DEFINE m == ResetMessage(job[c].id, job[c].at, Empty)
        <5>1. /\ job[c].op = "opening" /\ outbox'[c] = Append(outbox[c], m)
              /\ job'[c] = Idle /\ UNCHANGED <<listeners, overtaken, subs, client>>
          BY <2>0, <4>1 DEF SendOpeningReset, clientVars
        <5>2. SUFFICES ASSUME c \in listeners \ overtaken PROVE Drawn(c)'
          BY <5>1 DEF Drawn
        <5>3. /\ job[c].id \in SubIds /\ job[c].at \in Epochs \ {0} /\ job[c].at \in Nat
              /\ job[c].at <= epoch /\ job[c].id = Drained(c).id
          <6>1. job[c].at \in 1 .. epoch /\ job[c].id = subs[c].id /\ subs[c].id = client[c].id
            BY <2>0, <5>1 DEF Wire
          <6>2. job[c].id \in 1 .. MaxIds /\ job[c].at \in 1 .. MaxGen + 1
            <7>1. job[c] \in Jobs
              BY DEF TypeOK, ConnTypes
            <7> QED BY <5>1, <7>1, JobTypes
          <6> QED BY <2>0, <4>0, <5>2, <6>1, <6>2, BoundsAssumption
        <5>4. m \in Frames
          BY <5>3, FrameTypes, WindowTypes
        <5>5. Drained(c)' = Receive(Drained(c), m)
          <6>1. Drained(c)' = FoldLeft(Receive, client[c], Append(outbox[c], m))
            BY <5>1 DEF Drained
          <6> QED BY <2>0, <5>4, <6>1, DrainLonger DEF Drained
        <5>6. CASE job[c].at = epoch
          <6>1. subs[c].held = Owed
            BY <2>0, <5>1, <5>2, <5>6 DEF Drawn
          <6>2. m = ResetMessage(Drained(c).id, epoch, Empty)
            BY <5>3, <5>6
          <6>3. Drained(c)'.view = Empty
            BY <2>0, <4>0, <5>2, <5>5, <6>2, ReceiveReset
          <6> QED BY <4>0, <5>1, <6>1, <6>3, WindowKinds DEF Drawn, InStep
        <5>7. CASE job[c].at # epoch
          <6>1. InStep(c) /\ Drained(c).epoch = epoch
            BY <2>0, <5>1, <5>2, <5>7 DEF Drawn
          <6>2. job[c].at < Drained(c).epoch
            BY <2>0, <5>3, <5>7, <6>1
          <6>3. Drained(c)' = Drained(c)
            BY <4>0, <5>2, <5>3, <5>5, <6>2, ReceiveStaleReset
          <6> QED BY <3>0, <4>0, <5>1, <6>1, <6>3 DEF Drawn, InStep, Live
        <5> QED BY <5>6, <5>7
      <4>2. CASE Reply(d)
        <5>1. /\ job[c].op = "answered" /\ outbox'[c] = Append(outbox[c], Answer(job[c].at + 1))
              /\ job'[c] = Idle /\ UNCHANGED <<listeners, overtaken, subs, client>>
          BY <2>0, <4>2 DEF Reply, clientVars
        <5>2. Answer(job[c].at + 1) \in Frames
          <6>1. job[c] \in Jobs
            BY DEF TypeOK, ConnTypes
          <6>2. job[c].at + 1 \in Epochs
            BY <5>1, <6>1, JobTypes, BoundsAssumption
          <6> QED BY <6>2, FrameTypes
        <5>3. Drained(c)' = Receive(Drained(c), Answer(job[c].at + 1))
          <6>1. Drained(c)' = FoldLeft(Receive, client[c], Append(outbox[c], Answer(job[c].at + 1)))
            BY <5>1 DEF Drained
          <6> QED BY <2>0, <5>2, <6>1, DrainLonger DEF Drained
        <5>4. Drained(c)' = Drained(c)
          BY <5>3, ReceiveAnswer
        <5> QED BY <2>0, <3>0, <4>0, <5>1, <5>4, DrawnKept
      <4>3. CASE SendPost(d) \/ GiveUp(d) \/ \E kind \in Kinds : Post(d, kind)
        <5>1. UNCHANGED <<listeners, overtaken, subs, outbox, client>>
          BY <4>3 DEF SendPost, GiveUp, Post, clientVars
        <5>2. job'[c] = job[c] \/ (job[c].op # "opening" /\ job'[c].op # "opening")
          <6>1. CASE SendPost(d) \/ GiveUp(d)
            <7>1. job[c].op \in {"posting", "waiting"} /\ job[c] \in Jobs
              BY <6>1 DEF SendPost, GiveUp, TypeOK, ConnTypes
            <7>2. job'[c] = Idle \/ job'[c] = [job[c] EXCEPT !.op = "waiting"]
              BY <2>0, <6>1 DEF SendPost, GiveUp
            <7>3. job[c] \in Posted
              BY <7>1 DEF Jobs, Opened, Idle
            <7>4. [job[c] EXCEPT !.op = "waiting"].op = "waiting"
              BY <7>3 DEF Posted
            <7> QED BY <4>0, <7>1, <7>2, <7>4
          <6>2. ASSUME NEW kind \in Kinds, Post(d, kind)
                PROVE  job'[c] = job[c] \/ (job[c].op # "opening" /\ job'[c].op # "opening")
            BY <2>0, <4>0, <6>2 DEF Post, Job
          <6> QED BY <4>3, <6>1, <6>2
        <5>3. Drained(c)' = Drained(c)
          BY <5>1 DEF Drained
        <5> QED BY <2>0, <3>0, <5>1, <5>2, <5>3, DrawnKept
      <4>4. CASE Connect(d)
        <5>1. /\ c \notin listeners /\ client'[c] = AttachTransport(client[c])
              /\ UNCHANGED <<outbox, subs, job>>
          BY <2>0, <4>4 DEF Connect
        <5>2. client'[c].id = 0 /\ client'[c].view = LOADING
          BY <2>0, <5>1 DEF AttachTransport, Clients
        <5>3. outbox[c] = <<>> /\ job[c] = Idle
          BY <2>0, <5>1 DEF Wire
        <5>4. Drained(c)' = client'[c]
          BY <5>1, <5>3, DrainNothing DEF Drained
        <5> QED BY <4>0, <5>1, <5>2, <5>3, <5>4, WindowKinds DEF Drawn, InStep
      <4>5. CASE Disconnect(d)
        BY <4>5 DEF Disconnect, Drawn
      <4>6. CASE OpenView(d) \/ Unsubscribe(d) \/ Subscribe(d)
        <5>1. UNCHANGED <<listeners, outbox>>
          BY <4>6 DEF OpenView, Unsubscribe, Subscribe, connVars
        <5>2. SUFFICES ASSUME c \in listeners PROVE Drawn(c)'
          BY <5>1 DEF Drawn
        <5>3. /\ client'[c].view = LOADING
              /\ client'[c].id = 0 \/ client'[c].id >= nextId[c]
              /\ client'[c].id = 0 => job'[c].op # "opening"
              /\ client'[c].id # 0 => /\ job'[c].op = "opening" /\ job'[c].at = epoch
                                      /\ subs'[c].held = Owed
          <6>1. CASE OpenView(d)
            <7>1. /\ ~client[c].open /\ UNCHANGED job
                  /\ client'[c] = [client[c] EXCEPT !.open = TRUE, !.view = LOADING]
              BY <2>0, <6>1 DEF OpenView, connVars
            <7>2. client[c].id = 0 /\ subs[c].id = 0
              BY <2>0, <7>1 DEF Wire
            <7>3. job[c].op # "opening"
              <8>1. job[c] \in Jobs
                BY DEF TypeOK, ConnTypes
              <8>2. job[c].op = "opening" => job[c].id \in 1 .. MaxIds /\ job[c].id = subs[c].id
                BY <2>0, <8>1, JobTypes DEF Wire
              <8> QED BY <7>2, <8>2
            <7>4. client'[c].id = client[c].id /\ client'[c].view = LOADING
              BY <2>0, <7>1 DEF Clients
            <7> QED BY <7>1, <7>2, <7>3, <7>4
          <6>2. CASE Unsubscribe(d)
            <7>1. /\ job'[c] = Idle
                  /\ client'[c] = [client[c] EXCEPT !.open = FALSE, !.id = 0, !.view = LOADING]
              BY <2>0, <6>2 DEF Unsubscribe
            <7>2. client'[c].id = 0 /\ client'[c].view = LOADING
              BY <2>0, <7>1 DEF Clients
            <7> QED BY <4>0, <7>1, <7>2
          <6>3. CASE Subscribe(d)
            <7>1. /\ client[c].id = 0 /\ client'[c] = [client[c] EXCEPT !.id = nextId[c]]
                  /\ subs'[c] = [NoSub EXCEPT !.id = nextId[c]]
                  /\ job'[c] = Job("opening", "none", nextId[c], epoch)
              BY <2>0, <6>3 DEF Subscribe
            <7>2. client'[c].id = nextId[c] /\ client'[c].view = client[c].view
              BY <2>0, <7>1 DEF Clients
            <7>3. client[c].view = LOADING
              BY <2>0, <5>2, <7>1 DEF Wire
            <7>4. subs'[c].held = Owed /\ job'[c].op = "opening" /\ job'[c].at = epoch
              BY <7>1 DEF NoSub, Job
            <7>5. nextId[c] # 0
              BY BoundsAssumption DEF TypeOK, ClientTypes
            <7> QED BY <2>0, <7>2, <7>3, <7>4, <7>5
          <6> QED BY <4>6, <6>1, <6>2, <6>3
        <5>4. Drained(c)'.view = LOADING
          <6> DEFINE S == OnWire(epoch, nextId[c])
          <6>1. outbox[c] \in Seq(S)
            BY <2>0 DEF Wire
          <6>2. \A m \in S : m \in Frames /\ (m.kind \in {"reset", "diff"} => m.id # client'[c].id)
            BY <2>0, <5>3 DEF OnWire
          <6> HIDE DEF S
          <6>3. FoldLeft(Receive, client'[c], outbox[c]).view = LOADING
            BY <2>0, <5>3, <6>1, <6>2, DrainedBlank
          <6> QED BY <5>1, <6>3 DEF Drained
        <5>5. CASE client'[c].id # 0
          BY <3>0, <5>3, <5>4, <5>5 DEF Drawn
        <5>6. CASE client'[c].id = 0
          <6>1. subs'[c].id = 0
            BY <2>0, <5>6 DEF Wire
          <6> QED BY <5>3, <5>4, <5>6, <6>1, WindowKinds DEF Drawn, InStep
        <5> QED BY <5>5, <5>6
      <4>7. CASE Deliver(d)
        <5>1. /\ outbox[c] # <<>> /\ outbox'[c] = Tail(outbox[c])
              /\ client'[c] = Receive(client[c], Head(outbox[c]))
              /\ UNCHANGED <<listeners, overtaken, subs, job>>
          BY <2>0, <4>7 DEF Deliver
        <5>2. Drained(c)' = Drained(c)
          <6>1. Drained(c)' = FoldLeft(Receive, Receive(client[c], Head(outbox[c])), Tail(outbox[c]))
            BY <5>1 DEF Drained
          <6> QED BY <2>0, <5>1, <6>1, DrainDelivered DEF Drained
        <5> QED BY <2>0, <3>0, <5>1, <5>2, DrawnKept
      <4> QED BY <2>5, <4>1, <4>2, <4>3, <4>4, <4>5, <4>6, <4>7 DEF Connection, User
    <3> QED BY <3>1, <3>2
  <2>6. CASE UNCHANGED vars
    <3>1. Drained(c)' = Drained(c)
      BY <2>6 DEF vars, connVars, clientVars, Drained
    <3>2. Live' => Live
      BY <2>6 DEF vars, worldVars, foldVars, Live
    <3> QED BY <2>0, <2>6, <3>1, <3>2, DrawnKept DEF vars, worldVars, connVars
  <2> QED BY <2>1, <2>2, <2>3, <2>4, <2>5, <2>6 DEF Next, Ingest
<1> QED BY <1>1, <1>2, TypeCorrect, OwnersStatus, InSync, WireHolds, PTL DEF Spec

\* Whatever interleaving of attaches, landings, resubscribes and deliveries: once
\* what is on the wire has arrived, a client draws the window the engine holds
\* for it, so that every diff applies, unless its opening reset was overtaken.
THEOREM StaysInStep == Spec => []WindowsInStep
<1>1. TypeOK /\ DrawnInv => WindowsInStep
  BY DEF TypeOK, ConnTypes, DrawnInv, Drawn, WindowsInStep
<1> QED BY <1>1, TypeCorrect, DrawnHolds, PTL

===============================================================================
