------------------------------ MODULE WorldProofs ------------------------------
(***************************************************************************)
(* Proofs about the engine's world: whatever the number of connections,    *)
(* attaches, revisions, ids and posts.                                     *)
(***************************************************************************)
EXTENDS World, TLAPS

USE DEF Gens, SubIds, Epochs

LEMMA WindowTypes ==
  /\ LOADING \in Windows /\ Empty \in Windows /\ Parted \in Windows /\ Owed \in Windows
  /\ \A g \in 0 .. MaxGen, r \in 0 .. MaxRev : Rows(g, r) \in Windows
<1> USE BoundsAssumption DEF Windows, Window
<1> QED BY DEF LOADING, Empty, Parted, Owed, Rows

LEMMA FrameTypes ==
  /\ \A e \in Epochs : EpochMessage(e) \in Frames /\ Answer(e) \in Frames
  /\ \A id \in SubIds, e \in Epochs, to \in Windows : ResetMessage(id, e, to) \in Frames
  /\ \A id \in SubIds, e \in Epochs, from \in Windows, to \in Windows :
       DiffMessage(id, e, from, to) \in Frames
BY BoundsAssumption, WindowTypes
   DEF EpochMessage, ResetMessage, DiffMessage, Answer, Frame, Frames

LEMMA ReceiveType ==
  ASSUME NEW cl \in Clients, NEW m \in Frames
  PROVE  Receive(cl, m) \in Clients
<1>1. /\ cl.epoch \in Epochs /\ cl.open \in BOOLEAN /\ cl.id \in SubIds /\ cl.view \in Windows
      /\ m.epoch \in Epochs /\ m.from \in Windows /\ m.to \in Windows
  BY DEF Clients, Frames
<1>2. NoteEpoch(cl, m.epoch) \in Clients
  BY <1>1, WindowTypes DEF Clients, NoteEpoch
<1>3. OnReset(cl, m) \in Clients
  BY <1>1, <1>2 DEF OnReset, Clients
<1>4. OnDiff(cl, m) \in Clients
  BY <1>1, <1>2, WindowTypes DEF OnDiff, ApplyDiff, Clients
<1> QED BY <1>2, <1>3, <1>4 DEF Receive, Frames

\* What one client-side step makes of a client record is a client record.
LEMMA ClientSteps ==
  ASSUME NEW cl \in Clients
  PROVE  /\ AttachTransport(cl) \in Clients
         /\ FailConnection(cl) \in Clients
         /\ [cl EXCEPT !.open = TRUE, !.view = LOADING] \in Clients
         /\ [cl EXCEPT !.open = FALSE, !.id = 0, !.view = LOADING] \in Clients
<1>1. LOADING \in Windows /\ 0 \in Epochs /\ 0 \in SubIds
  BY WindowTypes, BoundsAssumption
<1>2. cl = [epoch |-> cl.epoch, open |-> cl.open, id |-> cl.id, view |-> cl.view]
      /\ cl.epoch \in Epochs /\ cl.open \in BOOLEAN /\ cl.id \in SubIds /\ cl.view \in Windows
  BY DEF Clients
<1>3. AttachTransport(cl) \in Clients
  BY <1>1 DEF AttachTransport, Clients
<1>4. FailConnection(cl) \in Clients
  BY <1>1 DEF FailConnection, Clients
<1>5. [cl EXCEPT !.open = TRUE, !.view = LOADING] \in Clients
  BY <1>1 DEF Clients
<1>6. [cl EXCEPT !.open = FALSE, !.id = 0, !.view = LOADING] \in Clients
  BY <1>1 DEF Clients
<1> QED BY <1>3, <1>4, <1>5, <1>6

\* What a connection thread is in the middle of, told from the word alone.
LEMMA JobTypes ==
  ASSUME NEW j \in Jobs
  PROVE  /\ j.op = "opening" => j.id \in 1 .. MaxIds /\ j.at \in 1 .. MaxGen + 1
         /\ j.op \in {"posting", "waiting", "answered"} =>
              j.kind \in Kinds /\ j.id \in 1 .. MaxPosts /\ j.at \in Gens
<1>1. j \in Posted => j.kind \in Kinds /\ j.id \in 1 .. MaxPosts /\ j.at \in Gens
                      /\ j.op \in {"posting", "waiting", "answered"}
  BY DEF Posted
<1>2. j \in Opened => j.op = "opening" /\ j.id \in 1 .. MaxIds /\ j.at \in 1 .. MaxGen + 1
  BY DEF Opened
<1>3. Idle.op = "idle"
  BY DEF Idle
<1> QED BY <1>1, <1>2, <1>3 DEF Jobs

LEMMA JobSteps ==
  /\ Idle \in Jobs
  /\ \A id \in 1 .. MaxIds, at \in 1 .. MaxGen + 1 : Job("opening", "none", id, at) \in Jobs
  /\ \A kind \in Kinds, id \in 1 .. MaxPosts, at \in Gens : Job("posting", kind, id, at) \in Jobs
  /\ \A j \in Jobs : j.op \in {"posting", "waiting"} =>
       [j EXCEPT !.op = "waiting"] \in Jobs /\ [j EXCEPT !.op = "answered"] \in Jobs
<1>1. \A kind \in Kinds, id \in 1 .. MaxPosts, at \in Gens : Job("posting", kind, id, at) \in Posted
  BY DEF Job, Posted
<1>2. \A j \in Posted : [j EXCEPT !.op = "waiting"] \in Posted /\ [j EXCEPT !.op = "answered"] \in Posted
  BY DEF Posted
<1>3. \A j \in Opened : j.op = "opening"
  BY DEF Opened
<1>4. \A id \in 1 .. MaxIds, at \in 1 .. MaxGen + 1 : Job("opening", "none", id, at) \in Opened
  BY DEF Job, Opened
<1>5. Idle.op = "idle"
  BY DEF Idle
<1> QED BY <1>1, <1>2, <1>3, <1>4, <1>5 DEF Jobs

LEMMA BroadcastType ==
  ASSUME outbox \in [Conns -> Seq(Frames)], NEW m \in Frames
  PROVE  Broadcast(m) \in [Conns -> Seq(Frames)]
BY DEF Broadcast

\* A pass over the subscriptions sends frames of the wire's types.
LEMMA ServeType ==
  ASSUME TypeOK, NEW g \in Gens, NEW all \in BOOLEAN, ServeIfPrepared(g, all),
         UNCHANGED <<listeners, job>>
  PROVE  ConnTypes'
<1>1. CASE ~prepared[g]
  BY <1>1 DEF ServeIfPrepared, TypeOK, ConnTypes
<1>2. CASE prepared[g]
  <2>1. Rows(g, rev[g]) \in Windows /\ rev[g] \in 0 .. MaxRev
    BY WindowTypes DEF TypeOK, FoldTypes
  <2>2. ASSUME NEW c \in Conns PROVE Served(c, g, all) \in Seq(Frames)
    <3>1. subs[c].id \in SubIds /\ subs[c].held \in Windows /\ epoch \in Epochs
      BY BoundsAssumption DEF TypeOK, ConnTypes, WorldTypes, Subs
    <3>2. /\ ResetMessage(subs[c].id, epoch, Rows(g, rev[g])) \in Frames
          /\ DiffMessage(subs[c].id, epoch, subs[c].held, Rows(g, rev[g])) \in Frames
      BY <2>1, <3>1, FrameTypes
    <3>3. \A f \in Frames : <<f>> \in Seq(Frames)
      OBVIOUS
    <3>4. << >> \in Seq(Frames)
      OBVIOUS
    <3> QED BY <3>2, <3>3, <3>4 DEF Served
  <2>3. ASSUME NEW c \in Conns
        PROVE  [subs[c] EXCEPT !.held = Rows(g, rev[g]), !.rev = rev[g]] \in Subs
    <3>1. subs[c] \in Subs /\ rev[g] \in -1 .. MaxRev
      BY <2>1 DEF TypeOK, ConnTypes
    <3> QED BY <2>1, <3>1 DEF Subs
  <2>4. subs' \in [Conns -> Subs] /\ overtaken' \subseteq Conns
    BY <1>2, <2>3 DEF ServeIfPrepared, Serve, TypeOK, ConnTypes
  <2>5. \A c \in Conns : outbox[c] \o Served(c, g, all) \in Seq(Frames)
    BY <2>2 DEF TypeOK, ConnTypes
  <2>6. outbox' \in [Conns -> Seq(Frames)]
    BY <1>2, <2>5 DEF ServeIfPrepared, Serve, TypeOK, ConnTypes
  <2> QED BY <2>4, <2>6 DEF TypeOK, ConnTypes
<1> QED BY <1>1, <1>2

\* Every variable keeps its type, and the epoch is always one past the
\* generation that owns the world.
THEOREM TypeCorrect == Spec => []TypeOK
<1>1. Init => TypeOK
  <2> SUFFICES ASSUME Init PROVE TypeOK
    OBVIOUS
  <2>1. NoSub \in Subs /\ Idle \in Jobs
    BY BoundsAssumption, WindowTypes DEF NoSub, Subs, Jobs
  <2>2. [NewClient EXCEPT !.open = TRUE] \in Clients
    <3>1. NewClient \in Clients
      BY WindowTypes, BoundsAssumption DEF NewClient, Clients
    <3> QED BY <3>1 DEF Clients
  <2>3. WorldTypes /\ FoldTypes
    BY BoundsAssumption DEF Init, WorldTypes, FoldTypes, Waking
  <2>4. ConnTypes /\ ClientTypes
    BY <2>1, <2>2, BoundsAssumption DEF Init, ConnTypes, ClientTypes
  <2> QED BY <2>3, <2>4 DEF TypeOK
<1>2. TypeOK /\ [Next]_vars => TypeOK'
  <2> SUFFICES ASSUME TypeOK, [Next]_vars PROVE TypeOK'
    OBVIOUS
  <2> USE BoundsAssumption
  <2>1. CASE Attach
    <3>1. WorldTypes' /\ FoldTypes' /\ ClientTypes'
      BY <2>1 DEF Attach, TypeOK, WorldTypes, FoldTypes, ClientTypes, foldVars, clientVars
    <3>2. EpochMessage(epoch + 1) \in Frames
      BY <2>1, FrameTypes, WindowTypes DEF Attach, TypeOK, WorldTypes
    <3>3. ConnTypes'
      BY <2>1, <3>2, BroadcastType DEF Attach, TypeOK, ConnTypes
    <3> QED BY <3>1, <3>3 DEF TypeOK
  <2>2. ASSUME NEW g \in Gens, StartIngest(g) PROVE TypeOK'
    BY <2>2 DEF StartIngest, TypeOK, WorldTypes, ConnTypes, FoldTypes, ClientTypes,
       worldVars, connVars, foldVars, clientVars, Waking
  <2>3. ASSUME NEW g \in Gens, Preempted(g) PROVE TypeOK'
    BY <2>3 DEF Preempted, TypeOK, WorldTypes, ConnTypes, FoldTypes, ClientTypes,
       worldVars, connVars, foldVars, clientVars, Ended
  <2>4. ASSUME NEW g \in Gens, ReportAttaching(g) PROVE TypeOK'
    BY <2>4 DEF ReportAttaching, TypeOK, WorldTypes, ConnTypes, FoldTypes, ClientTypes,
       worldVars, connVars, foldVars, clientVars, Opening
  <2>5. ASSUME NEW g \in Gens, ServeAsks(g) PROVE TypeOK'
    BY <2>5 DEF ServeAsks, TypeOK, WorldTypes, ConnTypes, FoldTypes, ClientTypes,
       worldVars, connVars, foldVars, clientVars, Folding
  <2>6. ASSUME NEW g \in Gens, ServeWrites(g) PROVE TypeOK'
    BY <2>6 DEF ServeWrites, TypeOK, WorldTypes, ConnTypes, FoldTypes, ClientTypes,
       worldVars, connVars, foldVars, clientVars, Folding
  <2>7. ASSUME NEW g \in Gens, ApplyHeldDefines(g) PROVE TypeOK'
    <3>1. WorldTypes' /\ ConnTypes' /\ ClientTypes'
      BY <2>7 DEF ApplyHeldDefines, TypeOK, WorldTypes, ConnTypes, ClientTypes, worldVars, connVars, clientVars
    <3>2. FoldTypes'
      BY <2>7 DEF ApplyHeldDefines, TypeOK, FoldTypes, foldVars, WorldTypes, Opening
    <3> QED BY <3>1, <3>2 DEF TypeOK
  <2>8. ASSUME NEW g \in Gens, SpawnFails(g) PROVE TypeOK'
    <3>1. WorldTypes'
      BY <2>8 DEF SpawnFails, TypeOK, WorldTypes, worldVars, ReportIdle
    <3>2. ConnTypes' /\ FoldTypes' /\ ClientTypes'
      BY <2>8 DEF SpawnFails, TypeOK, ConnTypes, FoldTypes, ClientTypes, connVars, foldVars, clientVars
    <3> QED BY <3>1, <3>2 DEF TypeOK
  <2>9. ASSUME NEW g \in Gens, IngestFails(g) PROVE TypeOK'
    <3>1. WorldTypes'
      BY <2>9 DEF IngestFails, TypeOK, WorldTypes, worldVars, ReportIdle
    <3>2. ConnTypes' /\ FoldTypes' /\ ClientTypes'
      BY <2>9 DEF IngestFails, TypeOK, ConnTypes, FoldTypes, ClientTypes, connVars, foldVars, clientVars, Ended
    <3> QED BY <3>1, <3>2 DEF TypeOK
  <2>10. ASSUME NEW g \in Gens, FoldBatch(g) PROVE TypeOK'
    <3>1. EpochMessage(epoch) \in Frames
      BY FrameTypes, WindowTypes DEF TypeOK, WorldTypes
    <3>2. FoldTypes' /\ ClientTypes'
      BY <2>10 DEF FoldBatch, TypeOK, FoldTypes, ClientTypes, clientVars, Folding
    <3>4. WorldTypes'
      BY <2>10, <3>2 DEF FoldBatch, TypeOK, WorldTypes, FoldTypes, MaybeReportProgress, ReportProgress
    <3>3. ConnTypes'
      BY <2>10, <3>1, BroadcastType DEF FoldBatch, TypeOK, ConnTypes, connVars, MaybeReportProgress, ReportProgress
    <3> QED BY <3>2, <3>3, <3>4 DEF TypeOK
  <2>11. ASSUME NEW g \in Gens, TakePost(g) PROVE TypeOK'
    <3>1. Head(door[g]) \in Posts /\ Tail(door[g]) \in Seq(Posts)
      BY <2>11 DEF TakePost, TypeOK, FoldTypes
    <3>2. /\ Head(door[g]).conn \in Conns /\ Head(door[g]).id \in 1 .. MaxPosts
          /\ Head(door[g]).kind \in Kinds
      BY <3>1 DEF Posts
    <3>3. WorldTypes' /\ ClientTypes'
      BY <2>11 DEF TakePost, TypeOK, WorldTypes, ClientTypes, worldVars, clientVars
    <3>4. FoldTypes'
      BY <2>11, <3>1, <3>2 DEF TakePost, TypeOK, FoldTypes
    <3>5. ConnTypes'
      BY <2>11, <3>2, JobSteps DEF TakePost, TypeOK, ConnTypes
    <3> QED BY <3>3, <3>4, <3>5 DEF TypeOK
  <2>12. ASSUME NEW g \in Gens, ResumeScan(g) PROVE TypeOK'
    BY <2>12 DEF ResumeScan, TypeOK, WorldTypes, ConnTypes, FoldTypes, ClientTypes,
       worldVars, connVars, foldVars, clientVars, Folding
  <2>13. ASSUME NEW g \in Gens, ScanEnds(g) PROVE TypeOK'
    <3>1. EpochMessage(epoch) \in Frames
      BY FrameTypes, WindowTypes DEF TypeOK, WorldTypes
    <3>2. WorldTypes' /\ ClientTypes'
      BY <2>13 DEF ScanEnds, TypeOK, WorldTypes, ClientTypes, worldVars, clientVars, FoldTypes, ReportProgress
    <3>3. FoldTypes'
      BY <2>13 DEF ScanEnds, TypeOK, FoldTypes, foldVars, Folding, Needed
    <3>4. ConnTypes'
      BY <2>13, <3>1, BroadcastType DEF ScanEnds, TypeOK, ConnTypes, connVars, ReportProgress
    <3> QED BY <3>2, <3>3, <3>4 DEF TypeOK
  <2>14. ASSUME NEW g \in Gens, Land(g) PROVE TypeOK'
    <3>1. ServeIfPrepared(g, TRUE) => ConnTypes'
      BY <2>14, ServeType DEF Land
    <3>2. WorldTypes' /\ ClientTypes'
      BY <2>14 DEF Land, TypeOK, WorldTypes, ClientTypes, worldVars, clientVars, FoldTypes
    <3>3. FoldTypes'
      BY <2>14 DEF Land, TypeOK, FoldTypes, foldVars, Landed
    <3>4. ConnTypes'
      BY <2>14, <3>1 DEF Land, TypeOK, ConnTypes, connVars
    <3> QED BY <3>2, <3>3, <3>4 DEF TypeOK
  <2>15. ASSUME NEW g \in Gens, TailPoll(g) PROVE TypeOK'
    <3>1. EpochMessage(epoch) \in Frames
      BY FrameTypes, WindowTypes DEF TypeOK, WorldTypes
    <3>2. FoldTypes' /\ ClientTypes'
      <4>1. rev' \in [Gens -> 0 .. MaxRev]
        <5>1. rev[g] \in 0 .. MaxRev /\ rev \in [Gens -> 0 .. MaxRev]
          BY DEF TypeOK, FoldTypes
        <5>2. CASE rev[g] < MaxRev /\ rev' = [rev EXCEPT ![g] = @ + 1]
          BY <5>1, <5>2
        <5>3. CASE UNCHANGED rev
          BY <5>1, <5>3
        <5> QED BY <2>15, <5>2, <5>3 DEF TailPoll
      <4>2. pc' = [pc EXCEPT ![g] = "polled"] /\ UNCHANGED <<taken, prepared, door, clientVars>>
        BY <2>15 DEF TailPoll
      <4> QED BY <4>1, <4>2 DEF TypeOK, FoldTypes, ClientTypes, clientVars, Landed
    <3>4. WorldTypes'
      BY <2>15, <3>2 DEF TailPoll, TypeOK, WorldTypes, FoldTypes, MaybeReportProgress, ReportProgress
    <3>3. ConnTypes'
      BY <2>15, <3>1, BroadcastType DEF TailPoll, TypeOK, ConnTypes, connVars, MaybeReportProgress, ReportProgress
    <3> QED BY <3>2, <3>3, <3>4 DEF TypeOK
  <2>16. ASSUME NEW g \in Gens, PrepareViews(g) PROVE TypeOK'
    BY <2>16 DEF PrepareViews, TypeOK, WorldTypes, ConnTypes, FoldTypes, ClientTypes,
       worldVars, connVars, foldVars, clientVars, Landed, Needed
  <2>17. ASSUME NEW g \in Gens, ServeViews(g) PROVE TypeOK'
    <3>1. ServeIfPrepared(g, FALSE) => ConnTypes'
      BY <2>17, ServeType DEF ServeViews
    <3>2. WorldTypes' /\ FoldTypes' /\ ClientTypes'
      BY <2>17 DEF ServeViews, TypeOK, WorldTypes, FoldTypes, ClientTypes, worldVars, foldVars, clientVars, Landed
    <3>3. ConnTypes'
      BY <2>17, <3>1 DEF ServeViews, TypeOK, ConnTypes, connVars
    <3> QED BY <3>2, <3>3 DEF TypeOK
  <2>18. ASSUME NEW c \in Conns, SendOpeningReset(c) PROVE TypeOK'
    <3>1. ResetMessage(job[c].id, job[c].at, Empty) \in Frames
      <4>1. job[c].id \in SubIds /\ job[c].at \in Epochs
        <5>1. job[c] \in Jobs /\ job[c].op = "opening"
          BY <2>18 DEF SendOpeningReset, TypeOK, ConnTypes
        <5> QED BY <5>1, JobTypes
      <4> QED BY <4>1, FrameTypes, WindowTypes
    <3>2. WorldTypes' /\ FoldTypes' /\ ClientTypes'
      BY <2>18 DEF SendOpeningReset, TypeOK, WorldTypes, FoldTypes, ClientTypes, worldVars, foldVars, clientVars
    <3>3. ConnTypes'
      BY <2>18, <3>1 DEF SendOpeningReset, TypeOK, ConnTypes, connVars, Jobs, Idle
    <3> QED BY <3>2, <3>3 DEF TypeOK
  <2>19. ASSUME NEW c \in Conns, SendPost(c) PROVE TypeOK'
    <3>1. /\ job[c].at \in Gens
          /\ [job[c] EXCEPT !.op = "waiting"] \in Jobs
          /\ [conn |-> c, kind |-> job[c].kind, id |-> job[c].id] \in Posts
      BY <2>19, JobTypes, JobSteps DEF SendPost, TypeOK, ConnTypes, Posts
    <3>2. WorldTypes' /\ ClientTypes'
      BY <2>19 DEF SendPost, TypeOK, WorldTypes, ClientTypes, worldVars, clientVars
    <3>3. FoldTypes'
      <4> DEFINE p == [conn |-> c, kind |-> job[c].kind, id |-> job[c].id]
                 g == job[c].at
      <4>1. \/ UNCHANGED door
            \/ door' = [door EXCEPT ![g] = Append(@, p)]
        BY <2>19 DEF SendPost
      <4>2. p \in Posts /\ g \in Gens
        BY <3>1
      <4> HIDE DEF p, g
      <4>3. door' \in [Gens -> Seq(Posts)]
        <5>1. door \in [Gens -> Seq(Posts)]
          BY DEF TypeOK, FoldTypes
        <5>2. Append(door[g], p) \in Seq(Posts)
          BY <4>2, <5>1
        <5> QED BY <4>1, <4>2, <5>1, <5>2
      <4> QED BY <2>19, <4>3 DEF SendPost, TypeOK, FoldTypes
    <3>4. ConnTypes'
      BY <2>19, <3>1, JobSteps DEF SendPost, TypeOK, ConnTypes
    <3> QED BY <3>2, <3>3, <3>4 DEF TypeOK
  <2>20. ASSUME NEW c \in Conns, Reply(c) PROVE TypeOK'
    <3>1. Answer(job[c].at + 1) \in Frames
      <4>1. job[c].at + 1 \in Epochs /\ 0 \in SubIds
        <5>1. job[c] \in Jobs /\ job[c].op = "answered"
          BY <2>20 DEF Reply, TypeOK, ConnTypes
        <5> QED BY <5>1, JobTypes
      <4> QED BY <4>1, FrameTypes, WindowTypes
    <3>2. WorldTypes' /\ FoldTypes' /\ ClientTypes'
      BY <2>20 DEF Reply, TypeOK, WorldTypes, FoldTypes, ClientTypes, worldVars, foldVars, clientVars
    <3>3. ConnTypes'
      BY <2>20, <3>1 DEF Reply, TypeOK, ConnTypes, connVars, Jobs, Idle
    <3> QED BY <3>2, <3>3 DEF TypeOK
  <2>21. ASSUME NEW c \in Conns, GiveUp(c) PROVE TypeOK'
    <3>1. WorldTypes' /\ FoldTypes' /\ ClientTypes'
      BY <2>21 DEF GiveUp, TypeOK, WorldTypes, FoldTypes, ClientTypes, worldVars, foldVars, clientVars
    <3>2. ConnTypes'
      BY <2>21 DEF GiveUp, TypeOK, ConnTypes, connVars, Jobs, Idle
    <3> QED BY <3>1, <3>2 DEF TypeOK
  <2>22. ASSUME NEW c \in Conns, Connect(c) PROVE TypeOK'
    <3>1. WorldTypes' /\ FoldTypes'
      BY <2>22 DEF Connect, TypeOK, WorldTypes, FoldTypes, worldVars, foldVars
    <3>2. ConnTypes'
      BY <2>22 DEF Connect, TypeOK, ConnTypes, connVars
    <3>3. ClientTypes'
      BY <2>22, ClientSteps DEF Connect, TypeOK, ClientTypes
    <3> QED BY <3>1, <3>2, <3>3 DEF TypeOK
  <2>23. ASSUME NEW c \in Conns, Disconnect(c) PROVE TypeOK'
    <3>1. NoSub \in Subs
      BY WindowTypes DEF NoSub, Subs
    <3>2. WorldTypes' /\ FoldTypes'
      BY <2>23 DEF Disconnect, TypeOK, WorldTypes, FoldTypes, worldVars, foldVars
    <3>3. ConnTypes'
      BY <2>23, <3>1 DEF Disconnect, TypeOK, ConnTypes, connVars
    <3>4. ClientTypes'
      <4>1. client' \in [Conns -> Clients]
        BY <2>23, ClientSteps DEF Disconnect, TypeOK, ClientTypes
      <4> QED BY <2>23, <4>1 DEF Disconnect, TypeOK, ClientTypes
    <3> QED BY <3>2, <3>3, <3>4 DEF TypeOK
  <2>24. ASSUME NEW c \in Conns, OpenView(c) PROVE TypeOK'
    <3>1. WorldTypes' /\ ConnTypes' /\ FoldTypes'
      BY <2>24 DEF OpenView, TypeOK, WorldTypes, ConnTypes, FoldTypes, worldVars, connVars, foldVars
    <3>2. ClientTypes'
      BY <2>24, ClientSteps DEF OpenView, TypeOK, ClientTypes
    <3> QED BY <3>1, <3>2 DEF TypeOK
  <2>25. ASSUME NEW c \in Conns, Unsubscribe(c) PROVE TypeOK'
    <3>1. NoSub \in Subs
      BY WindowTypes DEF NoSub, Subs
    <3>2. WorldTypes' /\ FoldTypes'
      BY <2>25 DEF Unsubscribe, TypeOK, WorldTypes, FoldTypes, worldVars, foldVars
    <3>3. ConnTypes'
      BY <2>25, <3>1 DEF Unsubscribe, TypeOK, ConnTypes, connVars
    <3>4. ClientTypes'
      BY <2>25, ClientSteps DEF Unsubscribe, TypeOK, ClientTypes
    <3> QED BY <3>2, <3>3, <3>4 DEF TypeOK
  <2>26. ASSUME NEW c \in Conns, Subscribe(c) PROVE TypeOK'
    <3>1. [NoSub EXCEPT !.id = nextId[c]] \in Subs
      BY <2>26, WindowTypes DEF NoSub, Subs, Subscribe, TypeOK, ClientTypes
    <3>2. WorldTypes' /\ FoldTypes'
      BY <2>26 DEF Subscribe, TypeOK, WorldTypes, FoldTypes, worldVars, foldVars
    <3>3. ConnTypes'
      <4>1. Job("opening", "none", nextId[c], epoch) \in Jobs
        BY <2>26, JobSteps DEF Subscribe, TypeOK, WorldTypes, ClientTypes
      <4> QED BY <2>26, <3>1, <4>1 DEF Subscribe, TypeOK, ConnTypes
    <3>4. ClientTypes'
      BY <2>26 DEF Subscribe, TypeOK, ClientTypes, clientVars, Clients
    <3> QED BY <3>2, <3>3, <3>4 DEF TypeOK
  <2>27. ASSUME NEW c \in Conns, Deliver(c) PROVE TypeOK'
    <3>1. Receive(client[c], Head(outbox[c])) \in Clients
      BY <2>27, ReceiveType DEF Deliver, TypeOK, ConnTypes, ClientTypes
    <3>2. WorldTypes' /\ FoldTypes'
      BY <2>27 DEF Deliver, TypeOK, WorldTypes, FoldTypes, worldVars, foldVars
    <3>3. ConnTypes'
      BY <2>27 DEF Deliver, TypeOK, ConnTypes, connVars
    <3>4. ClientTypes'
      BY <2>27, <3>1 DEF Deliver, TypeOK, ClientTypes, clientVars
    <3> QED BY <3>2, <3>3, <3>4 DEF TypeOK
  <2>28. ASSUME NEW c \in Conns, NEW kind \in Kinds, Post(c, kind) PROVE TypeOK'
    <3>1. WorldTypes' /\ FoldTypes' /\ ClientTypes'
      BY <2>28 DEF Post, TypeOK, WorldTypes, FoldTypes, ClientTypes, foldVars
    <3>2. ConnTypes'
      BY <2>28 DEF Post, TypeOK, WorldTypes, ClientTypes, ConnTypes, Jobs, Posted, Job
    <3> QED BY <3>1, <3>2 DEF TypeOK
  <2>29. CASE UNCHANGED vars
    BY <2>29 DEF vars, worldVars, connVars, foldVars, clientVars,
       TypeOK, WorldTypes, ConnTypes, FoldTypes, ClientTypes
  <2> QED
    BY <2>1, <2>2, <2>3, <2>4, <2>5, <2>6, <2>7, <2>8, <2>9, <2>10, <2>11, <2>12, <2>13, <2>14, <2>15, <2>16, <2>17, <2>18, <2>19, <2>20, <2>21, <2>22, <2>23, <2>24, <2>25, <2>26, <2>27, <2>28, <2>29
       DEF Next, Ingest, Connection, User
<1> QED BY <1>1, <1>2, PTL DEF Spec

-----------------------------------------------------------------------------
(* Ownership: who may speak for the world. *)

\* The steps of connections and clients leave the ingest side alone.
Aside == UNCHANGED <<generation, status, folded, pc, rev>>

LEMMA ConnectionsStayAside ==
  ASSUME NEW c \in Conns,
         \/ Connection(c) \/ User(c) \/ Subscribe(c) \/ Deliver(c)
  PROVE  Aside
<1>1. Connection(c) => Aside
  BY DEF Connection, Aside, SendOpeningReset, SendPost, Reply, GiveUp, worldVars, foldVars
<1>2. User(c) => Aside
  BY DEF User, Aside, Connect, Disconnect, OpenView, Unsubscribe, Post, worldVars, foldVars
<1>3. Subscribe(c) \/ Deliver(c) => Aside
  BY DEF Aside, Subscribe, Deliver, worldVars, foldVars
<1> QED BY <1>1, <1>2, <1>3

LEMMA Phases ==
  /\ PhaseOf("none") = "starting" /\ PhaseOf("spawned") = "starting"
  /\ PhaseOf("attaching") = "attaching" /\ PhaseOf("opened") = "attaching"
  /\ PhaseOf("asking") = "folding" /\ PhaseOf("scan") = "folding"
  /\ PhaseOf("answering") = "folding" /\ PhaseOf("prepared") = "folding"
  /\ PhaseOf("tail") = "live" /\ PhaseOf("polled") = "live" /\ PhaseOf("serving") = "live"
  /\ PhaseOf("ended") = "idle"
BY DEF PhaseOf, Waking, Opening, Folding, Landed

\* An ingest thread of an attach that has not happened has done nothing, and
\* health answers the phase of the ingest that owns the world, with a mark no
\* further than that ingest's fold.
THEOREM OwnersStatus == Spec => [](UnattachedIsUntouched /\ StatusIsOwners)
<1> DEFINE I == UnattachedIsUntouched /\ StatusIsOwners
<1>1. Init => I
  BY DEF Init, UnattachedIsUntouched, StatusIsOwners
<1>2. TypeOK /\ I /\ [Next]_vars => I'
  <2> SUFFICES ASSUME TypeOK, I, [Next]_vars PROVE I'
    OBVIOUS
  <2> USE BoundsAssumption DEF UnattachedIsUntouched, StatusIsOwners
  <2>0. /\ generation \in 0 .. MaxGen /\ rev \in [Gens -> 0 .. MaxRev] /\ DOMAIN pc = Gens
        /\ pc = [x \in Gens |-> pc[x]] /\ folded \in Nat
    BY DEF TypeOK, WorldTypes, FoldTypes
  <2>1. CASE Attach
    BY <2>0, <2>1, Phases DEF Attach, foldVars
  <2>2. ASSUME NEW g \in Gens, StartIngest(g) PROVE I'
    BY <2>0, <2>2, Phases DEF StartIngest, Owns, worldVars, connVars
  <2>3. ASSUME NEW g \in Gens, SpawnFails(g) PROVE I'
    BY <2>0, <2>3, Phases DEF SpawnFails, Owns, worldVars, connVars, ReportIdle
  <2>4. ASSUME NEW g \in Gens, Preempted(g) PROVE I'
    BY <2>0, <2>4, Phases DEF Preempted, Owns, worldVars, connVars, Ended
  <2>5. ASSUME NEW g \in Gens, ReportAttaching(g) PROVE I'
    BY <2>0, <2>5, Phases DEF ReportAttaching, Owns, worldVars, connVars
  <2>6. ASSUME NEW g \in Gens, ApplyHeldDefines(g) PROVE I'
    BY <2>0, <2>6, Phases DEF ApplyHeldDefines, Owns, worldVars, connVars
  <2>7. ASSUME NEW g \in Gens, IngestFails(g) PROVE I'
    BY <2>0, <2>7, Phases DEF IngestFails, Owns, worldVars, connVars, Ended, ReportIdle
  <2>8. ASSUME NEW g \in Gens, ServeAsks(g) PROVE I'
    BY <2>0, <2>8, Phases DEF ServeAsks, Owns, worldVars, connVars
  <2>9. ASSUME NEW g \in Gens, ServeWrites(g) PROVE I'
    BY <2>0, <2>9, Phases DEF ServeWrites, Owns, worldVars, connVars
  <2>10. ASSUME NEW g \in Gens, FoldBatch(g) PROVE I'
    BY <2>0, <2>10, Phases DEF FoldBatch, Owns, worldVars, connVars, MaybeReportProgress, ReportProgress
  <2>11. ASSUME NEW g \in Gens, TakePost(g) PROVE I'
    BY <2>0, <2>11, Phases DEF TakePost, Owns, worldVars, connVars
  <2>12. ASSUME NEW g \in Gens, ResumeScan(g) PROVE I'
    BY <2>0, <2>12, Phases DEF ResumeScan, Owns, worldVars, connVars
  <2>13. ASSUME NEW g \in Gens, ScanEnds(g) PROVE I'
    BY <2>0, <2>13, Phases DEF ScanEnds, Owns, worldVars, connVars, ReportProgress
  <2>14. ASSUME NEW g \in Gens, Land(g) PROVE I'
    BY <2>0, <2>14, Phases DEF Land, Owns, worldVars, connVars
  <2>15. ASSUME NEW g \in Gens, TailPoll(g) PROVE I'
    BY <2>0, <2>15, Phases DEF TailPoll, Owns, worldVars, connVars, MaybeReportProgress, ReportProgress
  <2>16. ASSUME NEW g \in Gens, PrepareViews(g) PROVE I'
    BY <2>0, <2>16, Phases DEF PrepareViews, Owns, worldVars, connVars
  <2>17. ASSUME NEW g \in Gens, ServeViews(g) PROVE I'
    BY <2>0, <2>17, Phases DEF ServeViews, Owns, worldVars, connVars
  <2>18. CASE UNCHANGED vars
    BY <2>18 DEF vars, worldVars, foldVars
  <2>19. ASSUME NEW c \in Conns, Connection(c) \/ User(c) \/ Subscribe(c) \/ Deliver(c) PROVE I'
    BY <2>19, ConnectionsStayAside DEF Aside
  <2> QED BY <2>1, <2>2, <2>3, <2>4, <2>5, <2>6, <2>7, <2>8, <2>9, <2>10, <2>11, <2>12, <2>13, <2>14, <2>15, <2>16, <2>17, <2>18, <2>19 DEF Next, Ingest
<1> QED BY <1>1, <1>2, TypeCorrect, PTL DEF Spec

\* No step of an ingest thread sends a post or changes one on its way.
LEMMA IngestsSendNothing ==
  ASSUME TypeOK, NEW g \in Gens, Ingest(g) \/ SpawnFails(g) \/ IngestFails(g),
         NEW c \in Conns, job'[c].op = "posting"
  PROVE  job'[c] = job[c]
<1>0. job \in [Conns -> Jobs]
  BY DEF TypeOK, ConnTypes
<1>1. CASE TakePost(g)
  <2>1. Head(door[g]) \in Posts
    BY <1>1 DEF TakePost, TypeOK, FoldTypes
  <2>2. Head(door[g]).conn \in Conns
    BY <2>1 DEF Posts
  <2>3. CASE c = Head(door[g]).conn /\ job[c].op = "waiting" /\ job[c].id = Head(door[g]).id
    <3>1. job'[c] = [job[c] EXCEPT !.op = "answered"]
      BY <1>0, <1>1, <2>2, <2>3 DEF TakePost
    <3>2. job[c] \in Posted
      BY <1>0, <2>3 DEF Jobs, Opened, Idle
    <3>3. job'[c].op = "answered"
      BY <3>1, <3>2 DEF Posted
    <3> QED BY <3>3
  <2> QED BY <1>0, <1>1, <2>2, <2>3 DEF TakePost
<1>2. CASE ~TakePost(g)
  <2>1. UNCHANGED job
    BY <1>2 DEF Ingest, StartIngest, SpawnFails, Preempted, ReportAttaching,
       ApplyHeldDefines, IngestFails, ServeAsks, ServeWrites, FoldBatch, ResumeScan, ScanEnds,
       Land, TailPoll, PrepareViews, ServeViews, connVars
  <2> QED BY <2>1
<1> QED BY <1>1, <1>2

\* A step of a connection leaves a post on its way alone, or sends one.
LEMMA PostsAreSent ==
  ASSUME TypeOK, NEW c \in Conns, Connection(c) \/ User(c) \/ Subscribe(c) \/ Deliver(c),
         NEW d \in Conns, job'[d].op = "posting"
  PROVE  \/ job'[d] = job[d]
         \/ /\ job'[d].at # 0 /\ (job'[d].kind = "mark" => status = "live")
            /\ job'[d].at = IF job'[d].kind = "ask" THEN asks ELSE writeTo
<1>0. job \in [Conns -> Jobs]
  BY DEF TypeOK, ConnTypes
<1>1. CASE \E kind \in Kinds : Post(c, kind)
  BY <1>0, <1>1 DEF Post, Job
<1>2. CASE SendPost(c)
  <2>1. \/ job' = [job EXCEPT ![c] = Idle]
        \/ job' = [job EXCEPT ![c].op = "waiting"] /\ job[c].op = "posting"
    BY <1>2 DEF SendPost
  <2>2. CASE job' = [job EXCEPT ![c] = Idle]
    BY <1>0, <2>2 DEF Idle
  <2>3. CASE job' = [job EXCEPT ![c].op = "waiting"] /\ job[c].op = "posting"
    <3>1. job[c] \in Posted
      BY <1>0, <2>3 DEF Jobs, Opened, Idle
    <3>2. job'[c].op = "waiting"
      BY <1>0, <2>3, <3>1 DEF Posted
    <3> QED BY <1>0, <2>3, <3>2
  <2> QED BY <2>1, <2>2, <2>3
<1>3. CASE SendOpeningReset(c) \/ Reply(c) \/ GiveUp(c)
  BY <1>0, <1>3 DEF SendOpeningReset, Reply, GiveUp, Idle
<1>4. CASE Subscribe(c)
  BY <1>0, <1>4 DEF Subscribe, Job
<1>5. CASE Connect(c) \/ Disconnect(c) \/ OpenView(c) \/ Unsubscribe(c) \/ Deliver(c)
  BY <1>5 DEF Connect, Disconnect, OpenView, Unsubscribe, Deliver, connVars
<1> QED BY <1>1, <1>2, <1>3, <1>4, <1>5 DEF Connection, User

\* The doors lead to the owner, and a post goes where its poster saw a door.
THEOREM OwnersDoors == Spec => []DoorsBelongToOwner
<1>1. Init => DoorsBelongToOwner
  BY DEF Init, DoorsBelongToOwner, Idle
<1>2. TypeOK /\ DoorsBelongToOwner /\ [Next]_vars => DoorsBelongToOwner'
  <2> SUFFICES ASSUME TypeOK, DoorsBelongToOwner, [Next]_vars PROVE DoorsBelongToOwner'
    OBVIOUS
  <2> USE BoundsAssumption DEF DoorsBelongToOwner
  <2>0. generation \in 0 .. MaxGen /\ job \in [Conns -> Jobs]
    BY DEF TypeOK, WorldTypes, ConnTypes
  <2>1. CASE Attach
    BY <2>0, <2>1 DEF Attach
  <2>2. ASSUME NEW g \in Gens, Ingest(g) \/ SpawnFails(g) \/ IngestFails(g) PROVE DoorsBelongToOwner'
    <3>1. UNCHANGED generation /\ asks' \in {0, asks, generation} /\ writeTo' \in {0, writeTo, generation}
      BY <2>2 DEF Ingest, StartIngest, SpawnFails, Preempted, ReportAttaching, ApplyHeldDefines,
         IngestFails, ServeAsks, ServeWrites, FoldBatch, TakePost, ResumeScan, ScanEnds, Land,
         TailPoll, PrepareViews, ServeViews, ReportIdle, Owns, worldVars
    <3>2. ASSUME NEW c \in Conns, job'[c].op = "posting" PROVE job'[c] = job[c]
      BY <2>2, <3>2, IngestsSendNothing
    <3> QED BY <3>1, <3>2
  <2>3. ASSUME NEW c \in Conns, Connection(c) \/ User(c) \/ Subscribe(c) \/ Deliver(c)
        PROVE  DoorsBelongToOwner'
    <3>1. UNCHANGED <<generation, asks, writeTo>>
      BY <2>3 DEF Connection, User, SendOpeningReset, SendPost, Reply, GiveUp, Connect, Disconnect,
         OpenView, Unsubscribe, Post, Subscribe, Deliver, worldVars
    <3>2. ASSUME NEW d \in Conns, job'[d].op = "posting"
          PROVE  job'[d] = job[d] \/ job'[d].at \in {asks, writeTo} \ {0}
      BY <2>3, <3>2, PostsAreSent
    <3>3. asks \in Nat /\ writeTo \in Nat
      BY DEF TypeOK, WorldTypes
    <3> QED BY <2>0, <3>1, <3>2, <3>3
  <2>4. CASE UNCHANGED vars
    BY <2>4 DEF vars, worldVars, connVars
  <2> QED BY <2>1, <2>2, <2>3, <2>4 DEF Next
<1> QED BY <1>1, <1>2, TypeCorrect, PTL DEF Spec

\* A step of an ingest that lost the world changes nothing anybody else reads.
THEOREM LosersSilence == Spec => LoserWritesNothing
<1> DEFINE L == \A g \in Gens :
       g # generation /\ <<pc[g], rev[g], taken[g], prepared[g]>>
                           # <<pc[g], rev[g], taken[g], prepared[g]>>'
       => UNCHANGED <<worldVars, listeners, subs, outbox>>
<1>1. TypeOK /\ [Next]_vars => L
  <2> SUFFICES ASSUME TypeOK, [Next]_vars, NEW g \in Gens, g # generation,
                      <<pc[g], rev[g], taken[g], prepared[g]>>
                        # <<pc[g], rev[g], taken[g], prepared[g]>>'
               PROVE  UNCHANGED <<worldVars, listeners, subs, outbox>>
    OBVIOUS
  <2>0. /\ DOMAIN pc = Gens /\ DOMAIN rev = Gens /\ DOMAIN taken = Gens /\ DOMAIN prepared = Gens
    BY DEF TypeOK, FoldTypes
  <2>1. ASSUME NEW h \in Gens, Ingest(h) \/ SpawnFails(h) \/ IngestFails(h)
        PROVE  UNCHANGED <<worldVars, listeners, subs, outbox>>
    <3>1. h = g
      BY <2>0, <2>1 DEF Ingest, StartIngest, SpawnFails, Preempted, ReportAttaching,
         ApplyHeldDefines, IngestFails, ServeAsks, ServeWrites, FoldBatch, TakePost, ResumeScan,
         ScanEnds, Land, TailPoll, PrepareViews, ServeViews, Ended
    <3> QED BY <2>1, <3>1 DEF Ingest, StartIngest, SpawnFails, Preempted, ReportAttaching,
         ApplyHeldDefines, IngestFails, ServeAsks, ServeWrites, FoldBatch, TakePost, ResumeScan,
         ScanEnds, Land, TailPoll, PrepareViews, ServeViews, Owns, ReportIdle, worldVars, connVars
  <2>2. CASE Attach
    BY <2>2 DEF Attach, foldVars
  <2>3. ASSUME NEW c \in Conns, Connection(c) \/ User(c) \/ Subscribe(c) \/ Deliver(c)
        PROVE  FALSE
    BY <2>3 DEF Connection, User, SendOpeningReset, SendPost, Reply, GiveUp, Connect, Disconnect,
       OpenView, Unsubscribe, Post, Subscribe, Deliver, foldVars
  <2>4. CASE UNCHANGED vars
    BY <2>4 DEF vars, foldVars
  <2> QED BY <2>1, <2>2, <2>3, <2>4 DEF Next
<1> QED BY <1>1, TypeCorrect, PTL DEF Spec, LoserWritesNothing

-----------------------------------------------------------------------------
(* Rows and epochs. *)

\* A frame whose rows, and whose base if it is a diff, are of its own epoch; a
\* client that draws rows of the epoch it noted.
GoodFrames ==
  {f \in Frames : RowsOf(f.to, f.epoch) /\ (f.kind = "diff" => RowsOf(f.from, f.epoch))}

GoodClients == {cl \in Clients : RowsOf(cl.view, cl.epoch)}

SyncInv ==
  /\ outbox \in [Conns -> Seq(GoodFrames)]
  /\ client \in [Conns -> GoodClients]
  /\ \A c \in Conns : subs[c].held.gen <= generation
  /\ OnlyOpenSubsHold /\ HeldIsLanded

LEMMA Blank ==
  ASSUME NEW e
  PROVE  RowsOf(LOADING, e) /\ RowsOf(Empty, e) /\ RowsOf(Parted, e) /\ RowsOf(Owed, e)
BY DEF RowsOf, LOADING, Empty, Parted, Owed, Window

\* What the fold of generation g shows is of epoch g + 1.
LEMMA FoldRows ==
  ASSUME NEW g \in 0 .. MaxGen, NEW r \in 0 .. MaxRev
  PROVE  RowsOf(Rows(g, r), g + 1) /\ Rows(g, r).gen \in {0, g}
BY BoundsAssumption DEF RowsOf, Rows, Window, Empty

LEMMA GoodFrameMakers ==
  /\ \A e \in Epochs : EpochMessage(e) \in GoodFrames /\ Answer(e) \in GoodFrames
  /\ \A id \in SubIds, e \in Epochs, to \in Windows :
       RowsOf(to, e) => ResetMessage(id, e, to) \in GoodFrames
  /\ \A id \in SubIds, e \in Epochs, from \in Windows, to \in Windows :
       RowsOf(from, e) /\ RowsOf(to, e) => DiffMessage(id, e, from, to) \in GoodFrames
<1>1. \A e \in Epochs : EpochMessage(e) \in GoodFrames /\ Answer(e) \in GoodFrames
  BY FrameTypes, Blank DEF GoodFrames, EpochMessage, Answer, Frame
<1>2. \A id \in SubIds, e \in Epochs, to \in Windows :
        RowsOf(to, e) => ResetMessage(id, e, to) \in GoodFrames
  BY FrameTypes DEF GoodFrames, ResetMessage, Frame
<1>3. \A id \in SubIds, e \in Epochs, from \in Windows, to \in Windows :
        RowsOf(from, e) /\ RowsOf(to, e) => DiffMessage(id, e, from, to) \in GoodFrames
  BY FrameTypes DEF GoodFrames, DiffMessage, Frame
<1> QED BY <1>1, <1>2, <1>3

\* Whatever good frame a client receives, it goes on drawing rows of its epoch:
\* noting a newer one drops them, a stale frame is ignored.
LEMMA ReceiveGood ==
  ASSUME NEW cl \in GoodClients, NEW m \in GoodFrames
  PROVE  Receive(cl, m) \in GoodClients
<1>1. /\ cl \in Clients /\ RowsOf(cl.view, cl.epoch)
      /\ m \in Frames /\ RowsOf(m.to, m.epoch)
      /\ cl.epoch \in Nat /\ m.epoch \in Nat
  BY BoundsAssumption DEF GoodClients, GoodFrames, Clients, Frames
<1> DEFINE noted == NoteEpoch(cl, m.epoch)
<1>2. /\ noted.epoch = IF Stale(cl, m.epoch) THEN cl.epoch ELSE m.epoch
      /\ noted.view = IF cl.epoch # 0 /\ m.epoch > cl.epoch THEN LOADING ELSE cl.view
  BY <1>1 DEF NoteEpoch, Clients
<1>3. RowsOf(noted.view, noted.epoch)
  <2>1. CASE cl.epoch # 0 /\ m.epoch > cl.epoch
    BY <1>2, <2>1, Blank
  <2>2. CASE cl.epoch = 0
    <3>1. cl.view # Empty /\ cl.view.is = "rows" => cl.view.gen + 1 = 0 /\ cl.view.gen \in Nat
      BY <1>1, <2>2, BoundsAssumption DEF RowsOf, Clients, Windows
    <3> QED BY <1>2, <2>2, <3>1 DEF RowsOf
  <2>3. CASE cl.epoch # 0 /\ ~(m.epoch > cl.epoch)
    BY <1>1, <1>2, <2>3 DEF Stale
  <2> QED BY <2>1, <2>2, <2>3
<1>4. noted \in Clients
  <2>1. cl.view \in Windows /\ m.epoch \in Epochs
    BY <1>1 DEF Clients, Frames
  <2> QED BY <1>1, <2>1, WindowTypes DEF NoteEpoch, Clients
<1>5. ASSUME ~Stale(cl, m.epoch), NEW w \in {m.to, Parted}
      PROVE  RowsOf(w, [noted EXCEPT !.view = w].epoch) /\ [noted EXCEPT !.view = w].view = w
  BY <1>1, <1>2, <1>4, <1>5, Blank DEF Clients
<1>6. OnReset(cl, m) \in GoodClients
  BY <1>1, <1>3, <1>4, <1>5, ReceiveType DEF OnReset, GoodClients, Clients, Frames
<1>7. OnDiff(cl, m) \in GoodClients
  BY <1>1, <1>3, <1>4, <1>5, WindowTypes DEF OnDiff, ApplyDiff, GoodClients, Clients, Frames
<1>8. noted \in GoodClients
  BY <1>3, <1>4 DEF GoodClients
<1> QED BY <1>1, <1>6, <1>7, <1>8 DEF Receive, Frames

LEMMA BroadcastGood ==
  ASSUME SyncInv, NEW m \in GoodFrames
  PROVE  Broadcast(m) \in [Conns -> Seq(GoodFrames)]
BY DEF Broadcast, SyncInv

\* A pass of the owner sends good frames and leaves it holding rows of its own
\* generation, provided that what it diffs against was of it already.
LEMMA ServeGood ==
  ASSUME TypeOK, SyncInv, NEW g \in Gens, Owns(g), NEW all \in BOOLEAN,
         ServeIfPrepared(g, all), UNCHANGED listeners,
         \/ all /\ prepared[g]
         \/ \A c \in Conns : RowsOf(subs[c].held, epoch)
  PROVE  /\ outbox' \in [Conns -> Seq(GoodFrames)]
         /\ \A c \in Conns : subs'[c].held.gen <= generation
         /\ OnlyOpenSubsHold'
         /\ \A c \in Conns : RowsOf(subs'[c].held, epoch)
<1>0. /\ subs \in [Conns -> Subs] /\ epoch = g + 1 /\ epoch \in Epochs /\ generation = g
      /\ rev[g] \in 0 .. MaxRev /\ g \in 0 .. MaxGen
  BY BoundsAssumption DEF TypeOK, WorldTypes, ConnTypes, FoldTypes, Owns
<1> DEFINE rows == Rows(g, rev[g])
<1>1. rows \in Windows /\ RowsOf(rows, epoch) /\ rows.gen <= generation
  BY <1>0, WindowTypes, FoldRows
<1>2. CASE ~prepared[g]
  BY <1>2 DEF ServeIfPrepared, SyncInv, OnlyOpenSubsHold
<1>3. CASE prepared[g]
  <2> DEFINE served == {c \in Conns : ~Skipped(c, g, all)}
  <2>1. /\ outbox' = [c \in Conns |-> IF c \in served
                                      THEN outbox[c] \o Served(c, g, all) ELSE outbox[c]]
        /\ subs' = [c \in Conns |-> IF c \in served
                      THEN [subs[c] EXCEPT !.held = rows, !.rev = rev[g]] ELSE subs[c]]
    BY <1>3 DEF ServeIfPrepared, Serve
  <2>2. ASSUME NEW c \in Conns
        PROVE  Served(c, g, all) \in Seq(GoodFrames)
    <3>1. subs[c].id \in SubIds /\ subs[c].held \in Windows
      BY <1>0 DEF Subs
    <3>2. ResetMessage(subs[c].id, epoch, rows) \in GoodFrames
      BY <1>0, <1>1, <3>1, GoodFrameMakers
    <3>3. ~all => DiffMessage(subs[c].id, epoch, subs[c].held, rows) \in GoodFrames
      BY <1>0, <1>1, <3>1, GoodFrameMakers
    <3>4. \A f \in GoodFrames : <<f>> \in Seq(GoodFrames)
      OBVIOUS
    <3>5. << >> \in Seq(GoodFrames)
      OBVIOUS
    <3> QED BY <3>2, <3>3, <3>4, <3>5 DEF Served
  <2>3. \A c \in Conns : outbox[c] \o Served(c, g, all) \in Seq(GoodFrames)
    BY <2>2 DEF SyncInv
  <2>4. outbox' \in [Conns -> Seq(GoodFrames)]
    BY <2>1, <2>3 DEF SyncInv
  <2>5. ASSUME NEW c \in Conns
        PROVE  /\ c \in served => subs'[c].held = rows /\ subs'[c].id = subs[c].id
               /\ c \notin served => subs'[c] = subs[c]
    BY <1>0, <2>1 DEF Subs
  <2>6. \A c \in served : c \in listeners /\ subs[c].id # 0
    BY DEF Skipped, Subscribed
  <2>7. ASSUME NEW c \in Conns PROVE RowsOf(subs'[c].held, epoch)
    <3>1. CASE c \in served
      BY <1>1, <2>5, <3>1
    <3>2. CASE c \notin served /\ all
      <4>1. subs[c].held = Owed
        BY <3>2 DEF Skipped, Subscribed, SyncInv, OnlyOpenSubsHold
      <4> QED BY <2>5, <3>2, <4>1, Blank
    <3>3. CASE c \notin served /\ ~all
      BY <2>5, <3>3
    <3> QED BY <3>1, <3>2, <3>3
  <2>8. \A c \in Conns : subs'[c].held.gen <= generation
    BY <1>1, <2>5 DEF SyncInv
  <2>9. OnlyOpenSubsHold'
    BY <2>5, <2>6 DEF SyncInv, OnlyOpenSubsHold
  <2> QED BY <2>4, <2>7, <2>8, <2>9
<1> QED BY <1>2, <1>3

\* Ingest steps that send nothing and touch no subscription neither land a fold
\* nor prepare a landing.
LEMMA QuietIngest ==
  ASSUME TypeOK, SyncInv, NEW g \in Gens,
         UNCHANGED <<epoch, generation, listeners, subs, outbox, client>>,
         \A h \in Gens \ {g} : pc'[h] = pc[h] /\ prepared'[h] = prepared[h],
         pc'[g] \in Landed => pc[g] \in Landed, pc'[g] # "prepared"
  PROVE  SyncInv'
<1>1. generation \in 0 .. MaxGen
  BY DEF TypeOK, WorldTypes
<1>2. ASSUME generation' # 0, pc'[generation'] = "prepared", ~prepared'[generation']
      PROVE  pc[generation] = "prepared" /\ ~prepared[generation]
  <2>1. generation' \in Gens \ {g}
    BY <1>1, <1>2 DEF Gens
  <2> QED BY <1>2, <2>1
<1>3. ASSUME generation' # 0, pc'[generation'] \in Landed
      PROVE  pc[generation] \in Landed
  <2>1. generation \in Gens
    BY <1>1, <1>3 DEF Gens
  <2>2. CASE generation = g
    BY <1>3, <2>2
  <2>3. CASE generation # g
    BY <1>3, <2>1, <2>3
  <2> QED BY <2>2, <2>3
<1>4. HeldIsLanded'
  BY <1>2, <1>3 DEF SyncInv, HeldIsLanded, RowsOf
<1> QED BY <1>4 DEF SyncInv, OnlyOpenSubsHold

THEOREM InSync == Spec => []SyncInv
<1>1. Init => SyncInv
  <2> SUFFICES ASSUME Init PROVE SyncInv
    OBVIOUS
  <2>1. [NewClient EXCEPT !.open = TRUE] \in GoodClients
    <3>1. NewClient \in Clients
      BY WindowTypes, BoundsAssumption DEF NewClient, Clients
    <3>2. NewClient.view = LOADING
      BY DEF NewClient
    <3>3. [NewClient EXCEPT !.open = TRUE] \in Clients
          /\ [NewClient EXCEPT !.open = TRUE].view = LOADING
      BY <3>1, <3>2 DEF Clients
    <3> QED BY <3>3, Blank DEF GoodClients
  <2>2. \A c \in Conns : subs[c].held = Owed /\ subs[c].held.gen = 0
    BY DEF Init, NoSub, Owed, Window
  <2> QED BY <2>1, <2>2 DEF Init, SyncInv, OnlyOpenSubsHold, HeldIsLanded
<1>2. TypeOK /\ UnattachedIsUntouched /\ SyncInv /\ [Next]_vars => SyncInv'
  <2> SUFFICES ASSUME TypeOK, UnattachedIsUntouched, SyncInv, [Next]_vars PROVE SyncInv'
    OBVIOUS
  <2>0. /\ generation \in 0 .. MaxGen /\ epoch = generation + 1 /\ epoch \in Epochs
        /\ DOMAIN pc = Gens /\ DOMAIN prepared = Gens /\ subs \in [Conns -> Subs]
        /\ EpochMessage(epoch) \in GoodFrames
    BY BoundsAssumption, GoodFrameMakers DEF TypeOK, WorldTypes, ConnTypes, FoldTypes
  <2>1. CASE Attach
    <3>1. EpochMessage(epoch + 1) \in GoodFrames /\ generation + 1 \in Gens
      BY <2>0, <2>1, BoundsAssumption, GoodFrameMakers DEF Attach
    <3>2. outbox' \in [Conns -> Seq(GoodFrames)]
      BY <2>1, <3>1, BroadcastGood DEF Attach
    <3>3. pc'[generation'] = "none"
      BY <2>0, <2>1, <3>1 DEF Attach, UnattachedIsUntouched, foldVars
    <3>4. HeldIsLanded'
      BY <3>3 DEF HeldIsLanded, Landed
    <3>5. \A c \in Conns : subs'[c].held.gen <= generation'
      <4>1. \A c \in Conns : subs[c].held.gen \in Nat
        BY <2>0, BoundsAssumption DEF Subs, Windows
      <4> QED BY <2>0, <2>1, <4>1 DEF Attach, SyncInv
    <3> QED BY <2>1, <3>2, <3>4, <3>5 DEF Attach, SyncInv, OnlyOpenSubsHold, clientVars
  <2>2. ASSUME NEW g \in Gens,
               \/ StartIngest(g) \/ SpawnFails(g) \/ Preempted(g) \/ ReportAttaching(g)
               \/ ApplyHeldDefines(g) \/ IngestFails(g) \/ ServeAsks(g) \/ ServeWrites(g)
               \/ TakePost(g) \/ ResumeScan(g) \/ PrepareViews(g)
        PROVE  SyncInv'
    <3>1. UNCHANGED <<epoch, generation, listeners, subs, outbox, client>>
      BY <2>2 DEF StartIngest, SpawnFails, Preempted, ReportAttaching, ApplyHeldDefines, IngestFails,
         ServeAsks, ServeWrites, TakePost, ResumeScan, PrepareViews, worldVars, connVars, clientVars
    <3>2. \A h \in Gens \ {g} : pc'[h] = pc[h] /\ prepared'[h] = prepared[h]
      BY <2>0, <2>2 DEF StartIngest, SpawnFails, Preempted, ReportAttaching, ApplyHeldDefines,
         IngestFails, ServeAsks, ServeWrites, TakePost, ResumeScan, PrepareViews, Ended
    <3>3. (pc'[g] \in Landed => pc[g] \in Landed) /\ pc'[g] # "prepared"
      BY <2>0, <2>2 DEF StartIngest, SpawnFails, Preempted, ReportAttaching, ApplyHeldDefines,
         IngestFails, ServeAsks, ServeWrites, TakePost, ResumeScan, PrepareViews, Ended, Landed
    <3> QED BY <3>1, <3>2, <3>3, QuietIngest
  <2>3. ASSUME NEW g \in Gens, FoldBatch(g) \/ ScanEnds(g) \/ TailPoll(g)
        PROVE  SyncInv'
    <3>1. outbox' \in [Conns -> Seq(GoodFrames)]
      BY <2>0, <2>3, BroadcastGood
         DEF FoldBatch, ScanEnds, TailPoll, MaybeReportProgress, ReportProgress, SyncInv
    <3>2. UNCHANGED <<epoch, generation, listeners, subs, client>> /\ g = generation
      BY <2>3 DEF FoldBatch, ScanEnds, TailPoll, Owns, clientVars
    <3>3. HeldIsLanded'
      <4>1. CASE FoldBatch(g)
        BY <2>0, <3>2, <4>1 DEF FoldBatch, HeldIsLanded, Landed
      <4>2. CASE TailPoll(g)
        BY <2>0, <3>2, <4>2 DEF TailPoll, HeldIsLanded, Landed, SyncInv, RowsOf
      <4>3. CASE ScanEnds(g)
        <5>1. pc'[g] = "prepared" /\ (prepared'[g] <=> Needed(g, TRUE))
          BY <2>0, <4>3 DEF ScanEnds
        <5>2. ~Needed(g, TRUE) => \A c \in Conns : subs[c].held = Owed
          BY DEF Needed, Subscribed, SyncInv, OnlyOpenSubsHold
        <5> QED BY <3>2, <5>1, <5>2 DEF HeldIsLanded, Landed
      <4> QED BY <2>3, <4>1, <4>2, <4>3
    <3> QED BY <3>1, <3>2, <3>3 DEF SyncInv, OnlyOpenSubsHold
  <2>4. ASSUME NEW g \in Gens, Land(g) \/ ServeViews(g)
        PROVE  SyncInv'
    <3>1. /\ Owns(g) /\ g = generation /\ generation # 0 /\ pc'[g] \in Landed
          /\ UNCHANGED <<epoch, generation, listeners, client>>
      <4>1. Owns(g) /\ g = generation /\ generation # 0
        <5>1. Owns(g)
          BY <2>4 DEF Land, ServeViews
        <5> QED BY <5>1 DEF Owns
      <4>2. pc'[g] \in Landed
        BY <2>0, <2>4 DEF Land, ServeViews, Landed
      <4>3. UNCHANGED <<epoch, generation, listeners, client>>
        BY <2>4 DEF Land, ServeViews, worldVars, clientVars
      <4> QED BY <4>1, <4>2, <4>3
    <3>2. \/ ServeIfPrepared(g, TRUE) /\ pc[g] = "prepared"
          \/ ServeIfPrepared(g, FALSE) /\ pc[g] \in Landed
      BY <2>4 DEF Land, ServeViews, Landed
    <3>3. /\ outbox' \in [Conns -> Seq(GoodFrames)]
          /\ \A c \in Conns : subs'[c].held.gen <= generation
          /\ OnlyOpenSubsHold'
          /\ \A c \in Conns : RowsOf(subs'[c].held, epoch)
      <4>1. CASE ServeIfPrepared(g, TRUE) /\ pc[g] = "prepared"
        <5>1. prepared[g] \/ \A c \in Conns : RowsOf(subs[c].held, epoch)
          BY <3>1, <4>1, Blank DEF SyncInv, HeldIsLanded
        <5> QED BY <3>1, <4>1, <5>1, ServeGood
      <4>2. CASE ServeIfPrepared(g, FALSE) /\ pc[g] \in Landed
        <5>1. \A c \in Conns : RowsOf(subs[c].held, epoch)
          BY <3>1, <4>2 DEF SyncInv, HeldIsLanded
        <5> QED BY <3>1, <4>2, <5>1, ServeGood
      <4> QED BY <3>2, <4>1, <4>2
    <3> QED BY <3>1, <3>3 DEF SyncInv, HeldIsLanded, Landed
  <2>5. ASSUME NEW c \in Conns,
               \/ Connect(c) \/ Disconnect(c) \/ OpenView(c) \/ Unsubscribe(c)
               \/ Subscribe(c) \/ Deliver(c)
        PROVE  SyncInv'
    <3>0. UNCHANGED <<epoch, generation, pc, prepared>>
      BY <2>5 DEF Connect, Disconnect, OpenView, Unsubscribe, Subscribe, Deliver, worldVars, foldVars
    <3>1. ASSUME NEW d \in Conns
          PROVE  /\ subs'[d].held = subs[d].held \/ subs'[d].held = Owed
                 /\ d \notin listeners' \/ subs'[d].id = 0 => subs'[d].held = Owed
      <4>1. NoSub.held = Owed /\ [NoSub EXCEPT !.id = nextId[c]].held = Owed
        BY DEF NoSub
      <4>2. \/ subs'[d].held = Owed
            \/ subs'[d] = subs[d] /\ (d \in listeners' <=> d \in listeners)
            \/ subs'[d] = subs[d] /\ d \in listeners'
        <5>1. CASE Connect(c) \/ OpenView(c) \/ Deliver(c)
          BY <5>1 DEF Connect, OpenView, Deliver, connVars
        <5>2. CASE Disconnect(c) \/ Unsubscribe(c)
          BY <2>0, <4>1, <5>2 DEF Disconnect, Unsubscribe
        <5>3. CASE Subscribe(c)
          BY <2>0, <4>1, <5>3 DEF Subscribe
        <5> QED BY <2>5, <5>1, <5>2, <5>3
      <4>3. d \notin listeners' \/ subs'[d].id = 0 => subs'[d].held = Owed
        <5>1. CASE subs'[d].held = Owed
          BY <5>1
        <5>2. CASE subs'[d] = subs[d] /\ (d \in listeners' <=> d \in listeners)
          BY <5>2 DEF SyncInv, OnlyOpenSubsHold
        <5>3. CASE subs'[d] = subs[d] /\ d \in listeners'
          BY <5>3 DEF SyncInv, OnlyOpenSubsHold
        <5> QED BY <4>2, <5>1, <5>2, <5>3
      <4> QED BY <4>2, <4>3
    <3>2. outbox' \in [Conns -> Seq(GoodFrames)]
      <4>1. outbox \in [Conns -> Seq(GoodFrames)]
        BY DEF SyncInv
      <4>2. CASE Deliver(c)
        <5>1. outbox[c] \in Seq(GoodFrames) /\ outbox[c] # << >>
          BY <4>1, <4>2 DEF Deliver
        <5>2. Tail(outbox[c]) \in Seq(GoodFrames)
          BY <5>1
        <5> QED BY <4>1, <4>2, <5>2 DEF Deliver
      <4>3. CASE Disconnect(c)
        <5>1. << >> \in Seq(GoodFrames)
          OBVIOUS
        <5> QED BY <4>1, <4>3, <5>1 DEF Disconnect
      <4>4. CASE Connect(c) \/ OpenView(c) \/ Unsubscribe(c) \/ Subscribe(c)
        BY <4>1, <4>4 DEF Connect, OpenView, Unsubscribe, Subscribe, connVars
      <4> QED BY <2>5, <4>2, <4>3, <4>4
    <3>3. client' \in [Conns -> GoodClients]
      <4>1. CASE Deliver(c)
        <5>1. Head(outbox[c]) \in GoodFrames
          BY <4>1 DEF Deliver, SyncInv
        <5>2. Receive(client[c], Head(outbox[c])) \in GoodClients
          BY <5>1, ReceiveGood DEF SyncInv
        <5> QED BY <4>1, <5>2 DEF Deliver, SyncInv
      <4>2. CASE ~Deliver(c)
        <5>1. client[c] \in Clients /\ RowsOf(client[c].view, client[c].epoch)
          BY DEF SyncInv, GoodClients
        <5>2. /\ AttachTransport(client[c]) \in GoodClients
              /\ FailConnection(client[c]) \in GoodClients
              /\ [client[c] EXCEPT !.open = TRUE, !.view = LOADING] \in GoodClients
              /\ [client[c] EXCEPT !.open = FALSE, !.id = 0, !.view = LOADING] \in GoodClients
          BY <5>1, ClientSteps, Blank DEF GoodClients, AttachTransport, FailConnection, Clients
        <5>3. [client[c] EXCEPT !.id = nextId[c]] \in GoodClients \/ ~Subscribe(c)
          <6>1. Subscribe(c) => nextId[c] \in SubIds
            BY BoundsAssumption DEF Subscribe, TypeOK, ClientTypes
          <6> QED BY <5>1, <6>1 DEF GoodClients, Clients
        <5>4. \/ client' = [client EXCEPT ![c] = AttachTransport(@)]
              \/ client' = [client EXCEPT ![c] = FailConnection(@)]
              \/ client' = [client EXCEPT ![c] = [@ EXCEPT !.open = TRUE, !.view = LOADING]]
              \/ client' = [client EXCEPT ![c] = [@ EXCEPT !.open = FALSE, !.id = 0, !.view = LOADING]]
              \/ client' = [client EXCEPT ![c] = [@ EXCEPT !.id = nextId[c]]] /\ Subscribe(c)
          BY <2>5, <4>2 DEF Connect, Disconnect, OpenView, Unsubscribe, Subscribe
        <5>5. client \in [Conns -> GoodClients]
          BY DEF SyncInv
        <5> QED BY <5>2, <5>3, <5>4, <5>5
      <4> QED BY <4>1, <4>2
    <3>4. HeldIsLanded'
      BY <3>0, <3>1, Blank DEF SyncInv, HeldIsLanded
    <3>5. \A d \in Conns : subs'[d].held.gen <= generation'
      <4>1. Owed.gen = 0 /\ 0 <= generation
        BY <2>0, BoundsAssumption DEF Owed, Window
      <4>2. \A d \in Conns : subs[d].held.gen <= generation
        BY DEF SyncInv
      <4> QED BY <3>0, <3>1, <4>1, <4>2
    <3> QED BY <3>1, <3>2, <3>3, <3>4, <3>5 DEF SyncInv, OnlyOpenSubsHold
  <2>6. ASSUME NEW c \in Conns, Connection(c) \/ \E kind \in Kinds : Post(c, kind)
        PROVE  SyncInv'
    <3>1. UNCHANGED <<epoch, generation, pc, prepared, listeners, subs, client>>
      BY <2>6 DEF Connection, SendOpeningReset, SendPost, Reply, GiveUp, Post, worldVars, foldVars,
         clientVars
    <3>2. outbox' \in [Conns -> Seq(GoodFrames)]
      <4>0. job[c] \in Jobs
        BY DEF TypeOK, ConnTypes
      <4>1. CASE SendOpeningReset(c)
        <5>1. job[c].id \in SubIds /\ job[c].at \in Epochs
          BY <4>0, <4>1, JobTypes, BoundsAssumption DEF SendOpeningReset
        <5>2. ResetMessage(job[c].id, job[c].at, Empty) \in GoodFrames
          BY <5>1, GoodFrameMakers, Blank, WindowTypes
        <5> QED BY <4>1, <5>2 DEF SendOpeningReset, SyncInv
      <4>2. CASE Reply(c)
        <5>1. job[c].at + 1 \in Epochs
          BY <4>0, <4>2, JobTypes, BoundsAssumption DEF Reply
        <5> QED BY <4>2, <5>1, GoodFrameMakers DEF Reply, SyncInv
      <4>3. CASE SendPost(c) \/ GiveUp(c) \/ \E kind \in Kinds : Post(c, kind)
        BY <4>3 DEF SendPost, GiveUp, Post, SyncInv
      <4> QED BY <2>6, <4>1, <4>2, <4>3 DEF Connection
    <3> QED BY <3>1, <3>2 DEF SyncInv, OnlyOpenSubsHold, HeldIsLanded, RowsOf
  <2>7. CASE UNCHANGED vars
    BY <2>7 DEF vars, worldVars, connVars, foldVars, clientVars, SyncInv, OnlyOpenSubsHold,
       HeldIsLanded, RowsOf
  <2> QED BY <2>1, <2>2, <2>3, <2>4, <2>5, <2>6, <2>7 DEF Next, Ingest, User
<1> QED BY <1>1, <1>2, TypeCorrect, OwnersStatus, PTL DEF Spec

\* Whatever is in flight at an attach, rows never outlive their epoch: not in a
\* frame, not in what the engine holds, not on a client's screen.
THEOREM RowsOfTheirEpoch == Spec => []RowsAreOfTheirEpoch
<1>1. SyncInv => RowsAreOfTheirEpoch
  <2> SUFFICES ASSUME SyncInv, NEW c \in Conns
               PROVE  /\ subs[c].held.gen <= generation
                      /\ RowsOf(client[c].view, client[c].epoch)
                      /\ \A i \in DOMAIN outbox[c] : RowsOf(outbox[c][i].to, outbox[c][i].epoch)
    BY DEF RowsAreOfTheirEpoch
  <2>1. outbox[c] \in Seq(GoodFrames) /\ client[c] \in GoodClients
    BY DEF SyncInv
  <2>2. \A i \in DOMAIN outbox[c] : outbox[c][i] \in GoodFrames
    BY <2>1
  <2> QED BY <2>1, <2>2 DEF SyncInv, GoodFrames, GoodClients
<1> QED BY <1>1, InSync, PTL

\* Nothing is diffed across an epoch: a landing resets every window that an
\* earlier generation left behind.
THEOREM DiffsOfTheirEpoch == Spec => []DiffsStayInTheirEpoch
<1>1. SyncInv => DiffsStayInTheirEpoch
  <2> SUFFICES ASSUME SyncInv, NEW c \in Conns, NEW i \in DOMAIN outbox[c],
                      outbox[c][i].kind = "diff"
               PROVE  RowsOf(outbox[c][i].from, outbox[c][i].epoch)
    BY DEF DiffsStayInTheirEpoch
  <2>1. outbox[c] \in Seq(GoodFrames)
    BY DEF SyncInv
  <2>2. outbox[c][i] \in GoodFrames
    BY <2>1
  <2> QED BY <2>2 DEF GoodFrames
<1> QED BY <1>1, InSync, PTL

-----------------------------------------------------------------------------
(* Marks. *)

\* Where an ingest that has landed goes on to.
PastLanding == Landed \cup {"ended"}

\* A mark on its way, its lock released, goes to a fold that had landed when the
\* lock was held.
MarkInv ==
  /\ MarksReachOnlyLiveFolds
  /\ \A c \in Conns : job[c].op = "posting" /\ job[c].kind = "mark" => pc[job[c].at] \in PastLanding

\* A mark never reaches a fold still reading its history, although it is sent
\* after the lock under which the world was seen live: the door it was sent
\* through leads to that fold alone, and a fold that has landed can only end.
THEOREM MarksReachLive == Spec => []MarksReachOnlyLiveFolds
<1> DEFINE Told == TypeOK /\ DoorsBelongToOwner /\ StatusIsOwners
<1>1. Init => MarkInv
  BY DEF Init, MarkInv, MarksReachOnlyLiveFolds, Idle
<1>2. Told /\ MarkInv /\ [Next]_vars => MarkInv'
  <2> SUFFICES ASSUME Told, MarkInv, [Next]_vars PROVE MarkInv'
    OBVIOUS
  <2> USE BoundsAssumption
  <2>0. /\ job \in [Conns -> Jobs] /\ DOMAIN pc = Gens /\ door \in [Gens -> Seq(Posts)]
        /\ generation \in 0 .. MaxGen
    BY DEF TypeOK, WorldTypes, ConnTypes, FoldTypes
  <2>1. CASE Attach \/ UNCHANGED vars
    BY <2>1 DEF Attach, vars, connVars, foldVars, MarkInv, MarksReachOnlyLiveFolds
  <2>2. ASSUME NEW g \in Gens, Ingest(g) \/ SpawnFails(g) \/ IngestFails(g) PROVE MarkInv'
    <3>1. /\ \A h \in Gens \ {g} : pc'[h] = pc[h] /\ door'[h] = door[h]
          /\ pc[g] \in PastLanding => pc'[g] \in PastLanding
      BY <2>0, <2>2 DEF Ingest, StartIngest, SpawnFails, Preempted, ReportAttaching,
         ApplyHeldDefines, IngestFails, ServeAsks, ServeWrites, FoldBatch, TakePost, ResumeScan,
         ScanEnds, Land, TailPoll, PrepareViews, ServeViews, Ended, PastLanding, Landed
    <3>2. \/ door'[g] = <<>>
          \/ door'[g] = door[g] /\ (pc[g] \in Landed => pc'[g] \in Landed)
          \/ door[g] # <<>> /\ door'[g] = Tail(door[g]) /\ pc'[g] = pc[g]
      BY <2>0, <2>2 DEF Ingest, StartIngest, SpawnFails, Preempted, ReportAttaching,
         ApplyHeldDefines, IngestFails, ServeAsks, ServeWrites, FoldBatch, TakePost, ResumeScan,
         ScanEnds, Land, TailPoll, PrepareViews, ServeViews, Ended, Landed
    <3>3. ASSUME NEW i \in DOMAIN door'[g], door'[g][i].kind = "mark" PROVE pc'[g] \in Landed
      <4>1. CASE door'[g] = door[g] /\ (pc[g] \in Landed => pc'[g] \in Landed)
        BY <3>3, <4>1 DEF MarkInv, MarksReachOnlyLiveFolds
      <4>2. CASE door[g] # <<>> /\ door'[g] = Tail(door[g]) /\ pc'[g] = pc[g]
        <5>1. i + 1 \in DOMAIN door[g] /\ door'[g][i] = door[g][i + 1]
          BY <2>0, <3>3, <4>2
        <5> QED BY <3>3, <4>2, <5>1 DEF MarkInv, MarksReachOnlyLiveFolds
      <4> QED BY <3>2, <3>3, <4>1, <4>2
    <3>4. MarksReachOnlyLiveFolds'
      BY <3>1, <3>3 DEF MarkInv, MarksReachOnlyLiveFolds
    <3>5. ASSUME NEW c \in Conns, job'[c].op = "posting", job'[c].kind = "mark"
          PROVE  pc'[job'[c].at] \in PastLanding
      <4>1. job'[c] = job[c]
        BY <2>2, <3>5, IngestsSendNothing
      <4>2. job[c].at \in Gens /\ pc[job[c].at] \in PastLanding
        BY <2>0, <3>5, <4>1, JobTypes DEF MarkInv
      <4> QED BY <3>1, <4>1, <4>2
    <3> QED BY <3>4, <3>5 DEF MarkInv
  <2>3. ASSUME NEW c \in Conns, Connection(c) \/ User(c) \/ Subscribe(c) \/ Deliver(c)
        PROVE  MarkInv'
    <3>1. UNCHANGED <<pc, generation, status>>
      BY <2>3, ConnectionsStayAside DEF Aside
    <3>2. ASSUME NEW d \in Conns, job'[d].op = "posting", job'[d].kind = "mark"
          PROVE  pc[job'[d].at] \in PastLanding
      <4>1. CASE job'[d] = job[d]
        BY <3>2, <4>1 DEF MarkInv
      <4>2. CASE job'[d] # job[d]
        <5>1. writeTo # 0 /\ status = "live" /\ job'[d].at = writeTo
          BY <2>3, <3>2, <4>2, PostsAreSent
        <5>2. writeTo = generation /\ generation # 0 /\ status = PhaseOf(pc[generation])
          BY <5>1 DEF DoorsBelongToOwner, StatusIsOwners
        <5>3. pc[generation] \in Waking \cup Opening \cup Folding \cup Landed \cup {"ended"}
          BY <2>0, <5>2 DEF TypeOK, FoldTypes
        <5>4. pc[generation] \in Landed
          BY <5>1, <5>2, <5>3, Phases DEF Waking, Opening, Folding, Landed
        <5> QED BY <5>1, <5>2, <5>4 DEF PastLanding
      <4> QED BY <4>1, <4>2
    <3>3. CASE SendPost(c)
      <4> DEFINE g == job[c].at
                 p == [conn |-> c, kind |-> job[c].kind, id |-> job[c].id]
      <4>1. g \in Gens /\ job[c].op = "posting"
        BY <2>0, <3>3, JobTypes DEF SendPost
      <4>2. door' = door \/ (pc[g] # "ended" /\ door' = [door EXCEPT ![g] = Append(@, p)])
        BY <3>3 DEF SendPost
      <4>3. CASE door' = door
        BY <3>1, <3>2, <4>3 DEF MarkInv, MarksReachOnlyLiveFolds
      <4>4. CASE pc[g] # "ended" /\ door' = [door EXCEPT ![g] = Append(@, p)]
        <5>1. p.kind = "mark" => pc[g] \in Landed
          BY <4>1, <4>4 DEF MarkInv, PastLanding
        <5>2. ASSUME NEW h \in Gens, NEW i \in DOMAIN door'[h], door'[h][i].kind = "mark"
              PROVE  pc[h] \in Landed
          <6>1. CASE h = g
            <7> HIDE DEF p, g
            <7>1. door'[h] = Append(door[g], p) /\ door[g] \in Seq(Posts)
              BY <2>0, <4>1, <4>4, <6>1
            <7>2. (i \in DOMAIN door[g] /\ door'[h][i] = door[g][i]) \/ door'[h][i] = p
              BY <5>2, <7>1
            <7> QED BY <4>1, <5>1, <5>2, <6>1, <7>2 DEF MarkInv, MarksReachOnlyLiveFolds
          <6>2. CASE h # g
            BY <2>0, <4>1, <4>4, <5>2, <6>2 DEF MarkInv, MarksReachOnlyLiveFolds
          <6> QED BY <6>1, <6>2
        <5> QED BY <3>1, <3>2, <5>2 DEF MarkInv, MarksReachOnlyLiveFolds
      <4> QED BY <4>2, <4>3, <4>4
    <3>4. CASE ~SendPost(c)
      <4>1. UNCHANGED door
        BY <2>3, <3>4 DEF Connection, User, SendOpeningReset, Reply, GiveUp, Connect, Disconnect,
           OpenView, Unsubscribe, Post, Subscribe, Deliver, foldVars
      <4> QED BY <3>1, <3>2, <4>1 DEF MarkInv, MarksReachOnlyLiveFolds
    <3> QED BY <3>1, <3>2, <3>3, <3>4 DEF MarkInv
  <2> QED BY <2>1, <2>2, <2>3 DEF Next
<1>3. MarkInv => MarksReachOnlyLiveFolds
  BY DEF MarkInv
<1> QED BY <1>1, <1>2, <1>3, TypeCorrect, OwnersDoors, OwnersStatus, PTL DEF Spec

=============================================================================
