------------------------------- MODULE World -------------------------------
(***************************************************************************)
(* The engine process: the shared World (zengine/src/world.rs), one ingest *)
(* thread per accepted attach (ingest.rs) and one thread per connection    *)
(* (conn.rs, ops.rs), with the clients they talk to (EngineClient).        *)
(*                                                                         *)
(* An action is one critical section of World's mutex together with the    *)
(* thread-local work around it; whatever the code does with the lock       *)
(* released is a separate action, so other threads come in between.        *)
(* Generation g is epoch g + 1: both are bumped in the same section.       *)
(***************************************************************************)
EXTENDS EngineClient, Integers, Sequences, SequencesExt

CONSTANTS
  Conns,      \* the connections a client may hold open
  MaxGen,     \* attaches accepted in one run of the process
  MaxRev,     \* times one generation's fold moves its view source
  MaxIds,     \* request ids one connection spends on subscribing
  MaxDisc,    \* connections lost
  MaxPosts,   \* asks, defines and marks posted to a fold
  MaxQueue,   \* frames queued for a client when an optional progress frame is due
  Kinds       \* which of "ask", "define" and "mark" are posted

ASSUME BoundsAssumption ==
  /\ MaxGen \in Nat /\ MaxRev \in Nat /\ MaxIds \in Nat
  /\ MaxDisc \in Nat /\ MaxPosts \in Nat /\ MaxQueue \in Nat
  /\ Kinds \subseteq {"ask", "define", "mark"}

Gens == 1 .. MaxGen

VARIABLES
  epoch, generation,  \* World: the announced epoch and the ownership token
  status,             \* World: what session.health answers
  folded,             \* World: the fold's mark, as its owner last reported it
  defines,            \* World: the latest define pushed (its ordinal)
  asks, writeTo,      \* World: the generation whose door is installed, or 0
  listeners,          \* World: connections joined
  subs,               \* World: Listener.subscriptions, one per connection
  outbox,             \* connection -> frames queued for its client
  job,                \* connection -> what its thread is in the middle of
  pc,                 \* generation -> where its ingest thread stands
  rev,                \* generation -> how far its fold's view source moved
  taken,              \* generation -> the define its fold was last given
  prepared,           \* generation -> the serve pass built the source
  door,               \* generation -> posts waiting in its channel
  client,             \* connection -> the client's record
  nextId, posts, lost,\* ids spent, posts made, connections lost
  overtaken           \* connections whose opening reset a served frame overtook

worldVars == <<epoch, generation, status, folded, defines, asks, writeTo>>
connVars == <<listeners, subs, outbox, job, overtaken>>
foldVars == <<pc, rev, taken, prepared, door>>
clientVars == <<client, nextId, posts, lost>>
vars == <<worldVars, connVars, foldVars, clientVars>>

NoSub == [id |-> 0, held |-> Owed, rev |-> -1]
Idle == [op |-> "idle", kind |-> "none", id |-> 0, at |-> 0]
Job(op, kind, id, at) == [op |-> op, kind |-> kind, id |-> id, at |-> at]

Owns(g) == generation = g

\* One frame to every connection that is still open.
Broadcast(m) ==
  [c \in Conns |-> IF c \in listeners THEN Append(outbox[c], m) ELSE outbox[c]]

Init ==
  /\ epoch = 1 /\ generation = 0 /\ status = "idle" /\ folded = 0
  /\ defines = 0 /\ asks = 0 /\ writeTo = 0
  /\ listeners = {} /\ overtaken = {}
  /\ subs = [c \in Conns |-> NoSub]
  /\ outbox = [c \in Conns |-> <<>>]
  /\ job = [c \in Conns |-> Idle]
  /\ pc = [g \in Gens |-> "none"]
  /\ rev = [g \in Gens |-> 0]
  /\ taken = [g \in Gens |-> 0]
  /\ prepared = [g \in Gens |-> FALSE]
  /\ door = [g \in Gens |-> <<>>]
  /\ client = [c \in Conns |-> [NewClient EXCEPT !.open = TRUE]]
  /\ nextId = [c \in Conns |-> 1]
  /\ posts = 0 /\ lost = 0

-----------------------------------------------------------------------------
(* Connections and subscriptions. *)

\* join and the handshake; the client reaches "ready".
Connect(c) ==
  /\ c \notin listeners
  /\ listeners' = listeners \cup {c}
  /\ client' = [client EXCEPT ![c] = AttachTransport(@)]
  /\ UNCHANGED <<worldVars, subs, outbox, job, overtaken, foldVars, nextId, posts, lost>>

\* The socket ends while its thread waits for a request: frames on the wire
\* are gone and leave takes the subscriptions with it.
Disconnect(c) ==
  /\ c \in listeners /\ job[c] = Idle /\ lost < MaxDisc
  /\ lost' = lost + 1
  /\ listeners' = listeners \ {c}
  /\ subs' = [subs EXCEPT ![c] = NoSub]
  /\ outbox' = [outbox EXCEPT ![c] = <<>>]
  /\ overtaken' = overtaken \ {c}
  /\ client' = [client EXCEPT ![c] = FailConnection(@)]
  /\ UNCHANGED <<worldVars, job, foldVars, nextId, posts>>

OpenView(c) ==
  /\ ~client[c].open /\ nextId[c] <= MaxIds
  /\ client' = [client EXCEPT ![c].open = TRUE, ![c].view = LOADING]
  /\ UNCHANGED <<worldVars, connVars, foldVars, nextId, posts, lost>>

\* view.subscribe reaches the connection's thread (openOnWire, also under
\* resubscribeAll): open_subscription registers it, owing a reset, and reads
\* the epoch its own reset will name.
Subscribe(c) ==
  /\ c \in listeners /\ job[c] = Idle
  /\ client[c].open /\ client[c].id = 0 /\ nextId[c] <= MaxIds
  /\ nextId' = [nextId EXCEPT ![c] = @ + 1]
  /\ client' = [client EXCEPT ![c].id = nextId[c]]
  /\ subs' = [subs EXCEPT ![c] = [NoSub EXCEPT !.id = nextId[c]]]
  /\ job' = [job EXCEPT ![c] = Job("opening", "none", nextId[c], epoch)]
  /\ overtaken' = overtaken \ {c}
  /\ UNCHANGED <<worldVars, listeners, outbox, foldVars, posts, lost>>

\* ...and, the lock released, the ack and the empty reset go out.
SendOpeningReset(c) ==
  /\ job[c].op = "opening"
  /\ outbox' = [outbox EXCEPT ![c] = Append(@, ResetMessage(job[c].id, job[c].at, Empty))]
  /\ job' = [job EXCEPT ![c] = Idle]
  /\ UNCHANGED <<worldVars, listeners, subs, overtaken, foldVars, clientVars>>

\* ViewHandle.close and close_subscription.
Unsubscribe(c) ==
  /\ c \in listeners /\ job[c] = Idle /\ client[c].id # 0
  /\ client' = [client EXCEPT ![c] = [@ EXCEPT !.open = FALSE, !.id = 0, !.view = LOADING]]
  /\ subs' = [subs EXCEPT ![c] = NoSub]
  /\ overtaken' = overtaken \ {c}
  /\ UNCHANGED <<worldVars, listeners, outbox, job, foldVars, nextId, posts, lost>>

\* The socket delivers the oldest frame.
Deliver(c) ==
  /\ outbox[c] # <<>>
  /\ client' = [client EXCEPT ![c] = Receive(@, Head(outbox[c]))]
  /\ outbox' = [outbox EXCEPT ![c] = Tail(@)]
  /\ UNCHANGED <<worldVars, listeners, subs, job, overtaken, foldVars, nextId, posts, lost>>

-----------------------------------------------------------------------------
(* session.attach. *)

\* Mutant: the write door survives the bump.
AttachKeepsWriteDoor ==
  /\ generation < MaxGen
  /\ epoch' = epoch + 1
  /\ generation' = generation + 1
  /\ status' = "starting"
  /\ folded' = 0
  /\ asks' = 0 /\ UNCHANGED writeTo
  /\ outbox' = Broadcast(EpochMessage(epoch + 1))
  /\ UNCHANGED <<defines, listeners, subs, job, overtaken, foldVars, clientVars>>

\* One section of whichever connection's thread serves the op: the bump strips
\* the running ingest of the world, empties the world of its fold, closes both
\* doors and is announced.  Subscriptions keep what they hold until the landing
\* resets them.
Attach ==
  /\ generation < MaxGen
  /\ epoch' = epoch + 1
  /\ generation' = generation + 1
  /\ status' = "starting"
  /\ folded' = 0
  /\ asks' = 0 /\ writeTo' = 0
  /\ outbox' = Broadcast(EpochMessage(epoch + 1))
  /\ UNCHANGED <<defines, listeners, subs, job, overtaken, foldVars, clientVars>>

\* Mutant: a fold that died says so whoever owns the world by then.
ReportIdleUnasked(g) == status' = "idle" /\ asks' = 0 /\ writeTo' = 0

\* report_idle: there is no fold any more.
ReportIdle(g) ==
  IF Owns(g)
  THEN status' = "idle" /\ asks' = 0 /\ writeTo' = 0
  ELSE UNCHANGED <<status, asks, writeTo>>

\* The same thread goes on, outside the section, to start the ingest thread.
StartIngest(g) ==
  /\ pc[g] = "none" /\ g <= generation
  /\ pc' = [pc EXCEPT ![g] = "spawned"]
  /\ UNCHANGED <<worldVars, connVars, rev, taken, prepared, door, clientVars>>

\* Mutant: a thread that could not be started is reported to nobody.
SpawnFailsSilently(g) ==
  /\ pc[g] = "none" /\ g <= generation
  /\ pc' = [pc EXCEPT ![g] = "ended"]
  /\ UNCHANGED <<worldVars, connVars, rev, taken, prepared, door, clientVars>>

SpawnFails(g) ==
  /\ pc[g] = "none" /\ g <= generation
  /\ pc' = [pc EXCEPT ![g] = "ended"]
  /\ ReportIdle(g)
  /\ UNCHANGED <<epoch, generation, folded, defines, connVars, rev, taken, prepared, door,
                 clientVars>>

-----------------------------------------------------------------------------
(* One ingest thread, in the order of ingest::run. *)

\* The thread of g returns: its channel, and every post still in it, is dropped.
Ended(g) == /\ pc' = [pc EXCEPT ![g] = "ended"]
            /\ door' = [door EXCEPT ![g] = <<>>]

\* Wherever ownership is asked and found gone, nothing is written and the
\* turn ends.
Preempted(g) ==
  /\ ~Owns(g)
  /\ pc[g] \in {"spawned", "opened", "asking", "scan", "prepared", "tail", "serving"}
  /\ Ended(g)
  /\ UNCHANGED <<worldVars, connVars, rev, taken, prepared, clientVars>>

ReportAttaching(g) ==
  /\ pc[g] = "spawned" /\ Owns(g)
  /\ status' = "attaching"
  /\ pc' = [pc EXCEPT ![g] = "attaching"]
  /\ UNCHANGED <<epoch, generation, folded, defines, asks, writeTo, connVars, rev, taken,
                 prepared, door, clientVars>>

\* The sink is built and held_defines applied to it.
ApplyHeldDefines(g) ==
  /\ pc[g] = "attaching"
  /\ taken' = [taken EXCEPT ![g] = defines]
  /\ pc' = [pc EXCEPT ![g] = "opened"]
  /\ UNCHANGED <<worldVars, connVars, rev, prepared, door, clientVars>>

\* An unreadable log, or a panic anywhere: the thread ends in report_idle.
IngestFails(g) ==
  /\ pc[g] \in {"attaching", "opened", "scan", "answering", "prepared", "tail", "polled", "serving"}
  /\ Ended(g)
  /\ ReportIdle(g)
  /\ UNCHANGED <<epoch, generation, folded, defines, connVars, rev, taken, prepared, clientVars>>

\* File::open succeeded; report_status(Folding) and then serve_asks.
ServeAsks(g) ==
  /\ pc[g] = "opened" /\ Owns(g)
  /\ status' = "folding"
  /\ asks' = g
  /\ pc' = [pc EXCEPT ![g] = "asking"]
  /\ UNCHANGED <<epoch, generation, folded, defines, writeTo, connVars, rev, taken, prepared,
                 door, clientVars>>

ServeWrites(g) ==
  /\ pc[g] = "asking" /\ Owns(g)
  /\ writeTo' = g
  /\ pc' = [pc EXCEPT ![g] = "scan"]
  /\ UNCHANGED <<epoch, generation, status, folded, defines, asks, connVars, rev, taken,
                 prepared, door, clientVars>>

\* Mutant: the mark is one past the last complete line.
ReportProgressPastEnd(g) ==
  /\ folded' = rev'[g] + 1
  /\ outbox' = Broadcast(EpochMessage(epoch))

\* report_progress: the mark, and a frame naming the epoch to everybody.
ReportProgress(g) ==
  /\ folded' = rev'[g]
  /\ outbox' = Broadcast(EpochMessage(epoch))

\* The cadence allows a frame.
Due == \A c \in Conns : Len(outbox[c]) < MaxQueue

MaybeReportProgress(g) ==
  \/ Due /\ ReportProgress(g)
  \/ UNCHANGED <<folded, outbox>>

\* One batch of the log is folded and, at the slice boundary, ownership asked.
FoldBatch(g) ==
  /\ pc[g] = "scan" /\ Owns(g)
  /\ rev[g] < MaxRev /\ rev' = [rev EXCEPT ![g] = @ + 1]
  /\ MaybeReportProgress(g)
  /\ pc' = [pc EXCEPT ![g] = "answering"]
  /\ UNCHANGED <<epoch, generation, status, defines, asks, writeTo, listeners, subs, job,
                 overtaken, taken, prepared, door, clientVars>>

\* answer_asks and answer_writes: everything posted, oldest first, with no
\* second look at who owns the world.  The poster's wait, if it still waits for
\* this answer, is over.
TakePost(g) ==
  LET p == Head(door[g])
  IN  /\ pc[g] \in {"answering", "polled"} /\ door[g] # <<>>
      /\ door' = [door EXCEPT ![g] = Tail(@)]
      /\ taken' = [taken EXCEPT ![g] = IF p.kind = "define" THEN p.id ELSE @]
      /\ job' = [job EXCEPT ![p.conn] =
                   IF @.op = "waiting" /\ @.id = p.id THEN [@ EXCEPT !.op = "answered"] ELSE @]
      /\ UNCHANGED <<worldVars, listeners, subs, outbox, overtaken, pc, rev, prepared, clientVars>>

ResumeScan(g) ==
  /\ pc[g] = "answering" /\ door[g] = <<>>
  /\ pc' = [pc EXCEPT ![g] = "scan"]
  /\ UNCHANGED <<worldVars, connVars, rev, taken, prepared, door, clientVars>>

\* prepare: a short look at who subscribes and at what revision.  A landing
\* forces the build; otherwise a source is built when a reset is owed on it
\* or a revision moved.
Subscribed == {c \in listeners : subs[c].id # 0}

\* Mutant: a moved revision is no reason to build.
NeededOnlyWhenOwed(g, force) ==
  \E c \in Subscribed : force \/ subs[c].held = Owed

Needed(g, force) ==
  \E c \in Subscribed : force \/ subs[c].held = Owed \/ subs[c].rev # rev[g]

\* The file is exhausted: the final measurement, which asks no cadence, and
\* the sources of the landing are built.
ScanEnds(g) ==
  /\ pc[g] = "scan" /\ Owns(g)
  /\ UNCHANGED rev /\ ReportProgress(g)
  /\ prepared' = [prepared EXCEPT ![g] = Needed(g, TRUE)]
  /\ pc' = [pc EXCEPT ![g] = "prepared"]
  /\ UNCHANGED <<epoch, generation, status, defines, asks, writeTo, listeners, subs, job,
                 overtaken, taken, door, clientVars>>

\* serve: what one subscription is sent, and what the engine then holds of it.
Skipped(c, g, resetAll) ==
  \/ c \notin Subscribed
  \/ ~resetAll /\ subs[c].held # Owed /\ subs[c].rev = rev[g]

\* Mutant: what is owed a reset is diffed against nothing.
ServedDiffsOwed(c, g, resetAll) ==
  IF resetAll
  THEN <<ResetMessage(subs[c].id, epoch, Rows(g, rev[g]))>>
  ELSE <<DiffMessage(subs[c].id, epoch, subs[c].held, Rows(g, rev[g]))>>

Served(c, g, resetAll) ==
  LET rows == Rows(g, rev[g])
  IN  IF resetAll \/ subs[c].held = Owed
      THEN <<ResetMessage(subs[c].id, epoch, rows)>>
      ELSE IF subs[c].held = rows THEN <<>>
      ELSE <<DiffMessage(subs[c].id, epoch, subs[c].held, rows)>>

\* Mutant: a frame is cut and pushed but the held window is not replaced.
ServeForgetsHeld(g, resetAll) ==
  LET served == {c \in Conns : ~Skipped(c, g, resetAll)}
  IN  /\ outbox' = [c \in Conns |-> IF c \in served
                                    THEN outbox[c] \o Served(c, g, resetAll)
                                    ELSE outbox[c]]
      /\ subs' = [c \in Conns |-> IF c \in served
                                  THEN [subs[c] EXCEPT !.held = IF @ = Owed THEN Rows(g, rev[g]) ELSE @,
                                                       !.rev = rev[g]]
                                  ELSE subs[c]]
      /\ UNCHANGED overtaken

Serve(g, resetAll) ==
  LET served == {c \in Conns : ~Skipped(c, g, resetAll)}
  IN  /\ outbox' = [c \in Conns |-> IF c \in served
                                    THEN outbox[c] \o Served(c, g, resetAll)
                                    ELSE outbox[c]]
      /\ subs' = [c \in Conns |-> IF c \in served
                                  THEN [subs[c] EXCEPT !.held = Rows(g, rev[g]), !.rev = rev[g]]
                                  ELSE subs[c]]
      /\ overtaken' = (overtaken \ (IF resetAll THEN served ELSE {}))
                        \cup {c \in served : job[c].op = "opening" /\ job[c].at = epoch}

ServeIfPrepared(g, resetAll) ==
  IF prepared[g] THEN Serve(g, resetAll) ELSE UNCHANGED <<outbox, subs, overtaken>>

\* Mutant: a landing serves what moved instead of resetting everything.
LandWithoutReset(g) ==
  /\ pc[g] = "prepared" /\ Owns(g)
  /\ status' = "live"
  /\ folded' = rev[g]
  /\ ServeIfPrepared(g, FALSE)
  /\ pc' = [pc EXCEPT ![g] = "tail"]
  /\ UNCHANGED <<epoch, generation, defines, asks, writeTo, listeners, job, rev, taken,
                 prepared, door, clientVars>>

\* report_fold_landed.
Land(g) ==
  /\ pc[g] = "prepared" /\ Owns(g)
  /\ status' = "live"
  /\ folded' = rev[g]
  /\ ServeIfPrepared(g, TRUE)
  /\ pc' = [pc EXCEPT ![g] = "tail"]
  /\ UNCHANGED <<epoch, generation, defines, asks, writeTo, listeners, job, rev, taken,
                 prepared, door, clientVars>>

\* The tail loop, and the naps inside it: ownership asked, a poll folded, its
\* progress announced at a cadence...
TailPoll(g) ==
  /\ pc[g] = "tail" /\ Owns(g)
  /\ \/ /\ rev[g] < MaxRev /\ rev' = [rev EXCEPT ![g] = @ + 1]
        /\ MaybeReportProgress(g)
     \/ UNCHANGED <<rev, folded, outbox>>
  /\ pc' = [pc EXCEPT ![g] = "polled"]
  /\ UNCHANGED <<epoch, generation, status, defines, asks, writeTo, listeners, subs, job,
                 overtaken, taken, prepared, door, clientVars>>

\* ...whatever was posted answered (TakePost), and the moved or owed source
\* built, both without a look at who owns the world...
PrepareViews(g) ==
  /\ pc[g] = "polled" /\ door[g] = <<>>
  /\ prepared' = [prepared EXCEPT ![g] = Needed(g, FALSE)]
  /\ pc' = [pc EXCEPT ![g] = "serving"]
  /\ UNCHANGED <<worldVars, connVars, rev, taken, door, clientVars>>

\* Mutant: ownership is not asked again between the build and the push.
ServeViewsUnasked(g) ==
  /\ pc[g] = "serving"
  /\ ServeIfPrepared(g, FALSE)
  /\ pc' = [pc EXCEPT ![g] = "tail"]
  /\ UNCHANGED <<worldVars, listeners, job, rev, taken, prepared, door, clientVars>>

\* ...and the frames cut and pushed under the lock.
ServeViews(g) ==
  /\ pc[g] = "serving" /\ Owns(g)
  /\ ServeIfPrepared(g, FALSE)
  /\ pc' = [pc EXCEPT ![g] = "tail"]
  /\ UNCHANGED <<worldVars, listeners, job, rev, taken, prepared, door, clientVars>>

-----------------------------------------------------------------------------
(* The doors: module.snapshot and its siblings, *.define, session.mark. *)

\* Mutant: a mark goes to whatever fold has a door, live or not.
PostUngated(c, kind) ==
  LET way == IF kind = "ask" THEN asks ELSE writeTo
  IN  /\ c \in listeners /\ job[c] = Idle /\ posts < MaxPosts /\ kind \in Kinds
      /\ posts' = posts + 1
      /\ defines' = IF kind = "define" THEN posts + 1 ELSE defines
      /\ job' = IF way = 0 THEN job
                ELSE [job EXCEPT ![c] = Job("posting", kind, posts + 1, way)]
      /\ UNCHANGED <<epoch, generation, status, folded, asks, writeTo, listeners, subs, outbox,
                     overtaken, foldVars, client, nextId, lost>>

\* The way in is copied under the lock.  A define is recorded first; a mark
\* asks that the world be live; with no door there is nothing to wait for.
Post(c, kind) ==
  LET way == IF kind = "ask" THEN asks ELSE writeTo
  IN  /\ c \in listeners /\ job[c] = Idle /\ posts < MaxPosts /\ kind \in Kinds
      /\ posts' = posts + 1
      /\ defines' = IF kind = "define" THEN posts + 1 ELSE defines
      /\ job' = IF way = 0 \/ (kind = "mark" /\ status # "live")
                THEN job
                ELSE [job EXCEPT ![c] = Job("posting", kind, posts + 1, way)]
      /\ UNCHANGED <<epoch, generation, status, folded, asks, writeTo, listeners, subs, outbox,
                     overtaken, foldVars, client, nextId, lost>>

\* Mutant: a send to a channel nobody reads is taken for a success.
SendPostAnyway(c) ==
  LET g == job[c].at
  IN  /\ job[c].op = "posting"
      /\ job' = [job EXCEPT ![c].op = "waiting"]
      /\ door' = [door EXCEPT ![g] =
                    Append(@, [conn |-> c, kind |-> job[c].kind, id |-> job[c].id])]
      /\ UNCHANGED <<worldVars, listeners, subs, outbox, overtaken, pc, rev, taken, prepared,
                     clientVars>>

\* The lock released, the post is sent; a channel with no receiver refuses it.
SendPost(c) ==
  LET g == job[c].at
  IN  /\ job[c].op = "posting"
      /\ IF pc[g] = "ended"
         THEN job' = [job EXCEPT ![c] = Idle] /\ UNCHANGED door
         ELSE /\ job' = [job EXCEPT ![c].op = "waiting"]
              /\ door' = [door EXCEPT ![g] =
                            Append(@, [conn |-> c, kind |-> job[c].kind, id |-> job[c].id])]
      /\ UNCHANGED <<worldVars, listeners, subs, outbox, overtaken, pc, rev, taken, prepared,
                     clientVars>>

\* The answer came: the reply goes out on the connection's own queue.
Reply(c) ==
  /\ job[c].op = "answered"
  /\ outbox' = [outbox EXCEPT ![c] = Append(@, Answer(job[c].at + 1))]
  /\ job' = [job EXCEPT ![c] = Idle]
  /\ UNCHANGED <<worldVars, listeners, subs, overtaken, foldVars, clientVars>>

\* The fold ended under the wait, or SNAPSHOT_PATIENCE passed: a refusal.  The
\* post stays in the channel and is still applied.
GiveUp(c) ==
  /\ job[c].op = "waiting"
  /\ job' = [job EXCEPT ![c] = Idle]
  /\ UNCHANGED <<worldVars, listeners, subs, outbox, overtaken, foldVars, clientVars>>

-----------------------------------------------------------------------------
Ingest(g) ==
  \/ StartIngest(g) \/ Preempted(g) \/ ReportAttaching(g) \/ ApplyHeldDefines(g)
  \/ ServeAsks(g) \/ ServeWrites(g) \/ FoldBatch(g) \/ TakePost(g)
  \/ ResumeScan(g) \/ ScanEnds(g) \/ Land(g) \/ TailPoll(g) \/ PrepareViews(g) \/ ServeViews(g)

Connection(c) ==
  SendOpeningReset(c) \/ SendPost(c) \/ Reply(c) \/ GiveUp(c)

User(c) ==
  \/ Connect(c) \/ Disconnect(c) \/ OpenView(c) \/ Unsubscribe(c)
  \/ \E kind \in Kinds : Post(c, kind)

Next ==
  \/ Attach
  \/ \E g \in Gens : Ingest(g) \/ SpawnFails(g) \/ IngestFails(g)
  \/ \E c \in Conns : Connection(c) \/ User(c) \/ Subscribe(c) \/ Deliver(c)

Spec == Init /\ [][Next]_vars

\* Threads run, patience runs out and sockets deliver; nobody has to attach,
\* open, ask or fail.
Fairness ==
  /\ \A g \in Gens : WF_vars(Ingest(g))
  /\ \A c \in Conns : /\ WF_vars(Connection(c))
                      /\ WF_vars(Subscribe(c))
                      /\ WF_vars(Deliver(c))

FairSpec == Spec /\ Fairness

-----------------------------------------------------------------------------
(* Properties. *)

SubIds == 0 .. MaxIds
Epochs == 0 .. MaxGen + 1
Windows == [is : {"loading", "rows", "parted", "owed"}, gen : 0 .. MaxGen, rev : 0 .. MaxRev]
Frames == [kind : {"epoch", "reset", "diff", "answer"}, id : SubIds, epoch : Epochs,
           from : Windows, to : Windows]
Clients == [epoch : Epochs, open : BOOLEAN, id : SubIds, view : Windows]
Subs == [id : SubIds, held : Windows, rev : -1 .. MaxRev]
Posted == [op : {"posting", "waiting", "answered"}, kind : Kinds, id : 1 .. MaxPosts, at : Gens]
Opened == [op : {"opening"}, kind : {"none"}, id : 1 .. MaxIds, at : 1 .. MaxGen + 1]
Jobs == {Idle} \cup Opened \cup Posted
Posts == [conn : Conns, kind : Kinds, id : 1 .. MaxPosts]

Waking == {"none", "spawned"}
Opening == {"attaching", "opened"}
Folding == {"asking", "scan", "answering", "prepared"}
Landed == {"tail", "polled", "serving"}

WorldTypes ==
  /\ generation \in 0 .. MaxGen /\ epoch = generation + 1
  /\ status \in {"idle", "starting", "attaching", "folding", "live"}
  /\ folded \in 0 .. MaxRev /\ defines \in 0 .. MaxPosts
  /\ asks \in 0 .. MaxGen /\ writeTo \in 0 .. MaxGen

ConnTypes ==
  /\ listeners \subseteq Conns /\ overtaken \subseteq Conns
  /\ subs \in [Conns -> Subs]
  /\ outbox \in [Conns -> Seq(Frames)]
  /\ job \in [Conns -> Jobs]

FoldTypes ==
  /\ pc \in [Gens -> Waking \cup Opening \cup Folding \cup Landed \cup {"ended"}]
  /\ rev \in [Gens -> 0 .. MaxRev]
  /\ taken \in [Gens -> 0 .. MaxPosts]
  /\ prepared \in [Gens -> BOOLEAN]
  /\ door \in [Gens -> Seq(Posts)]

ClientTypes ==
  /\ client \in [Conns -> Clients]
  /\ nextId \in [Conns -> 1 .. MaxIds + 1]
  /\ posts \in 0 .. MaxPosts /\ lost \in 0 .. MaxDisc

\* Every variable stays in the set its Rust or TypeScript type describes, and the
\* epoch and the ownership token never disagree.
TypeOK == WorldTypes /\ ConnTypes /\ FoldTypes /\ ClientTypes

\* What health answers is the phase of the ingest that owns the world, and the
\* mark beside it never runs ahead of that ingest's fold: no preempted or failed
\* turn gets a word in after the bump (State, the report_* calls, report_idle).
PhaseOf(p) ==
  CASE p \in Waking -> "starting"
    [] p \in Opening -> "attaching"
    [] p \in Folding -> "folding"
    [] p \in Landed -> "live"
    [] p = "ended" -> "idle"

StatusIsOwners ==
  generation # 0 => /\ status = PhaseOf(pc[generation])
                    /\ folded <= rev[generation]

\* An installed door leads to the fold that owns the world; a post is only ever
\* sent through the door of the generation its poster saw (State.asks, write_to).
DoorsBelongToOwner ==
  /\ asks \in {0, generation} /\ writeTo \in {0, generation}
  /\ \A c \in Conns : job[c].op = "posting" => job[c].at \in 1 .. generation

\* Rows never outlive their epoch: a frame carries rows of the generation whose
\* epoch it names, the engine holds rows of no later generation, and a client
\* draws rows of the epoch it last noted, whatever was in flight at an attach.
RowsOf(w, e) == w.is = "rows" /\ w # Empty => w.gen + 1 = e

RowsAreOfTheirEpoch ==
  \A c \in Conns : /\ subs[c].held.gen <= generation
                   /\ RowsOf(client[c].view, client[c].epoch)
                   /\ \A i \in DOMAIN outbox[c] : RowsOf(outbox[c][i].to, outbox[c][i].epoch)

\* A diff is only ever cut between two windows of one generation: the landing
\* resets everything, so nothing is diffed across an epoch (views/diff.rs, rule 1).
DiffsStayInTheirEpoch ==
  \A c \in Conns : \A i \in DOMAIN outbox[c] :
    outbox[c][i].kind = "diff" => RowsOf(outbox[c][i].from, outbox[c][i].epoch)

\* What makes the four inductive: an ingest that was never attached has done
\* nothing; only an open subscription holds rows; after a landing every window
\* the engine holds is of the landed generation, because a landing that built no
\* source found no subscription and every later one opens owing a reset.
UnattachedIsUntouched ==
  \A g \in Gens : g > generation => pc[g] = "none" /\ rev[g] = 0

OnlyOpenSubsHold ==
  \A c \in Conns : c \notin listeners \/ subs[c].id = 0 => subs[c].held = Owed

HeldIsLanded ==
  generation # 0 =>
    /\ pc[generation] = "prepared" /\ ~prepared[generation] =>
         \A c \in Conns : subs[c].held = Owed
    /\ pc[generation] \in Landed => \A c \in Conns : RowsOf(subs[c].held, epoch)

WorldInv ==
  /\ StatusIsOwners /\ DoorsBelongToOwner /\ RowsAreOfTheirEpoch /\ DiffsStayInTheirEpoch
  /\ UnattachedIsUntouched /\ OnlyOpenSubsHold /\ HeldIsLanded

\* Once everything on the wire has arrived, a client of a landed fold draws
\* exactly the window the engine holds for it, so the next diff applies; the
\* exception is a subscription whose opening reset was overtaken.
Drained(c) == FoldLeft(Receive, client[c], outbox[c])

InStep(c) ==
  LET drawn == Drained(c)
  IN  /\ drawn.view.is # "parted"
      /\ (/\ drawn.id = subs[c].id /\ drawn.id # 0
          /\ subs[c].held # Owed
          /\ generation # 0 /\ pc[generation] \in Landed)
         => drawn.view = subs[c].held /\ drawn.epoch = epoch

WindowsInStep ==
  \A c \in listeners \ overtaken : job[c].op # "opening" => InStep(c)

\* views/diff.rs and world.rs promise it of every subscription, without the
\* exception.
EveryDiffApplies == \A c \in listeners : Drained(c).view.is # "parted"

\* A turn that lost the world writes nothing: a step of an ingest thread that no
\* longer owns it leaves the world and every connection's frames alone.
LoserWritesNothing ==
  [][\A g \in Gens :
       g # generation /\ <<pc[g], rev[g], taken[g], prepared[g]>>
                           # <<pc[g], rev[g], taken[g], prepared[g]>>'
       => UNCHANGED <<worldVars, listeners, subs, outbox>>]_vars

\* A reader is never answered by a generation the world has already replaced.
NoDisownedAnswer ==
  [][\A c \in Conns : job[c].op = "waiting" /\ job'[c].op = "answered"
                      => Owns(job[c].at)]_vars

\* An idle world's open write door has nothing older behind it: with no define
\* on its way, the fold taking writes has the define the world last recorded.
LatestDefineIsTaken ==
  writeTo # 0 /\ door[writeTo] = <<>> /\ (\A c \in Conns : job[c] = Idle)
  => taken[writeTo] = defines

\* session_mark's gate and the doors together: a mark waits only in the channel
\* of a fold that has landed, never in one still reading its history.
MarksReachOnlyLiveFolds ==
  \A g \in Gens : \A i \in DOMAIN door[g] :
    door[g][i].kind = "mark" => pc[g] \in Landed

\* Whatever reached a fold's channel is answered or dropped with the fold: no
\* post is left in a channel nobody reads (ask_fold's "has ended").
PostsAreDrained == \A g \in Gens : door[g] # <<>> ~> door[g] = <<>>

\* An accepted attach ends: live, idle after a failure, or replaced by another.
AttachSettles ==
  \A g \in Gens : generation = g ~> (generation > g \/ status \in {"live", "idle"})

\* A view that stays mounted on a connection that stays up, over a fold that
\* stays live, ends up drawing that fold's current rows, whichever resubscribe,
\* landing, reset or diff brought them.
Watching(c) ==
  /\ generation # 0 /\ status = "live"
  /\ c \in listeners \ overtaken
  /\ client[c].open /\ (client[c].id # 0 \/ nextId[c] <= MaxIds)

WindowsConverge ==
  \A c \in Conns :
    <>[]Watching(c)
    => <>[](generation # 0 /\ client[c].view = Rows(generation, rev[generation]))

=============================================================================
