------------------------------ MODULE ClientHost ------------------------------
(***************************************************************************)
(* The app as a client of its own engine                                   *)
(* (src/main/dataServer/engineClientHost.ts, with foldWait.ts,             *)
(* artifactOwner.ts and the question readShim.ts asks): one connection per *)
(* launch, one turn per event that replaces the world, every turn asking   *)
(* after each await whether it is still the one.                           *)
(*                                                                         *)
(* The process is single-threaded: a continuation whose promise settled    *)
(* runs before the next timer, socket or user event (AllResumed guards     *)
(* those), while several frames of one chunk may be taken in a row.  The   *)
(* engine at the other end of the socket answers one request at a time.    *)
(***************************************************************************)
EXTENDS EngineConnection, Integers, FiniteSets

CONSTANTS
  Logs,          \* the character logs a player may pick
  DefineOps,     \* how many define ops a turn pushes before an attach (5)
  RefusalLimit,  \* FOLD_REFUSAL_LIMIT: refusals in a row that end a wait (3)
  MaxTurns,      \* times the world is replaced
  MaxLaunches,   \* engines that become ready
  MaxReads,      \* reads asked
  MaxPolls,      \* polls of one turn answered "folding"
  MaxUpsets,     \* preferences written, sockets and folds lost, and deadlines that came
                 \* too early, together
  MaxIds         \* the request ids whose settlement is claimed

ASSUME HostAssumption ==
  /\ None \notin Logs
  /\ DefineOps \in Nat \ {0} /\ RefusalLimit \in Nat \ {0}
  /\ MaxTurns \in Nat /\ MaxLaunches \in Nat /\ MaxReads \in Nat
  /\ MaxPolls \in Nat /\ MaxUpsets \in Nat /\ MaxIds \in Nat

Turns == 1 .. MaxTurns
Reader == 0
Askers == Turns \cup {Reader}   \* who may be awaiting an answer

VARIABLES
  gen,         \* the turn
  world,       \* tsWorldPath: the log the app's world was last rebuilt for
  active,      \* getActiveCharacter()'s log
  live,        \* the turn that made LiveEngine, 0 when there is none
  attachedTo,  \* LiveEngine.attachedTo
  liveOn,      \* engineLiveOn: the log the engine was observed live on
  owner,       \* artifactOwner.ts: who persists the artifacts
  stopped,     \* stopEngineClient was called
  conn,        \* LiveEngine.client's connection
  turn,        \* turn -> where its continuation stands
  await,       \* asker -> the request it awaits, and what came of it
  engine,      \* the engine of this launch, as its requests left it
  prefs,       \* how often the app's own knowledge changed
  read,        \* the latest read the shim let through
  spent        \* how much of the bounds is used up

hostVars == <<gen, world, active, live, attachedTo, liveOn, owner, stopped>>
vars == <<hostVars, conn, turn, await, engine, prefs, read, spent>>

NoTurn == [pc |-> "none", target |-> None, left |-> 0, refusals |-> 0, polls |-> 0]
NoWait == [id |-> 0, got |-> Unanswered]
Untold == -1

\* An engine that was just spawned: no log, no defines, no state directory.
NewEngine == [log |-> None, status |-> "idle", landed |-> FALSE, define |-> Untold, told |-> FALSE]

Init ==
  /\ gen = 0 /\ world = None /\ active \in Logs \cup {None}
  /\ live = 0 /\ attachedTo = None /\ liveOn = None /\ owner = "app" /\ stopped = FALSE
  /\ conn = NewConnection
  /\ turn = [g \in Turns |-> NoTurn]
  /\ await = [a \in Askers |-> NoWait]
  /\ engine = NewEngine
  /\ prefs = 0
  /\ read = [asked |-> None, astray |-> FALSE, got |-> None]
  /\ spent = [launches |-> 0, reads |-> 0, late |-> 0, lost |-> 0]

-----------------------------------------------------------------------------
(* Asking, and being answered. *)

AllResumed == \A a \in Askers : await[a].got = Unanswered

MayUpset == prefs + spent.late + spent.lost < MaxUpsets

\* Every promise on one of these requests settles the same way.
Settled(ids, outcome) ==
  [a \in Askers |->
     IF await[a].id \in ids THEN [id |-> 0, got |-> outcome] ELSE await[a]]

\* The connection becomes c; whatever left its books was refused.
Reconnected(c) ==
  /\ conn' = c
  /\ await' = Settled(conn.pending \ c.pending, Refused)

\* a awaits request m, made on connection c.
Asks(a, c, m) ==
  LET sent == IF Usable(c) THEN Request(c, m) ELSE c
      wait == IF c.next \in sent.pending
              THEN [id |-> c.next, got |-> Unanswered]
              ELSE [id |-> 0, got |-> Refused]
  IN  /\ conn' = sent
      /\ await' = [Settled(c.pending \ sent.pending, Refused) EXCEPT ![a] = wait]

AttachTarget == IF world # None THEN world ELSE active

DefineNow == Message("define", None, prefs)

\* attachAndProbe as far as its first await.
AttachAndProbe(g, c, target) ==
  IF target = None
  THEN /\ turn' = [turn EXCEPT ![g].pc = "idle"]
       /\ conn' = c
       /\ await' = [await EXCEPT ![g] = NoWait]
  ELSE /\ turn' = [turn EXCEPT ![g] = [NoTurn EXCEPT !.pc = "define", !.target = target,
                                                     !.left = DefineOps]]
       /\ Asks(g, c, DefineNow)

-----------------------------------------------------------------------------
(* The edges that replace the world. *)

\* Mutant: the world is replaced within the turn.
BumpGenForgetsTurn == gen' = gen /\ liveOn' = None

\* Mutant: what the last turn measured outlives it.
BumpGenKeepsLiveOn == gen' = gen + 1 /\ UNCHANGED liveOn

BumpGen == gen' = gen + 1 /\ liveOn' = None

\* onEngineReady(info): the supervisor has a ready engine, be it one that announced
\* itself after the stop.
LaunchReady ==
  /\ live = 0 /\ AllResumed
  /\ gen < MaxTurns /\ spent.launches < MaxLaunches
  /\ BumpGen
  /\ live' = gen + 1 /\ attachedTo' = None /\ owner' = "app"
  /\ conn' = NewConnection
  /\ engine' = NewEngine
  /\ turn' = [turn EXCEPT ![gen + 1].pc = "connect"]
  /\ spent' = [spent EXCEPT !.launches = @ + 1]
  /\ UNCHANGED <<world, active, stopped, await, prefs, read>>

\* onEngineReady(null): the launch is over.  It had been ready, or never was, or the
\* client has let go of it already; the artifacts come back all the same.
LaunchOver ==
  /\ AllResumed /\ gen < MaxTurns
  /\ BumpGen
  /\ live' = 0 /\ attachedTo' = None /\ owner' = "app"
  /\ IF live # 0 THEN Reconnected(Close(conn)) ELSE UNCHANGED <<conn, await>>
  /\ engine' = NewEngine
  /\ UNCHANGED <<world, active, stopped, turn, prefs, read, spent>>

\* tailCharacter and the other callers of sendWorldRebuilt, into onWorldRebuilt.
WorldRebuilt(log) ==
  /\ ~stopped /\ AllResumed /\ gen < MaxTurns
  /\ world' = log /\ active' = log
  /\ BumpGen
  /\ IF live # 0 /\ log # None
     THEN AttachAndProbe(gen + 1, conn, log) /\ UNCHANGED attachedTo
     ELSE attachedTo' = None /\ UNCHANGED <<conn, turn, await>>
  /\ UNCHANGED <<live, owner, stopped, engine, prefs, read, spent>>

\* stopEngineClient: the app is quitting, and does not take the artifacts back.
StopEngineClient ==
  /\ ~stopped /\ AllResumed
  /\ stopped' = TRUE
  /\ live' = 0 /\ attachedTo' = None /\ liveOn' = None
  /\ gen' = gen + 1
  /\ Reconnected(Close(conn))
  /\ engine' = NewEngine
  /\ UNCHANGED <<world, active, owner, turn, prefs, read, spent>>

-----------------------------------------------------------------------------
(* One turn. *)

Becomes(g, pc) == turn' = [turn EXCEPT ![g].pc = pc]

\* The function returned: its locals are gone.
Ends(g, pc) == turn' = [turn EXCEPT ![g] = [NoTurn EXCEPT !.pc = pc]]

\* openConnection: the connect came back.
Connected(g) ==
  /\ turn[g].pc = "connect" /\ AllResumed
  /\ IF g = gen
     THEN Becomes(g, "logdir") /\ Asks(g, AttachTransport(conn), Message("setDir", None, 0))
     ELSE Ends(g, "overtaken") /\ UNCHANGED <<conn, await>>
  /\ UNCHANGED <<hostVars, engine, prefs, read, spent>>

CouldNotConnect(g) ==
  /\ turn[g].pc = "connect" /\ AllResumed
  /\ Ends(g, "noConnection")
  /\ UNCHANGED <<hostVars, conn, await, engine, prefs, read, spent>>

Resumes(g, pc) == turn[g].pc = pc /\ await[g].got # Unanswered

\* A turn that has lost: the check after every await.
Lost(g) ==
  /\ turn[g].pc \in {"logdir", "define", "attach", "health"}
  /\ Resumes(g, turn[g].pc) /\ g # gen
  /\ Ends(g, "lost")
  /\ await' = [await EXCEPT ![g] = NoWait]
  /\ UNCHANGED <<hostVars, conn, engine, prefs, read, spent>>

\* pushLogDirNow returned, whatever the engine said.
LogDirPushed(g) ==
  /\ Resumes(g, "logdir") /\ g = gen
  /\ AttachAndProbe(g, conn, AttachTarget)
  /\ UNCHANGED <<hostVars, engine, prefs, read, spent>>

AskHealth(g) == Asks(g, conn, Message("health", None, 0))

\* Mutant: the engine is told where the artifacts are, and the app writes on.
SendAttachStillWriting(g) ==
  /\ Becomes(g, "attach")
  /\ UNCHANGED owner
  /\ Asks(g, conn, Message("attach", turn[g].target, 0))

\* sendAttach: the state directory is handed over before the request exists.
SendAttach(g) ==
  /\ Becomes(g, "attach")
  /\ owner' = "engine"
  /\ Asks(g, conn, Message("attach", turn[g].target, 0))

\* One define settled; after the last the attach, unless the file is the same.
DefinePushed(g) ==
  /\ Resumes(g, "define") /\ g = gen
  /\ IF turn[g].left > 1
     THEN /\ turn' = [turn EXCEPT ![g].left = @ - 1]
          /\ Asks(g, conn, DefineNow)
          /\ UNCHANGED owner
     ELSE IF attachedTo # turn[g].target THEN SendAttach(g)
     ELSE Becomes(g, "health") /\ AskHealth(g) /\ UNCHANGED owner
  /\ UNCHANGED <<gen, world, active, live, attachedTo, liveOn, stopped, engine, prefs, read, spent>>

\* Mutant: the turn is not asked for again after the reply.
AttachAnsweredUnasked(g) ==
  /\ Resumes(g, "attach")
  /\ IF await[g].got = Refused
     THEN /\ Ends(g, "gaveUp")
          /\ await' = [await EXCEPT ![g] = NoWait]
          /\ UNCHANGED <<attachedTo, conn>>
     ELSE /\ Becomes(g, "health")
          /\ attachedTo' = turn[g].target
          /\ AskHealth(g)
  /\ UNCHANGED <<gen, world, active, live, liveOn, owner, stopped, engine, prefs, read, spent>>

AttachAnswered(g) ==
  /\ Resumes(g, "attach") /\ g = gen
  /\ IF await[g].got = Refused
     THEN /\ Ends(g, "gaveUp")
          /\ await' = [await EXCEPT ![g] = NoWait]
          /\ UNCHANGED <<attachedTo, conn>>
     ELSE /\ Becomes(g, "health")
          /\ attachedTo' = turn[g].target
          /\ AskHealth(g)
  /\ UNCHANGED <<gen, world, active, live, liveOn, owner, stopped, engine, prefs, read, spent>>

\* One round of waitForFold's loop, with sawHealth.
HealthAnswered(g) ==
  LET answer == await[g].got
      refusals == turn[g].refusals + 1
  IN  /\ Resumes(g, "health") /\ g = gen
      /\ IF answer = Refused
         THEN /\ IF refusals >= RefusalLimit THEN Ends(g, "gaveUp")
                 ELSE turn' = [turn EXCEPT ![g].refusals = refusals, ![g].pc = "rest"]
              /\ UNCHANGED liveOn
         ELSE IF answer.status = "live" THEN Ends(g, "done") /\ liveOn' = attachedTo
         ELSE /\ turn' = [turn EXCEPT ![g].refusals = 0, ![g].polls = @ + 1, ![g].pc = "rest"]
              /\ UNCHANGED liveOn
      /\ await' = [await EXCEPT ![g] = NoWait]
      /\ UNCHANGED <<gen, world, active, live, attachedTo, owner, stopped, conn, engine, prefs,
                     read, spent>>

\* The pause between two polls is over.
Rested(g) ==
  /\ turn[g].pc = "rest" /\ AllResumed
  /\ turn[g].polls >= MaxPolls => engine.status = "live"
  /\ IF g = gen
     THEN Becomes(g, "health") /\ AskHealth(g)
     ELSE Ends(g, "lost") /\ UNCHANGED <<conn, await>>
  /\ UNCHANGED <<hostVars, engine, prefs, read, spent>>

-----------------------------------------------------------------------------
(* The other askers. *)

\* Mutant: the preference is pushed before it is persisted.
PreferencePushedFirst ==
  /\ ~stopped /\ AllResumed /\ MayUpset
  /\ prefs' = prefs + 1
  /\ IF live # 0 /\ Usable(conn)
     THEN Reconnected(Request(conn, DefineNow))
     ELSE UNCHANGED <<conn, await>>
  /\ UNCHANGED <<hostVars, turn, engine, read, spent>>

\* pushAppKnowledge: a preference was persisted, then pushed and forgotten.
PreferenceWritten ==
  /\ ~stopped /\ AllResumed /\ MayUpset
  /\ prefs' = prefs + 1
  /\ IF live # 0 /\ Usable(conn)
     THEN Reconnected(Request(conn, Message("define", None, prefs')))
     ELSE UNCHANGED <<conn, await>>
  /\ UNCHANGED <<hostVars, turn, engine, read, spent>>

\* Mutant: readiness asks about the connection only.
ReadyWhenConnected == live # 0 /\ conn.state = "ready" /\ world # None

\* engineServeReadiness.
Ready ==
  /\ live # 0 /\ conn.state = "ready"
  /\ world # None /\ attachedTo = world /\ liveOn = world

\* Every message the client has issued and the engine has not handled yet.
Issued == conn.up \o conn.outbox

\* The log of the last attach issued on this connection, handled or not.
LastAttach ==
  LET at == {i \in DOMAIN Issued : Issued[i].op = "attach"}
  IN  IF at = {} THEN engine.log
      ELSE Issued[CHOOSE i \in at : \A j \in at : j <= i].log

LastDefine ==
  LET at == {i \in DOMAIN Issued : Issued[i].op = "define"}
  IN  IF at = {} THEN engine.define
      ELSE Issued[CHOOSE i \in at : \A j \in at : j <= i].define

\* An attach was issued whose turn was superseded, or gave up, before the answer.
Astray == LastAttach # attachedTo

\* readShim's ask: readiness is asked once, before the round trip.
AskRead ==
  /\ AllResumed /\ Ready /\ await[Reader] = NoWait /\ spent.reads < MaxReads
  /\ read' = [asked |-> world, astray |-> Astray, got |-> None]
  /\ spent' = [spent EXCEPT !.reads = @ + 1]
  /\ Asks(Reader, conn, Message("snapshot", None, 0))
  /\ UNCHANGED <<hostVars, turn, engine, prefs>>

\* The answer is handed over; readShim does not ask readiness again.
ReadAnswered ==
  /\ await[Reader].got # Unanswered
  /\ read' = IF await[Reader].got = Refused THEN read
             ELSE [read EXCEPT !.got = await[Reader].got.log]
  /\ await' = [await EXCEPT ![Reader] = NoWait]
  /\ UNCHANGED <<hostVars, conn, turn, engine, prefs, spent>>

\* raceDeadline: the reader's own clock is shorter than the client's.
ReaderGivesUp ==
  /\ await[Reader].id # 0 /\ AllResumed
  /\ await' = [await EXCEPT ![Reader] = NoWait]
  /\ UNCHANGED <<hostVars, conn, turn, engine, prefs, read, spent>>

-----------------------------------------------------------------------------
(* The engine and the wire. *)

\* What one request does to the engine.
Handled(m) ==
  CASE m.op = "attach" -> [engine EXCEPT !.log = m.log, !.status = "folding", !.landed = FALSE,
                                         !.told = TRUE]
    [] m.op = "define" -> [engine EXCEPT !.define = m.define]
    [] OTHER -> engine

\* A world without a fold has no door to ask at.
Replied(m) ==
  IF m.op = "snapshot" /\ engine.status = "idle" THEN Refused
  ELSE Answer(engine.status, engine.log)

EngineHandles ==
  /\ live # 0 /\ conn.up # <<>>
  /\ LET m == Head(conn.up)
         reply == [id |-> m.id, answer |-> Replied(m)]
     IN  /\ engine' = Handled(m)
         /\ conn' = [conn EXCEPT !.up = Tail(@),
                                 !.down = IF conn.transport = "open" THEN Append(@, reply) ELSE @]
  /\ UNCHANGED <<hostVars, turn, await, prefs, read, spent>>

FoldLands ==
  /\ engine.status = "folding"
  /\ engine' = [engine EXCEPT !.status = "live", !.landed = TRUE]
  /\ UNCHANGED <<hostVars, conn, turn, await, prefs, read, spent>>

\* The ingest failed or panicked: the world is idle, and nobody tells the app.
FoldFails ==
  /\ engine.status \in {"folding", "live"} /\ MayUpset
  /\ engine' = [engine EXCEPT !.status = "idle"]
  /\ spent' = [spent EXCEPT !.lost = @ + 1]
  /\ UNCHANGED <<hostVars, conn, turn, await, prefs, read>>

\* receive: the hello's reply, an answer someone awaits, or one nobody does.
Deliver ==
  /\ conn.transport = "open" /\ conn.down # <<>>
  /\ LET reply == Head(conn.down)
         c == [conn EXCEPT !.down = Tail(@)]
     IN  IF reply.id = 0
         THEN Reconnected(OnHelloReply(c, TRUE))
         ELSE /\ conn' = TakePending(c, reply.id)
              /\ await' = Settled({reply.id} \cap c.pending, reply.answer)
  /\ UNCHANGED <<hostVars, turn, engine, prefs, read, spent>>

\* onDeadline.  A wire that cannot bring the answer any more costs no bound.
Deadline(id) ==
  /\ id \in conn.pending /\ AllResumed
  /\ conn.transport = "open" => MayUpset
  /\ spent' = [spent EXCEPT !.late = IF conn.transport = "open" THEN @ + 1 ELSE @]
  /\ Reconnected(TakePending(conn, id))
  /\ UNCHANGED <<hostVars, turn, engine, prefs, read>>

\* The socket is lost: with an error the client fails, cleanly it is not told.
SocketLost(cleanly) ==
  /\ conn.transport = "open" /\ AllResumed /\ MayUpset
  /\ spent' = [spent EXCEPT !.lost = @ + 1]
  /\ Reconnected(IF cleanly THEN EndTransport(conn) ELSE FailConnection(conn))
  /\ UNCHANGED <<hostVars, turn, engine, prefs, read>>

-----------------------------------------------------------------------------

TurnStep(g) ==
  \/ Connected(g) \/ CouldNotConnect(g) \/ Lost(g) \/ LogDirPushed(g)
  \/ DefinePushed(g) \/ AttachAnswered(g) \/ HealthAnswered(g) \/ Rested(g)

Next ==
  \/ LaunchReady \/ LaunchOver \/ StopEngineClient
  \/ \E log \in Logs \cup {None} : WorldRebuilt(log)
  \/ \E g \in Turns : TurnStep(g)
  \/ PreferenceWritten \/ AskRead \/ ReadAnswered \/ ReaderGivesUp
  \/ EngineHandles \/ FoldLands \/ FoldFails \/ Deliver
  \/ \E id \in conn.pending : Deadline(id)
  \/ \E cleanly \in BOOLEAN : SocketLost(cleanly)

Spec == Init /\ [][Next]_vars

\* Continuations and timers of the event loop run, the socket carries, the
\* engine answers and its fold lands, and a deadline armed expires.
Fairness ==
  /\ \A g \in Turns : WF_vars(TurnStep(g))
  /\ WF_vars(ReadAnswered) /\ WF_vars(Deliver)
  /\ WF_vars(conn.transport = "open" /\ EngineHandles) /\ WF_vars(FoldLands)
  /\ WF_vars(\E id \in conn.pending : Deadline(id))

FairSpec == Spec /\ Fairness

-----------------------------------------------------------------------------

LogOrNone == Logs \cup {None}
Messages == [id : Nat, op : {"hello", "setDir", "define", "attach", "health", "snapshot"},
             log : LogOrNone, define : Nat]
Outcomes == [is : {"none", "refused", "answer"}, status : {"none", "idle", "folding", "live"},
             log : LogOrNone]
Replies == [id : Nat, answer : Outcomes]
Connections ==
  [state : {"connecting", "ready", "failed", "closed"}, transport : {"none", "open", "ended"},
   next : Nat \ {0}, pending : SUBSET Nat, outbox : Seq(Messages), up : Seq(Messages),
   down : Seq(Replies)]

TurnStates ==
  [pc : {"none", "connect", "overtaken", "noConnection", "logdir", "idle", "define", "attach",
         "health", "rest", "done", "gaveUp", "lost"},
   target : LogOrNone, left : 0 .. DefineOps, refusals : 0 .. RefusalLimit, polls : Nat]
Waits == [id : Nat, got : Outcomes]
Engines == [log : LogOrNone, status : {"idle", "folding", "live"}, landed : BOOLEAN,
            define : Nat \cup {Untold}, told : BOOLEAN]
Reads == [asked : LogOrNone, astray : BOOLEAN, got : LogOrNone]
Spendings == [launches : Nat, reads : Nat, late : Nat, lost : Nat]

\* Every variable ranges over what the sources declare for it, and every open
\* request has an id this client handed out.
TypeOK ==
  /\ gen \in 0 .. MaxTurns + 1 /\ live \in 0 .. gen
  /\ world \in LogOrNone /\ active \in LogOrNone
  /\ attachedTo \in LogOrNone /\ liveOn \in LogOrNone
  /\ owner \in {"app", "engine"} /\ stopped \in BOOLEAN
  /\ conn \in Connections /\ conn.pending \subseteq 1 .. conn.next - 1
  /\ turn \in [Turns -> TurnStates] /\ await \in [Askers -> Waits]
  /\ engine \in Engines /\ prefs \in 0 .. MaxUpsets
  /\ read \in Reads /\ spent \in Spendings

\* engineServeReadiness answers ok only while the engine has the very log the
\* app's world was rebuilt for, and its fold of it has landed: whatever attach
\* was issued last on this connection, unless it went astray, has been handled,
\* and no answer about an earlier world armed the read path.  (A fold that fails
\* after it landed leaves readiness as it was, and its readers refused.)
ReadyMeansServing ==
  Ready /\ ~Astray => engine.log = world /\ engine.landed

\* A read the shim let through comes back from the fold of the log it was asked
\* about, however the world changed while it was in flight, unless the last attach
\* had gone astray when it was asked.
ReadsAreOfTheirLog ==
  read.got # None /\ ~read.astray => read.got = read.asked

AttachIssued == \E i \in DOMAIN Issued : Issued[i].op = "attach"

\* The artifacts have one writer: an engine that was told where they are, or is
\* about to be, owns them; and the app stands back only for such an engine, as
\* long as the connection that was to tell it is alive.
ArtifactsHaveOneWriter ==
  live # 0 =>
    /\ engine.told \/ AttachIssued => owner = "engine"
    /\ owner = "engine" => engine.told \/ AttachIssued \/ ~Usable(conn)

\* No log is folded before the engine was told what the app knows, and an engine
\* whose answers are served has been sent the latest of it.
KnowledgeBeforeFold ==
  /\ engine.log # None => engine.define # Untold
  /\ Ready => LastDefine = prefs

\* A turn that has lost touches nothing: the step it takes changes only where it
\* stands.
LosersTouchNothing ==
  [][\A g \in Turns : g < gen /\ turn'[g] # turn[g] =>
       UNCHANGED <<hostVars, conn, engine, prefs, read>>]_vars

\* The client keeps the request book's promises on every connection.
Book == INSTANCE RequestBook
          WITH used <- conn.next - 1, open <- conn.pending, Ids <- 1 .. MaxIds

RequestsSettle == Book!Spec

\* Once nothing disturbs it, a launch whose socket holds ends up serving the log
\* the app is on.  The exceptions are named: the connect failed, a rebuild came
\* while it was connecting (openConnection then drops the channel, and nobody
\* opens another), the fold failed, or a turn gave up over an answer that came too
\* late.  And the launch may be ready for a log the engine does not have, when the
\* last attach went astray: after picks of A, B and A the answer to B's attach is
\* dropped with its turn, the engine is never told A again, and the launch stays
\* ready for A over the fold of B.
ReadsArrive ==
  <>[](/\ live # 0 /\ world # None /\ conn.transport # "ended"
       /\ turn[live].pc \notin {"noConnection", "overtaken"}
       /\ engine.status = "idle" => engine.log = None
       /\ ~(turn[gen].pc = "gaveUp" /\ spent.late > 0)
       => Ready /\ (engine.log = world \/ Astray))
=============================================================================
