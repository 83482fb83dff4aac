# EQ-Zera: the data path and the engine's lifecycle, in TLA+

EQ-Zera is an Electron companion for EverQuest. A Rust process, the *engine*
(`engine/crates/zengine`), reads the game's log, folds it into state and serves *views*
of it as JSON lines over a loopback socket; the TypeScript app starts that process,
watches it, connects to it and draws what it serves. This directory models the parts of
that path where order, interleaving and failure decide whether the app is right.

Paths below are relative to the repository root.

## 1. Inventory

### The engine (`engine/crates`)

| Component | State | Operations | What is hard |
|---|---|---|---|
| World (`zengine/src/world.rs`) | epoch, generation, status, progress, defines, the two doors (`asks`, `write_to`), listeners and the window held per subscription, under one mutex | `join`, leave, `open_subscription`, `close_subscription`, `attach`, `define`, `ask_fold`, `session_mark`, `report_*`, `serve_views` | one thread per connection and one per attach race for the mutex; much is decided in one critical section and acted on in another |
| Ingest (`ingest.rs`) | one fold per accepted attach, its phase, its serving cadence | scan, batches, landing, tail polls, asks and writes answered at slice boundaries | preempted turns finish late; failures and panics must still settle the status |
| Connections (`conn.rs`, `ops.rs`, `wire.rs`) | per connection: queue, pump thread, the op being served | handshake, dispatch, reply, pump | the reply and the opening reset are sent with no lock held |
| View diff (`views/diff.rs`) | none (pure) | `diff`, `changed` | anchors refer to a working copy that moves as ops are emitted |
| View sources (`views/*`) | cursor state per source | filter, order, build rows | data |
| Checkpoint (`checkpoint.rs`) | one file per log | save, restore | key computed apart from the fold it describes; shared temporary path; crash between steps |
| Log tail (`eqlog/src/tail.rs`) | cursor, carry, handle, latches | `open`, `poll`, `consume`, `reset` | the game appends, truncates, deletes, recreates between any two system calls |
| Scan (`zengine/src/scan.rs`) | none kept | `parse_all` | the handoff of offset to the tail |
| Parser, taxonomy, spell data (`eqlog`) | none | classify a line | data |
| Fold (`fold`) | 43k lines of reducers | fold one event | deterministic and single-threaded |
| `knowledge`, `protocol`, `protocol-codegen`, `parity` | read-only or generated | | |

### The app (`src`)

| Component | State | Operations | What is hard |
|---|---|---|---|
| Engine client (`src/shared/dataServer/client.ts`, `viewWindow.ts`) | transport, noted epoch, mounted views, drawn windows, pending requests | attach, hello, note epoch, reset, diff, fail, resubscribe, request | frames of an older epoch or subscription still in flight; deadlines against late answers |
| Supervisor (`src/main/dataServer/supervisor.ts`) | status, launch, stopping latch, restart timer, exit trail, card | `start`, `stop`, `restart`, launch, end, retire | a launch can end in six ways, several at once, while stops, retries and the restart timer race |
| Health watch (`supervisorHealth.ts`) | stopped, paused, round, timer | ask, answered, failed, suspend, resume | a promise cannot be cancelled; the machine sleeps |
| Main-process client (`engineClientHost.ts`, `foldWait.ts`, `artifactOwner.ts`) | the turn, the live engine and what it was attached to, the log it was seen live on, the owner of the artifacts | engine ready or over, world rebuilt, connect, push, attach, wait for the fold, readiness, stop | every `await` is a place where the world may be replaced |
| Engine host, renderer broker, byte relay (`engineHost.ts`, `rendererBroker.ts`, `byteRelay.ts`) | the engine last handed over, one relay per window | hand over, reconnect | forwarding; the edge is in the modules around it |
| Define pushes, read and serve shims (`definePush.ts`, `readShim.ts`, `serve*.ts`) | mirrors of module state | push, ask, mirror | an answer that comes back to another world than it was asked in |
| Store file (`src/main/storeFile.ts`, `telemetry/durableWrite.ts`) | the settings file | write, quarantine, salvage | crash between write, fsync and rename |
| Character switching (`switchController.ts`, `session.ts`) | current character, pending switch | switch, refresh | a switch asked for during a switch |
| Desktop shell, telemetry, feedback, sharing, phone link | windows, uploads, LAN bridge | | platform and network I/O |
| Renderer, preload, shared domain helpers | presentation | | pure or React |
| `infra/lambda`, `mobile`, `share-server`, `site`, `website`, `build`, `docs`, `.github` | separate deployables and packaging | | |

### How they interact

`Supervisor` spawns the engine and, on the first answered health question, hands the port
to its consumers (`onReady`); clients connect, say hello and mount views. An `attach`
bumps epoch and generation in one critical section and starts an ingest thread; that
thread reports through the World, which broadcasts progress and serves resets and diffs to
the queue of every subscribed connection; a pump thread per connection writes them. The
client applies each frame to the window it draws. Reads that need the fold (asks), writes
(defines) and session marks travel through channels whose sending ends, the *doors*, are
installed in the World by the thread that reads them. When a fold lands it is written down
as a checkpoint, and the next attach of the same log under the same inputs continues from it.

On the app's side one turn runs per launch and per picked character: connect, say hello,
push what the app knows, attach, ask for health until the fold is live. `readShim.ts` asks
`engineServeReadiness` before every read it sends. A turn that finds another one begun stops.

`PROJECT.json` lists every component with what is left out of it, and every hazard with its
line and the properties that watch it.

## 2. Modules

| Module | Models |
|---|---|
| `EngineClient` | the frames, and what `client.ts` and `viewWindow.ts` do with each |
| `World` | the engine process, its connections and their clients, EXTENDS `EngineClient` |
| `WorldProofs` | theorems about `World` |
| `WindowProofs` | that a client's window stays in step with the engine's, in `World` |
| `ViewDiff`, `MCViewDiff` | `views/diff.rs` against `viewWindow.ts`, in one data model of windows and cells |
| `ViewDiffProofs` | theorems about `ViewDiff` |
| `Tail` | `tail.rs` and the scan's handoff, against the game and the file system |
| `TailProofs` | theorems about `Tail` |
| `FoldFacts` | what a left fold over a sequence computes, one element at a time; instantiated by the proofs that meet one |
| `Checkpoint` | `checkpoint.rs` and the turn of `ingest.rs` around it, over a disk that survives a crash |
| `CheckpointProofs` | theorems about `Checkpoint` |
| `RequestBook` | abstract: what `client.ts` promises whoever makes a request |
| `EngineConnection` | the request half of `client.ts` over its transport, as operators on a connection |
| `ClientHost` | the main-process client with its turns, the engine at the other end and the socket between, EXTENDS `EngineConnection`, implements `RequestBook` |
| `ClientHostProofs` | theorems about `ClientHost` |
| `Supervisor` | `supervisor.ts` and `supervisorHealth.ts` against a child and a machine that sleeps |
| `SupervisorProofs` | theorems about `Supervisor` |

### World

An action is one critical section of the mutex with the thread-local work around it. What
the code does with the lock released is an action of its own: `Subscribe` registers under
the lock and `SendOpeningReset` sends later; `PrepareViews` and `ServeViews`, `ScanEnds` and
`Land`, `Post` and `SendPost` are the same kind of pair. `pc[g]` is where ingest thread `g`
stands between its ownership tests. Generation `g` is epoch `g + 1`.

Rows are abstracted to the generation and the revision of the fold they were built at: a
window is *loading*, *rows (g, r)*, *owed* (the engine holds nothing and owes a reset), or
*parted* (a diff met a window it was not cut against). That is exactly what the properties
tell apart; that a diff applied to the right window gives the next one is `ViewDiff`'s
business. Totals, filters and counts travel with the rows and are abstracted with them.
A connection's thread and pump are one process with a queue; a broadcast that drops a dead
listener is modelled as that listener's leaving. Fires, con cards, knowledge misses and
meters push in parallel to the views and are left out.

Health's snapshot read, the checkpoint's save and restore, and the clocks of the pacers are
left out; a pacer that may or may not be due is a choice.

### Tail

Each system call of a poll (stat, open, read) is an action; the game may append, truncate,
unlink or recreate between any two. A byte is its kind (ink, CR, LF) and the moment it was
written, so two bytes are never confused. Decoding and the sleep between polls are left
out. `ScanLog` reads the file in one step: the tests of the handoff are about the offset it
leaves. `blind` marks the one loss the code accepts (its rule 5): a cut that was written
over before any poll could see it.

Two things the model contains and `SameLinesHoweverPolled` and `CatchesUp` exclude: a handle
whose file was replaced without any poll seeing the path missing goes on reading the old
file (`ensure_handle` tests only for a missing handle; `unobserved`, and `blind` once the new
file is written to); and the clamp of the start offset (`at.min(size)`) hides a shrink that
happened between the scan and the open (`blind`).

### ViewDiff

`held` is the engine's window, `drawn` the client's. Every step is a reset or a diff to any
window over the keys; in the run, rows carry up to one changeable cell whose states include
absent and null. A pass of `diff` and the client's `applyDiff` are folds, and each has its
step as an operator of its own (`Sift`, `Place`, `ApplyOp`). Keys of one window differ: both
sides find a row by its key, and `diff` keeps one position per key (`wanted`). There are
finitely many keys, and a row's cells are a function from names to values
(`AnchorAssumption`, `CellAssumption`).

### Supervisor

An action is one JavaScript task: a call, a timer, a child's event, an answer. The child is
a record beside its `Launch`: it may be running, exited with the event not yet delivered
("exited"), never started ("failed"), or gone. A health question remembers the watch, the
round it was asked in and whether a suspend passed over it, so that a late answer can be
told from a current one. Delays, reports and the counters only reports read are left out.
`Suspend` does not stop time: between the event and the actual sleep the process runs on,
as it does on every platform.

### Checkpoint

A fold is described by what it was made from: the seed files, the define, the log and how
much of it, and whether it was `pure` (never continued on other bytes or under another
define). That is what a checkpoint must get right; the 43 000 lines that make it are a
function of it. Defines and seeds are version numbers, the log's path names one of several
files, one byte stands for a slice of whole lines.

A turn is a thread that goes through the steps of `ingest::run` one read or one system call
at a time: the seeds are read when the sink is built, the defines twice (`held_defines`,
then `Ctx::for_attach`), the seeds again when the key is computed. `File::create` empties
the file the temporary path names *now*, and a turn that was writing to that file writes on
behind a hole; `rename` moves whatever is there. `saved[g]` is the header turn `g` wrote and
`holds` says whose bytes a file has. A file with more than one writer may be refused,
half-refused or taken (`RestoreMixture`): nothing in it is checksummed. `Crash` keeps the
disk and forgets the rest.

What such a file leaves in a sink is `mixed`, a field of the fold, and so is every fold
continued from a checkpoint of a mixed one. `WarmIsCold` excludes mixed folds by name;
without that TLC finds it violated with every input standing still. `CheckpointIsWhole`
excludes `crossed` (two turns were writing to one file), `LandingIsKept` excludes `crossed`
and `disowned` (a turn that lost the world wrote over the winner's checkpoint). All three
hold for turns that overlap otherwise, and `WarmIsCold` also for turns whose writes crossed,
as long as the file they left is refused untouched or is one turn's.

`calm` marks a turn under which nothing it depends on moved; where the code cannot know, the
properties claim nothing, and the code's exposure is in the hazards instead: a define
between `ingest.rs:903` and `908` is in the key and not in the fold, and comes back at the
next launch as a fold it never was; so is a define that reached the fold during the scan the
other way round; seeds rewritten and logs replaced between the reads; a turn that has lost
saves before it asks whether it has (`989`, `996`); a failing turn removes another's
temporary file. A checkpoint refused half-way leaves a sink of its parts over which the cold
fold then runs, although `fold/src/checkpoint.rs:186` says to discard it: that is one of the
ends of `RestoreMixture`.

### EngineConnection, RequestBook and ClientHost

`EngineConnection` keeps the books of one `EngineClient`: its state, the next id, what is
pending, what waits behind the hello, and what is on the wire either way. `close()` on a
transport ends delivery at once, and a clean end by the peer is not told to the client until
it next sends. `ClientHost` is the process around it. JavaScript runs to completion, so an
action is one task: an edge (engine ready, engine over, world rebuilt, stop), a turn from one
`await` to the next, a timer, a frame. A continuation whose promise has settled runs before
the next such event (`AllResumed`), but several frames of one chunk may be taken first. The
engine answers one request after another, and its fold may land or fail at any time. The
launch edges go on after `stopEngineClient`: a late announce is still handed over and opens
a connection, and the engine's end still bumps the turn and gives the artifacts back. A
second `stopEngineClient` is left out. Every launch makes a fresh client and gives it one
transport, so the replacing of a transport in `AttachTransport` never happens here.

`turn[g].pc` is the `await` turn `g` stands at; `await[a]` is the request behind it. The five
defines are one message repeated `DefineOps` times, and the ack they get is not read, as in
the code. `prefs` counts what the app knows, so that a define can be older than another.

`RequestBook` says what `request()` promises: ids one after another, a settled request never
comes back, a send that fails takes every open request with it, and no request stays open
for ever. `RequestsSettle == Book!Spec`, with the last id handed out for `used` and the
pending set for `open`, is the refinement.

Two defects of the code show in the model; the properties name them as exceptions, and
without the exception TLC finds them violated:

* `overtaken`. A rebuild that comes while `openConnection` awaits the connect bumps the turn;
  the connect then finds `gen !== mine` (`engineClientHost.ts:313`), closes the channel and
  returns. `live` keeps a client no transport is ever given to: the rebuild's own turn and
  all that follow wait in its outbox until their deadlines, until the engine is relaunched.
  The same file argues at 324-328 and 370-380 that what belongs to the connection must
  not be guarded by the turn.
* `Astray`. Pick B and then A again while the attach of B is unanswered, or after it was
  refused or came too late: `attachedTo` still says A, so the third turn sends no attach
  (`:560`, `:601`), and the health of B's fold, once live, is taken for A's. Readiness then
  answers ok for A while the engine serves B, where 157-160 calls it "a MEASUREMENT rather
  than a belief". `ReadyMeansServing`, `ReadsAreOfTheirLog` and `ReadsArrive`, which asks that
  the engine end up on the app's log and not only that the app believe it, exclude it.

Smaller ones the model contains: a turn superseded while its attach is in flight makes the
next one attach the same log again; a connection that fails leaves the artifacts with
nobody until the launch ends (the second half of `ArtifactsHaveOneWriter` excludes it); a
request given up by its deadline is still sent when the hello comes; `readShim` does not ask
readiness again when the answer arrives; a fold that fails after it landed leaves
readiness as it was.

## 3. Runs

| Run | Checks | Bounds | Distinct states |
|---|---|---|---|
| `world_sync` | `TypeOK` `StatusIsOwners` `RowsAreOfTheirEpoch` `DiffsStayInTheirEpoch` `WindowsInStep` `LoserWritesNothing` `WindowsConverge` | two attaches, one revision, one subscription | 376 000 |
| `world_live` | `WindowsInStep` `WindowsConverge` | one attach, two revisions, two subscriptions, one lost connection | 145 000 |
| `world_doors` | `DoorsBelongToOwner` `MarksReachOnlyLiveFolds` `PostsAreDrained` `AttachSettles` | two attaches, two posts of an ask or a mark | 194 000 |
| `tail` | `TypeOK` `MarkLaw` `SameLinesHoweverPolled` `CatchesUp` | two files, four bytes, slices of two, two rotations, one error | 889 000 |
| `view_diff` | `DrawnIsHeld` `NoMoveUnlessReordered` | three keys, one cell | 493 (every window to every window) |
| `supervisor` | `TypeOK` `OneLiveLaunch` `HandedIsServing` `CardTellsTheTruth` `FoldedOnce` `SleptAnswersChangeNothing` `OrphansExit` `StopHolds` | two attempts, three calls, one sleep, a streak of two | 180 000 |
| `checkpoint` | `TypeOK` `WarmIsCold` `CheckpointIsWhole` `LandingIsKept` | three turns, two bytes, one disturbance (log, define, seeds, failed save or death) | 4 250 000 |
| `client_host` | `TypeOK` `ReadyMeansServing` `ReadsAreOfTheirLog` `ArtifactsHaveOneWriter` `KnowledgeBeforeFold` `RequestsSettle` `ReadsArrive` `LosersTouchNothing` | two logs, three turns, two launches, one read, one upset (preference, lost socket, lost fold or early deadline) | 465 000 |
| `world_overtaken`, `world_disowned`, `world_lost_define`, `supervisor_stuck` | one promise of the sources each, refuted | as small as the case allows | |

Why the bounds are enough. An attach replaces exactly one owner, so two generations contain
every pair of a loser and a winner; one connection suffices for the properties of a window,
because subscriptions of different connections meet only in the mutex and no property
relates two of them (the proofs cover any number). Two revisions are the least for a diff
on a diff. Two posts are the least for one to be answered and one dropped. A slice of two
in four bytes splits `CR LF` and puts a line end on either side of a slice. Two launches
are the least for a late event of one to meet the other; three calls are a stop, a start
and a retry. Three turns of the checkpoint are one that saves, one that
restores what it saved and one that overlaps either; two bytes are a prefix and what came
after it; one disturbance suffices for each exposure named above (two of different kinds
were also checked once, 9.8 million states). Three turns of the host are the least for A, B
and A again; a turn superseded at each of its awaits by a launch or a pick is within them.
`MaxQueue` caps only the optional progress frames; every other frame is
queued however long the queue is.

### Fairness

Assumed is what the code's scheduling gives: an ingest thread runs, a connection's thread
goes on with the op in hand, a mounted view is subscribed and sockets deliver
(`World!Fairness`); settled promises
continue, timers of the event loop and armed deadlines fire, an open socket carries, the
engine answers and its fold ends (`ClientHost!Fairness`); the follower polls for ever (`Tail`); the restart and grace timers fire
and a child's end is told (`Supervisor!FairSpec`). Nobody has to attach, open a view, ask,
stop or retry; no engine has to answer; no file operation has to fail; and no child has to
die unless the grace timer kills it, which is assumed to work. Weak fairness is enough
everywhere: none of these steps is disabled by others for ever once it is enabled.

`CHECK_DEADLOCK FALSE` is set for `World`, `Supervisor`, `Checkpoint` and `ClientHost`, where a quiet system with its
bounds spent has nothing to do. The tail and the diff never stop.

### What the violation runs show

* `world_overtaken`: the subscription is registered under the lock, its empty opening reset
  is sent after. A beat in between serves the full window first; the empty reset then wipes
  it at the client while the engine diffs on against the full one, and every later update
  and drop is refused. `WindowsInStep` and `WindowsConverge` therefore exclude connections
  in `overtaken`, and `EveryDiffApplies` does not.
* `world_disowned`: ownership is tested once before a batch of asks is answered, so an ask
  can be answered by a generation an attach has just replaced.
* `world_lost_define`: a define recorded after `held_defines` was copied and before the
  write door opens is acknowledged and never given to the fold under construction.
* `supervisor_stuck`: a child without a stdin is ended inside `wire`, before `beginLaunch`
  installs what `wire` returns; the finished launch it then installs makes the restart
  timer, `start` and `restart` all believe that a launch is in flight.

## 4. Proofs

All theorems hold for every value of the constants that meets the named assumptions
(`BoundsAssumption`, `TailAssumption`, `SupervisorAssumption`, `CheckpointAssumption`,
`HostAssumption`, `AnchorAssumption`, `CellAssumption`: the bounds are naturals; a slice, a
streak, a rewrite distance, the number of defines and the refusal limit are not zero; no log
and no row key is `None`; keys are finitely many and cells are functions).

**Folds.** `World!Drained` and both directions of a diff are written with `FoldLeft`, and a
split of bytes is compared with a fold that reads one byte at a time. The library's
induction theorems take an operator as a parameter and cannot be cited here, so `FoldFacts`
states induction over the naturals as a fact about a set (`Induction`, from the
well-foundedness of `<`), shows that the recursion of `Fold` has a solution and is its value
on initial segments, and derives what the proofs use: the fold of one element more
(`FoldAppend`) and one less (`FoldHead`), what every step preserves (`FoldStays`), and where
a row of sets leads when each step goes from one to the next (`FoldReaches`). Its operator is
a constant of the module with a context argument, so that a proof instantiates it once with
the step of its own fold.

**World.** `TypeCorrect` is inductive by itself. `OwnersStatus` adds that an ingest which
was never attached has done nothing (`UnattachedIsUntouched`): without it a bump could
adopt a thread that is already past its start. `OwnersDoors` follows from the order inside
`attach`. `MarksReachLive` adds that a mark on its way was let through by a live world, whose
owner can since only have ended (`MarkInv`). `LosersSilence` is the action property that a step of a thread which lost the
world leaves the world and all frames alone. `RowsOfTheirEpoch` and `DiffsOfTheirEpoch`
need the strengthening `SyncInv`: only an open subscription holds rows
(`OnlyOpenSubsHold`), and after a landing every held window is of the landed generation
(`HeldIsLanded`); the step that needs both is the landing whose preparation found no
subscription.

`StaysInStep` is about what a client will draw once everything on its wire has arrived,
`Drained`, so the whole argument is what one frame more at the end of the queue, or one
delivered from its front, does to that fold (`DrainLonger`, `FoldHead`). Two invariants
carry it. `WireInv` says what can be in flight: a frame names an epoch already announced
and a request already spent, engine and client agree on which subscription is open, and a
connection that left has neither. It is what makes a frame of an older epoch or an older
subscription harmless when it is drained. `DrawnInv` is the property with its one gap
filled: between registering a subscription and sending its opening reset no lock is held,
so while the epoch read under the lock is still current nothing may have been served
(the engine owes a reset and the client draws *loading*), and once an attach has gone by the
reset to come is stale and will be dropped. The third case, a served frame that went ahead
of the reset, is the `overtaken` of `world_overtaken`.

**Tail.** `MarkLawHolds` rests on lemmas about `split_lines`: the end of the last line is
the greatest newline (`LastEndIsLast`), and what is left after it has none
(`RestIsUnfinished`). `TypeCorrect` adds to the types only what a slice and a carry are made
of. `SplitIsTheReference` relates `split_lines`, which finds newlines in a buffer, to a reader
that takes one byte at a time and forgets nothing but what it hands over: for every sequence
of bytes they hand over the same lines and keep the same rest. That makes a slice after a
slice the same as both in one piece, and `SameLines` follows from `Handed`: the property with
what the steps of a poll leave between them. A file removed or cut below the cursor is on
record until a poll sees it (`Noticed`), a handle that nobody asked to reopen is on the file
the path names (`HandleIsPath`), and a cursor at zero has handed over nothing
(`FreshAtZero`); without these a reset could start again with lines already out.

**ViewDiff.** `WindowsAgree` runs the client beside the engine: after every op emitted, the
rows the client draws are, row for row, the working copy followed by what pass 1 has yet to
look at (`Beside`, `Sifted`), and in pass 2 the rows of the next window up to the cursor
followed by the rest of the working copy (`Placed`). That an insert never meets a key the
client holds, and that the working copy ends as the next window, both come from its order:
its rows stand in the order of the next window (`Rising`), so a row after the cursor belongs
further on. Cells are compared with a cleared one as null (`SameRow`), because the client
keeps the null. `NoMove` needs only pass 1: while the common rows keep their order, the
furthest position is that of an earlier common row, so a common row never falls behind it
(`Unmoved`); pass 2 adds no drop.

**Supervisor.** `SupervisorInvariant` proves the inductive `TypeOK /\ SupInv`, from which
`NeverTwoEngines`, `NeverHandsOutADeadEngine`, `CardIsTruthful`, `NeverFoldedTwice` and
`SuspendIsNotASymptom` follow. `SupInv` adds to the properties: a launch that is over has
no timer and no standing watch (`LaunchesSound`), so nothing is left that could end it
again; a pending restart means that the held launch, if any, is over (`BackoffSound`); and
a question whose watch was standing at a suspend is spent (`AsksSound`). The steps fall
into four kinds with a lemma each: one launch touched (`QuietStep`), the funnel
(`FunnelStep`), a launch begun (`BeginStep`), and the watch standing down or up
(`WatchStep`).

**Checkpoint.** `WarmFoldIsCold` follows from what a header's key tells about the fold it
heads (`KeyTellsTheFold`): a header of a calm turn whose fold is not mixed names exactly the
seeds, define, log and offset that fold was made of, so that a match with the world now makes
the restored fold the one a cold scan would have reached; a mixed fold stays mixed and so
does what continues it (`MixedStays`). `CheckpointStaysWhole` needs that, until two turns
write at once, the file under either name has one writer and the two names differ
(`OneWriter`).
`LandingLeavesItsCheckpoint` needs `LandInv`, which follows the checkpoint between landings:
a file holds only turns that wrote to the end (`Authors`); no fold is mixed before two turns
wrote at once (`Unmixed`); a header counts the fold it heads
(`Headed`, `Measured`); until something is spoilt, the turn that continues a checkpoint
finds it where it was (`Continues`), which is what makes skipping a save harmless; and the
turn that takes the world from one that landed scans at least as far (`Passes`), so that its
own save never moves the checkpoint back.

**ClientHost.** `TypeCorrect` carries the bookkeeping the later proofs need: nothing waits
in the outbox of a ready client (`Flushed`), every open id was handed out (`Booked`), no turn
beyond the current one has begun (`Unborn`), and a turn still connecting has an untouched
connection (`Fresh`). `RequestsAreBooked` is the safety half of the refinement: every step
makes a request (`Requested`), loses some (`Carried`), attaches a first transport or replaces
the client, and each is a step of the book. `LosersAreInert` is the action property about
superseded turns.

The other four rest on the order of the messages: `Queue` is what is on its way up followed
by what still waits in the outbox, and every lemma about a request says how it changes the
queue. `LaunchInv`, with `ToldFirst`, says that in a launch no attach stands before the
first define, that the queue or the engine has the latest preference once a turn has pushed
it, and that the owner is the engine exactly when an attach is in the queue or was handled:
`OneWriter` and `KnowledgeFirst`. `WaitInv` says that whoever waits finds its request on the
books, so that a reply can be attributed. `ServInv` follows the answers: ids in the queue are
older than the next one (`IdsInv`); the health question of the current turn stands behind
every attach, so an answer that says "live" is about the last of them (`PollInv`); what was
observed live stays so until the next turn (`LiveInv`); and a read that was let through
stands before any later attach (`ReadInv`). `ReadinessIsTrue` and `ReadsAreTrue` are its
consequences.

Only model-checked: every liveness property (`WindowsConverge`, `PostsAreDrained`,
`AttachSettles`, `CatchesUp`, `OrphansExit`, `StopHolds`, `ReadsArrive`, and the promise of
`RequestsSettle` that every request settles), which is out of this prover's
reach. Every invariant and every action property of a passing run is a theorem.

## 5. Not modelled, and why

The parser, the fold, the knowledge tables and the domain helpers are pure and
single-threaded: most of the repository, and nothing for a model checker to interleave; a
model of them would be a second copy. The renderer is React over the windows the client
keeps; the shell, telemetry, sharing, the phone link, the cloud and the sites are I/O
outside the data path; the protocol is generated. What is modelled is therefore a small
share of the lines and most of the concurrency.

Within the modelled components: the listeners of broadcasts (fires, con cards, progress), the
read-only verbs, the mirrors of `serveMirrors.ts` (a change noted during a refresh is
dropped, `:155`), the switch controller's queue of picks, and the composition of the two
halves of `client.ts`, whose only common state is the connection's end.

## 6. Plan

Done, in this order: `EngineClient`, `World`, `ViewDiff`, `Tail`, `Supervisor`,
`Checkpoint`, `RequestBook` with `EngineConnection` and `ClientHost`, and their proofs.

Next:

1. `StoreFile` (`src/main/storeFile.ts`): write, fsync, rename, quarantine and salvage, with
   a crash between any two. Abstract specification: an atomic register that a crash leaves
   at its old or its new value.
2. `switchController.ts` over `ClientHost!WorldRebuilt`.
