------------------------------ MODULE Supervisor ------------------------------
(***************************************************************************)
(* The engine's lifecycle as Electron main owns it                         *)
(* (src/main/dataServer/supervisor.ts) and the health watchdog over one    *)
(* launch (supervisorHealth.ts), against a child that may refuse to start, *)
(* die, wedge or ignore its shutdown signal, and a machine that sleeps.    *)
(*                                                                         *)
(* An action is one JavaScript task: a call of start, stop or restart, a   *)
(* timer, a child's event, an answer.  Delays, reports and the counters    *)
(* only they read (failures, servedTrail, localTries, killed) are left     *)
(* out.  Attempt n, if it makes a launch, makes launch n.                  *)
(***************************************************************************)
EXTENDS Naturals

CONSTANTS
  MaxAttempts,  \* launches attempted
  MaxCalls,     \* calls of start, stop and restart
  MaxSleeps,    \* times the machine is suspended
  QuickStreak   \* ENGINE_QUICK_EXIT_STREAK

ASSUME SupervisorAssumption ==
  /\ MaxAttempts \in Nat /\ MaxCalls \in Nat /\ MaxSleeps \in Nat
  /\ QuickStreak \in Nat \ {0}

Launches == 1 .. MaxAttempts

VARIABLES
  status, launch,     \* EngineSupervisor.status; .launch, or 0
  stopping, backoff,  \* .stopping; .cancelRestart is set
  trail,              \* .trail: the streak of quick failures
  handed,             \* the launch last given to onReady, or 0
  card,               \* the failure card onFault put up
  ls,                 \* launch -> its Launch record, its child and its watch
  asks,               \* health questions in flight
  power,              \* "awake", or "suspending" until the machine resumes
  attempts, calls, sleeps

supVars == <<status, launch, stopping, backoff, trail, handed, card>>
bounds == <<attempts, calls, sleeps>>
vars == <<supVars, ls, asks, power, bounds>>

-----------------------------------------------------------------------------
(* One launch. *)

\* .announce and .health are set by one line, so announced is watch # "none".
NoLaunch == [child |-> "none", stdin |-> "none", served |-> FALSE, finished |-> FALSE,
             folds |-> 0, announceTimer |-> FALSE, grace |-> FALSE,
             watch |-> "none", round |-> 0, beat |-> FALSE]

\* wire: the announce timer is armed before the streams are read.
NewLaunch(child) ==
  [NoLaunch EXCEPT !.child = child, !.stdin = "open", !.announceTimer = TRUE]

\* LaunchHealthWatch.stop.
StopWatch(l) ==
  [l EXCEPT !.watch = IF @ = "none" THEN "none" ELSE "stopped", !.beat = FALSE]

ClearLaunchTimers(l) == [StopWatch(l) EXCEPT !.announceTimer = FALSE, !.grace = FALSE]

\* retire: close stdin, and kill after the grace.
Retire(l) == [l EXCEPT !.stdin = IF @ = "open" THEN "closed" ELSE @, !.grace = TRUE]

\* Mutant: a child that is still running is left behind.
EndedUnretired(l, alive) ==
  [ClearLaunchTimers(l) EXCEPT !.finished = TRUE, !.folds = @ + 1]

Ended(l, alive) ==
  LET over == [ClearLaunchTimers(l) EXCEPT !.finished = TRUE, !.folds = @ + 1]
  IN  IF alive THEN Retire(over) ELSE over

-----------------------------------------------------------------------------
(* Ending, folding, retrying. *)

NewTrail == [streak |-> 0, collapsed |-> FALSE]

\* Mutant: the streak collapses one failure late.
FoldedLate(tr, quick) ==
  CASE ~quick -> NewTrail
    [] quick /\ tr.collapsed -> tr
    [] quick /\ ~tr.collapsed -> [streak |-> tr.streak + 1,
                                  collapsed |-> tr.streak + 1 > QuickStreak]

\* engineExitStep: a slow failure resets the trail, a collapsed one is held.
Folded(tr, quick) ==
  CASE ~quick -> NewTrail
    [] quick /\ tr.collapsed -> tr
    [] quick /\ ~tr.collapsed -> [streak |-> tr.streak + 1,
                                  collapsed |-> tr.streak + 1 >= QuickStreak]

\* fold: the card goes up at the collapse and not before.
Fold(tr, cd, quick) ==
  /\ trail' = Folded(tr, quick)
  /\ card' = IF ~tr.collapsed /\ trail'.collapsed THEN "collapsed" ELSE cd

\* Mutant: the hand-over of a launch that is over is not taken back.
EndLaunchKeepsHanded(n, over, quick) ==
  /\ ls' = [ls EXCEPT ![n] = over]
  /\ UNCHANGED handed
  /\ Fold(trail, card, quick)
  /\ launch' = IF launch = n THEN 0 ELSE launch
  /\ backoff' = (backoff \/ ~stopping)
  /\ status' = IF stopping THEN "stopped" ELSE IF backoff THEN status ELSE "backoff"

\* endLaunch of a launch that is not finished, and what is left of it: folded,
\* and followed by a restart unless we are stopping or one is pending.
EndLaunch(n, over, quick) ==
  /\ ls' = [ls EXCEPT ![n] = over]
  /\ handed' = 0
  /\ Fold(trail, card, quick)
  /\ launch' = IF launch = n THEN 0 ELSE launch
  /\ backoff' = (backoff \/ ~stopping)
  /\ status' = IF stopping THEN "stopped" ELSE IF backoff THEN status ELSE "backoff"

-----------------------------------------------------------------------------
(* Launching. *)

Init ==
  /\ status = "stopped" /\ launch = 0 /\ stopping = FALSE /\ backoff = FALSE
  /\ trail = NewTrail /\ handed = 0 /\ card = "none"
  /\ ls = [n \in Launches |-> NoLaunch]
  /\ asks = {} /\ power = "awake"
  /\ attempts = 0 /\ calls = 0 /\ sleeps = 0

\* resolveBinary finds nothing: not a failure and not a retry, but a card.
Absent(tr, cd) ==
  /\ status' = "absent" /\ card' = "no-binary" /\ trail' = tr
  /\ backoff' = FALSE /\ UNCHANGED <<launch, ls>>

\* spawn throws: no child, no lifetime.
SpawnThrows(tr, cd) ==
  /\ Fold(tr, cd, TRUE)
  /\ status' = "backoff" /\ backoff' = TRUE /\ UNCHANGED <<launch, ls>>

\* spawn hands back a child without a stdin (the process is out of handles):
\* endLaunch runs inside wire, before beginLaunch installs what wire returns.
NoStdin(tr, cd) ==
  /\ Fold(tr, cd, TRUE)
  /\ ls' = [ls EXCEPT ![attempts + 1] =
              Ended([NewLaunch("failed") EXCEPT !.stdin = "none"], TRUE)]
  /\ status' = "backoff" /\ backoff' = TRUE /\ launch' = attempts + 1

\* A child: running, or one whose error event will say that it never ran.
Spawned(tr, cd) ==
  /\ \E child \in {"running", "failed"} :
       ls' = [ls EXCEPT ![attempts + 1] = NewLaunch(child)]
  /\ status' = "starting" /\ launch' = attempts + 1 /\ backoff' = FALSE
  /\ trail' = tr /\ card' = cd

BeginLaunch(tr, cd) ==
  /\ attempts < MaxAttempts /\ attempts' = attempts + 1
  /\ Absent(tr, cd) \/ SpawnThrows(tr, cd) \/ NoStdin(tr, cd) \/ Spawned(tr, cd)
  /\ UNCHANGED <<handed, asks, power>>

Call == calls < MaxCalls /\ calls' = calls + 1 /\ UNCHANGED sleeps

Start ==
  /\ Call /\ stopping' = FALSE
  /\ \/ /\ launch # 0 \/ backoff
        /\ UNCHANGED <<status, launch, backoff, trail, handed, card, ls, asks, power, attempts>>
     \/ launch = 0 /\ ~backoff /\ BeginLaunch(trail, card)

\* Mutant: a stop leaves the child to notice by itself.
StopWithoutRetire ==
  /\ Call /\ stopping' = TRUE /\ backoff' = FALSE
  /\ \/ launch = 0 /\ status' = "stopped" /\ UNCHANGED ls
     \/ /\ launch # 0 /\ status' = "stopping"
        /\ ls' = [ls EXCEPT ![launch] = [StopWatch(@) EXCEPT !.announceTimer = FALSE]]
  /\ UNCHANGED <<launch, trail, handed, card, asks, power, attempts>>

Stop ==
  /\ Call /\ stopping' = TRUE /\ backoff' = FALSE
  /\ \/ launch = 0 /\ status' = "stopped" /\ UNCHANGED ls
     \/ /\ launch # 0 /\ status' = "stopping"
        /\ ls' = [ls EXCEPT ![launch] = Retire([StopWatch(@) EXCEPT !.announceTimer = FALSE])]
  /\ UNCHANGED <<launch, trail, handed, card, asks, power, attempts>>

\* Mutant: the retry does not ask whether a launch is in flight.
RestartRegardless ==
  /\ Call /\ stopping' = FALSE
  /\ BeginLaunch(NewTrail, "none")

\* retryEngineSupervisor takes the card down, restart forgives and hurries.
Restart ==
  /\ Call /\ stopping' = FALSE
  /\ \/ /\ launch # 0 /\ trail' = NewTrail /\ card' = "none"
        /\ UNCHANGED <<status, launch, backoff, handed, ls, asks, power, attempts>>
     \/ launch = 0 /\ BeginLaunch(NewTrail, "none")

RestartTimer ==
  /\ backoff
  /\ \/ /\ stopping \/ launch # 0
        /\ backoff' = FALSE
        /\ UNCHANGED <<status, launch, trail, handed, card, ls, asks, power, attempts>>
     \/ ~stopping /\ launch = 0 /\ BeginLaunch(trail, card)
  /\ UNCHANGED <<stopping, calls, sleeps>>

-----------------------------------------------------------------------------
(* What the child says and does. *)

Ask(n, round, confirms) == [of |-> n, round |-> round, confirms |-> confirms, made |-> power]

\* One line on stdout: the announce, and the watchdog asks at once.
Announce(n) ==
  /\ ls[n].child \in {"running", "exited"} /\ ~ls[n].finished /\ ls[n].watch = "none"
  /\ ls' = [ls EXCEPT ![n].announceTimer = FALSE, ![n].watch = "on"]
  /\ asks' = asks \cup {Ask(n, 0, FALSE)}
  /\ UNCHANGED <<supVars, power, bounds>>

BadAnnounce(n, quick) ==
  /\ ls[n].child \in {"running", "exited"} /\ ~ls[n].finished /\ ls[n].watch = "none"
  /\ EndLaunch(n, Ended(ls[n], TRUE), quick)
  /\ UNCHANGED <<stopping, asks, power, bounds>>

AnnounceTimeout(n, quick) ==
  /\ ls[n].announceTimer
  /\ EndLaunch(n, Ended(ls[n], TRUE), quick)
  /\ UNCHANGED <<stopping, asks, power, bounds>>

\* It crashes, or does what a closed stdin asks of it.
ChildDies(n) ==
  /\ ls[n].child = "running"
  /\ ls' = [ls EXCEPT ![n].child = "exited"]
  /\ UNCHANGED <<supVars, asks, power, bounds>>

\* Mutant: the exit of a launch that was already folded is folded again.
ExitRefolds(n, quick) ==
  /\ ls[n].child = "exited"
  /\ EndLaunch(n, [Ended(ls[n], FALSE) EXCEPT !.child = "gone"], quick)
  /\ UNCHANGED <<stopping, asks, power, bounds>>

\* onExit while stopping: whichever launch it was, and finished or not.
ExitAfterStop(n) ==
  /\ ls[n].child = "exited" /\ stopping
  /\ ls' = [ls EXCEPT ![n] = [ClearLaunchTimers(@) EXCEPT !.child = "gone", !.finished = TRUE]]
  /\ handed' = 0 /\ launch' = IF launch = n THEN 0 ELSE launch
  /\ status' = "stopped"
  /\ UNCHANGED <<stopping, backoff, trail, card, asks, power, bounds>>

ExitEvent(n, quick) ==
  /\ ls[n].child = "exited" /\ ~stopping /\ ~ls[n].finished
  /\ EndLaunch(n, [Ended(ls[n], FALSE) EXCEPT !.child = "gone"], quick)
  /\ UNCHANGED <<stopping, asks, power, bounds>>

\* The child's error event: it never ran.
ErrorEvent(n, quick) ==
  /\ ls[n].child = "failed" /\ ~ls[n].finished
  /\ EndLaunch(n, [Ended(ls[n], FALSE) EXCEPT !.child = "gone"], quick)
  /\ UNCHANGED <<stopping, asks, power, bounds>>

\* The event of a child whose launch was already folded is a no-op.
LateEvent(n) ==
  /\ ls[n].finished
  /\ ls[n].child = "failed" \/ (ls[n].child = "exited" /\ ~stopping)
  /\ ls' = [ls EXCEPT ![n].child = "gone"]
  /\ UNCHANGED <<supVars, asks, power, bounds>>

GraceFires(n) ==
  /\ ls[n].grace
  /\ ls' = [ls EXCEPT ![n].grace = FALSE,
                      ![n].child = IF @ = "running" THEN "exited" ELSE @]
  /\ UNCHANGED <<supVars, asks, power, bounds>>

-----------------------------------------------------------------------------
(* The watchdog. *)

\* Is this answer no longer ours?
Spent(a) == ls[a.of].watch = "stopped" \/ a.round # ls[a.of].round

SpentAnswer(a) ==
  /\ Spent(a)
  /\ asks' = asks \ {a}
  /\ UNCHANGED <<supVars, ls, power, bounds>>

\* Mutant: the card stays up over an engine that works.
AnsweredKeepsCard(a) ==
  /\ ~Spent(a)
  /\ asks' = asks \ {a}
  /\ ls' = [ls EXCEPT ![a.of].served = TRUE, ![a.of].beat = TRUE]
  /\ IF ls[a.of].served THEN UNCHANGED supVars
     ELSE /\ status' = "ready" /\ trail' = NewTrail
          /\ handed' = a.of /\ UNCHANGED <<launch, stopping, backoff, card>>
  /\ UNCHANGED <<power, bounds>>

\* A round trip answered; the first one of a launch is the READY edge.
Answered(a) ==
  /\ ~Spent(a)
  /\ asks' = asks \ {a}
  /\ ls' = [ls EXCEPT ![a.of].served = TRUE, ![a.of].beat = TRUE]
  /\ IF ls[a.of].served THEN UNCHANGED supVars
     ELSE /\ status' = "ready" /\ trail' = NewTrail /\ card' = "none"
          /\ handed' = a.of /\ UNCHANGED <<launch, stopping, backoff>>
  /\ UNCHANGED <<power, bounds>>

\* A transient first strike buys one more ask, on a fresh connection.
Strike(a) ==
  /\ ~Spent(a) /\ ~a.confirms
  /\ asks' = (asks \ {a}) \cup {Ask(a.of, a.round, TRUE)}
  /\ UNCHANGED <<supVars, ls, power, bounds>>

\* A fatal reason, or the confirmation failing: the launch is unhealthy.
Unhealthy(a, quick) ==
  /\ ~Spent(a)
  /\ asks' = asks \ {a}
  /\ EndLaunch(a.of, Ended(ls[a.of], TRUE), quick)
  /\ UNCHANGED <<stopping, power, bounds>>

\* The ask never reached the engine: no verdict, ask again later.
LocalSocket(a) ==
  /\ ~Spent(a)
  /\ asks' = asks \ {a}
  /\ ls' = [ls EXCEPT ![a.of].beat = TRUE]
  /\ UNCHANGED <<supVars, power, bounds>>

Beat(n) ==
  /\ ls[n].beat
  /\ ls' = [ls EXCEPT ![n].beat = FALSE]
  /\ asks' = asks \cup {Ask(n, ls[n].round, FALSE)}
  /\ UNCHANGED <<supVars, power, bounds>>

Watched == launch # 0 /\ ls[launch].watch = "on"

\* Mutant: the watch stands down but still listens for its last answer.
SuspendKeepsRound ==
  /\ power = "awake" /\ sleeps < MaxSleeps
  /\ power' = "suspending" /\ sleeps' = sleeps + 1
  /\ ls' = IF Watched THEN [ls EXCEPT ![launch].watch = "paused", ![launch].beat = FALSE] ELSE ls
  /\ UNCHANGED <<supVars, asks, attempts, calls>>

\* The suspend event.  The process runs on until the machine is gone.
Suspend ==
  /\ power = "awake" /\ sleeps < MaxSleeps
  /\ power' = "suspending" /\ sleeps' = sleeps + 1
  /\ ls' = IF Watched
           THEN [ls EXCEPT ![launch].watch = "paused", ![launch].beat = FALSE,
                           ![launch].round = @ + 1]
           ELSE ls
  /\ UNCHANGED <<supVars, asks, attempts, calls>>

\* ...and it is back.  What was asked before slept through; so did what a
\* launch asked that announced between the event and the sleep.
Resume ==
  /\ power = "suspending" /\ power' = "awake"
  /\ asks' = {[a EXCEPT !.made = IF @ = "awake" THEN "slept"
                                 ELSE IF @ = "suspending" THEN "missed" ELSE @] : a \in asks}
  /\ ls' = IF launch # 0 /\ ls[launch].watch = "paused"
           THEN [ls EXCEPT ![launch].watch = "on", ![launch].beat = TRUE]
           ELSE ls
  /\ UNCHANGED <<supVars, bounds>>

-----------------------------------------------------------------------------
Calls == Start \/ Stop \/ Restart

Child(n, quick) ==
  \/ Announce(n) \/ BadAnnounce(n, quick) \/ AnnounceTimeout(n, quick) \/ ChildDies(n)
  \/ ExitAfterStop(n) \/ ExitEvent(n, quick) \/ ErrorEvent(n, quick) \/ LateEvent(n)
  \/ GraceFires(n) \/ Beat(n)

Health(a, quick) ==
  SpentAnswer(a) \/ Answered(a) \/ Strike(a) \/ Unhealthy(a, quick) \/ LocalSocket(a)

Next ==
  \/ Calls \/ RestartTimer \/ Suspend \/ Resume
  \/ \E n \in Launches, quick \in BOOLEAN : Child(n, quick)
  \/ \E a \in asks, quick \in BOOLEAN : Health(a, quick)

Spec == Init /\ [][Next]_vars

\* Timers fire and what happened to a process is told; nobody has to call, no
\* engine has to answer, and no child has to die unless it is killed.
Events(n) ==
  \/ ExitAfterStop(n) \/ LateEvent(n)
  \/ \E quick \in BOOLEAN : ExitEvent(n, quick) \/ ErrorEvent(n, quick)

FairSpec ==
  /\ Spec /\ WF_vars(RestartTimer)
  /\ \A n \in Launches : WF_vars(GraceFires(n)) /\ WF_vars(Events(n))

-----------------------------------------------------------------------------
(* Properties. *)

Records ==
  [child : {"none", "running", "failed", "exited", "gone"}, stdin : {"none", "open", "closed"},
   served : BOOLEAN, finished : BOOLEAN, folds : Nat,
   announceTimer : BOOLEAN, grace : BOOLEAN,
   watch : {"none", "on", "paused", "stopped"}, round : 0 .. MaxSleeps, beat : BOOLEAN]

Asked == [of : Launches, round : 0 .. MaxSleeps, confirms : BOOLEAN,
          made : {"awake", "suspending", "slept", "missed"}]

\* Every field stays in the type the class declares for it; the streak of a
\* collapsed trail is held at the count that collapsed it.
TypeOK ==
  /\ status \in {"stopped", "absent", "starting", "ready", "backoff", "stopping"}
  /\ launch \in 0 .. MaxAttempts /\ handed \in 0 .. MaxAttempts
  /\ stopping \in BOOLEAN /\ backoff \in BOOLEAN
  /\ trail \in [streak : 0 .. QuickStreak, collapsed : BOOLEAN]
  /\ trail.collapsed <=> trail.streak = QuickStreak
  /\ card \in {"none", "no-binary", "collapsed"}
  /\ ls \in [Launches -> Records] /\ asks \subseteq Asked
  /\ power \in {"awake", "suspending"}
  /\ attempts \in 0 .. MaxAttempts /\ calls \in 0 .. MaxCalls /\ sleeps \in 0 .. MaxSleeps

\* One engine at a time: a launch that is not over is the one the supervisor
\* holds, so no retry, restart timer or start ever begins a second beside it and
\* orphans its port and its token (restart's comment).
OneLiveLaunch ==
  \A n \in Launches : ls[n].child # "none" /\ ~ls[n].finished => launch = n

\* What a client was handed is the current launch, proven by a round trip and not
\* over; the supervisor says ready of nothing else (onReady's comment: a consumer
\* holding a socket to a dead engine is one whose next request hangs).
HandedIsServing ==
  /\ handed # 0 => launch = handed /\ ls[handed].served /\ ~ls[handed].finished
  /\ status = "ready" => handed # 0

\* The person's edge: a collapsed trail has its card up, and no card stands over
\* an engine that was handed over and works.
CardTellsTheTruth ==
  /\ trail.collapsed => card # "none"
  /\ handed # 0 => card = "none" /\ trail = NewTrail

\* One funnel off a launch: however its timeout, its exit, its error and a
\* failing probe interleave, it is folded at most once (endLaunch's comment).
FoldedOnce == \A n \in Launches : ls[n].folds <= 1

\* A suspend is not a symptom: the answer to a question the watch asked before
\* the suspend, and that slept through it, changes nothing (supervisorHealth.ts).
SleptAnswersChangeNothing ==
  [][\A a \in asks : a.made = "slept" /\ a \notin asks' => UNCHANGED <<supVars, ls>>]_vars

\* What makes them inductive.  A launch not yet made is blank; one that is over
\* has no timer and no watch left to end it again; a pending restart means there
\* is no live launch; a question whose watch was standing when it slept through a
\* suspend is spent.
LaunchesSound ==
  /\ launch <= attempts
  /\ launch # 0 => ls[launch].child # "none"
  /\ \A n \in Launches :
       /\ n > attempts => ls[n] = NoLaunch
       /\ ls[n].child = "none" => ls[n] = NoLaunch
       /\ ls[n].finished => ls[n].watch \in {"none", "stopped"} /\ ~ls[n].announceTimer
                            /\ ~ls[n].beat
       /\ ~ls[n].finished => ls[n].folds = 0
       /\ ls[n].beat => ls[n].watch # "none"
       /\ ls[n].watch = "none" => ls[n].round = 0
       /\ ls[n].watch = "paused" => power = "suspending"
       /\ ls[n].round <= sleeps

BackoffSound ==
  /\ backoff => status = "backoff" /\ ~stopping
  /\ backoff /\ launch # 0 => ls[launch].finished

AsksSound ==
  \A a \in asks :
    /\ ls[a.of].watch # "none" /\ a.round <= ls[a.of].round
    /\ a.made = "slept" \/ (a.made = "awake" /\ power = "suspending") => Spent(a)

SupInv ==
  /\ OneLiveLaunch /\ HandedIsServing /\ CardTellsTheTruth /\ FoldedOnce
  /\ LaunchesSound /\ BackoffSound /\ AsksSound

\* No herd of orphans: a child whose launch is over is eventually gone, whether
\* or not it minds its stdin being closed (retire's comment).
OrphansExit ==
  \A n \in Launches : ls[n].finished ~> ls[n].child \in {"none", "gone"}

\* A stop nobody takes back survives whatever is in the middle: every child ends,
\* no restart is pending and nothing is left handed out (the stopping latch).
StopHolds ==
  <>[]stopping => <>[](~backoff /\ handed = 0
                       /\ \A n \in Launches : ls[n].child \in {"none", "gone"})

\* Every failed launch gets the same backoff: waiting for a restart ends in one
\* (beginLaunch, scheduleRestart), unless no attempts are left.
BackoffEnds == status = "backoff" ~> status # "backoff" \/ attempts = MaxAttempts

=============================================================================
