--------------------------- MODULE SupervisorProofs ---------------------------
(***************************************************************************)
(* The safety properties of Supervisor, for any number of attempts, calls  *)
(* and sleeps.  The steps fall into four kinds, one lemma each: a step     *)
(* that touches one launch and nothing of the supervisor (QuietStep), the  *)
(* funnel (FunnelStep), a launch being begun (BeginStep), and the few that *)
(* are their own.                                                          *)
(***************************************************************************)
EXTENDS Supervisor, TLAPS

\* What the helpers on one launch's record do to each field the proofs look at.
LEMMA StopWatchFacts ==
  ASSUME NEW l \in Records
  PROVE  /\ StopWatch(l) \in Records
         /\ StopWatch(l) = [l EXCEPT !.watch = StopWatch(l).watch, !.beat = FALSE]
         /\ StopWatch(l).watch \in {"none", "stopped"}
         /\ StopWatch(l).watch = "none" <=> l.watch = "none"
  BY DEF StopWatch, Records

LEMMA ClearFacts ==
  ASSUME NEW l \in Records
  PROVE  LET m == ClearLaunchTimers(l)
         IN  /\ m \in Records
             /\ m.watch \in {"none", "stopped"} /\ (m.watch = "none" <=> l.watch = "none")
             /\ ~m.beat /\ ~m.announceTimer
             /\ m.round = l.round /\ m.child = l.child /\ m.served = l.served
             /\ m.finished = l.finished /\ m.folds = l.folds
  BY DEF ClearLaunchTimers, StopWatch, Records

LEMMA RetireFacts ==
  ASSUME NEW l \in Records
  PROVE  LET m == Retire(l)
         IN  /\ m \in Records
             /\ m.watch = l.watch /\ m.beat = l.beat /\ m.announceTimer = l.announceTimer
             /\ m.round = l.round /\ m.child = l.child /\ m.served = l.served
             /\ m.finished = l.finished /\ m.folds = l.folds
  BY DEF Retire, Records

LEMMA EndedFacts ==
  ASSUME NEW l \in Records, NEW alive \in BOOLEAN
  PROVE  LET m == Ended(l, alive)
         IN  /\ m \in Records
             /\ m.watch \in {"none", "stopped"} /\ (m.watch = "none" <=> l.watch = "none")
             /\ ~m.beat /\ ~m.announceTimer
             /\ m.round = l.round /\ m.child = l.child /\ m.served = l.served
             /\ m.finished /\ m.folds = l.folds + 1
<1> DEFINE cleared == ClearLaunchTimers(l)
           over == [cleared EXCEPT !.finished = TRUE, !.folds = @ + 1]
<1>a. /\ cleared \in Records
      /\ cleared.watch \in {"none", "stopped"} /\ (cleared.watch = "none" <=> l.watch = "none")
      /\ ~cleared.beat /\ ~cleared.announceTimer
      /\ cleared.round = l.round /\ cleared.child = l.child /\ cleared.served = l.served
      /\ cleared.finished = l.finished /\ cleared.folds = l.folds
  BY ClearFacts
<1>b. over = [cleared EXCEPT !.finished = TRUE, !.folds = @ + 1]
  OBVIOUS
<1>c. Ended(l, alive) = IF alive THEN Retire(over) ELSE over
  BY DEF Ended
<1> HIDE DEF cleared
<1>1. /\ over \in Records
      /\ over.watch \in {"none", "stopped"} /\ (over.watch = "none" <=> l.watch = "none")
      /\ ~over.beat /\ ~over.announceTimer
      /\ over.round = l.round /\ over.child = l.child /\ over.served = l.served
      /\ over.finished /\ over.folds = l.folds + 1
  <2>1. over.folds = cleared.folds + 1 /\ over.finished = TRUE
    BY <1>a DEF Records
  <2>2. /\ over.watch = cleared.watch /\ over.beat = cleared.beat
        /\ over.announceTimer = cleared.announceTimer /\ over.round = cleared.round
        /\ over.child = cleared.child /\ over.served = cleared.served
    BY <1>a DEF Records
  <2>3. over \in Records
    <3>1. cleared.folds + 1 \in Nat  BY <1>a DEF Records
    <3>2. QED  BY <1>a, <3>1 DEF Records
  <2>4. QED  BY <1>a, <2>1, <2>2, <2>3
<1> HIDE DEF over
<1>3. QED  BY <1>1, <1>c, RetireFacts

LEMMA NoLaunchFacts == /\ NoLaunch \in Records /\ ~NoLaunch.finished /\ NoLaunch.folds = 0
                       /\ ~NoLaunch.beat /\ ~NoLaunch.announceTimer /\ NoLaunch.watch = "none"
                       /\ NoLaunch.round = 0 /\ NoLaunch.child = "none"
  BY SupervisorAssumption DEF NoLaunch, Records

LEMMA NewLaunchFacts ==
  ASSUME NEW child \in {"running", "failed"}
  PROVE  LET m == NewLaunch(child)
         IN  /\ m \in Records /\ [m EXCEPT !.stdin = "none"] \in Records
             /\ m.child = child /\ m.watch = "none" /\ ~m.beat /\ ~m.finished
             /\ m.folds = 0 /\ m.round = 0
<1> DEFINE m == NewLaunch(child)
<1>1. /\ m \in Records
      /\ m.child = child /\ m.watch = "none" /\ ~m.beat /\ ~m.finished
      /\ m.folds = 0 /\ m.round = 0
  BY NoLaunchFacts DEF NewLaunch, Records
<1> HIDE DEF m
<1>2. [m EXCEPT !.stdin = "none"] \in Records
  BY <1>1 DEF Records
<1>3. QED  BY <1>1, <1>2 DEF m

\* The fold keeps the streak within its bound and puts the card up in time.
LEMMA FoldFacts ==
  ASSUME NEW tr \in [streak : 0 .. QuickStreak, collapsed : BOOLEAN],
         tr.collapsed <=> tr.streak = QuickStreak,
         NEW cd \in {"none", "no-binary", "collapsed"}, tr.collapsed => cd # "none",
         NEW quick \in BOOLEAN, Fold(tr, cd, quick)
  PROVE  /\ trail' \in [streak : 0 .. QuickStreak, collapsed : BOOLEAN]
         /\ trail'.collapsed <=> trail'.streak = QuickStreak
         /\ card' \in {"none", "no-binary", "collapsed"}
         /\ trail'.collapsed => card' # "none"
<1>1. CASE ~quick
  <2>1. trail' = NewTrail  BY <1>1 DEF Fold, Folded
  <2>2. QED  BY <2>1, SupervisorAssumption DEF NewTrail, Fold
<1>2. CASE quick /\ tr.collapsed
  <2>1. trail' = tr  BY <1>2 DEF Fold, Folded
  <2>2. QED  BY <2>1 DEF Fold
<1>3. CASE quick /\ ~tr.collapsed
  <2>1. trail' = [streak |-> tr.streak + 1, collapsed |-> tr.streak + 1 >= QuickStreak]
    BY <1>3 DEF Fold, Folded
  <2>2. tr.streak \in 0 .. QuickStreak /\ tr.streak # QuickStreak  BY <1>3
  <2>3. tr.streak + 1 \in 0 .. QuickStreak  BY <2>2, SupervisorAssumption
  <2>4. (tr.streak + 1 >= QuickStreak) <=> (tr.streak + 1 = QuickStreak)
    BY <2>3, SupervisorAssumption
  <2>5. trail'.streak = tr.streak + 1 /\ (trail'.collapsed <=> tr.streak + 1 >= QuickStreak)
    BY <2>1
  <2>6. trail' \in [streak : 0 .. QuickStreak, collapsed : BOOLEAN]
    BY <2>1, <2>3
  <2>7. card' = IF trail'.collapsed THEN "collapsed" ELSE cd  BY <1>3 DEF Fold
  <2>8. QED  BY <2>4, <2>5, <2>6, <2>7
<1>4. QED  BY <1>1, <1>2, <1>3

-----------------------------------------------------------------------------
\* A step that changes one launch that exists, and perhaps asks about it.
LEMMA QuietStep ==
  ASSUME TypeOK, SupInv, NEW n \in Launches, NEW l \in Records,
         ls' = [ls EXCEPT ![n] = l], UNCHANGED <<supVars, power, bounds>>,
         ls[n].child # "none", l.child # "none",
         l.finished = ls[n].finished, ls[n].served => l.served,
         l.folds = ls[n].folds, l.round = ls[n].round,
         l.watch = ls[n].watch \/ (ls[n].watch = "none" /\ l.watch = "on" /\ ~l.finished),
         l.finished => ~l.announceTimer /\ ~l.beat,
         l.beat => l.watch # "none",
         asks' \subseteq asks \cup {Ask(n, l.round, c) : c \in BOOLEAN},
         asks' \subseteq asks \/ l.watch # "none"
  PROVE  TypeOK' /\ SupInv'
<1>1. /\ ls' \in [Launches -> Records] /\ ls'[n] = l
      /\ \A m \in Launches : m # n => ls'[m] = ls[m]
  BY DEF TypeOK
<1>2. \A a \in asks' : a \in asks \/ (a = Ask(n, l.round, a.confirms) /\ a.confirms \in BOOLEAN
                                     /\ l.watch # "none")
  BY DEF Ask
<1>3. TypeOK'
  <2>1. asks' \subseteq Asked
    BY <1>2 DEF TypeOK, Asked, Ask, Records
  <2>2. QED  BY <1>1, <2>1 DEF TypeOK, supVars, bounds
<1>4. OneLiveLaunch'
  BY <1>1 DEF SupInv, OneLiveLaunch, supVars
<1>5. HandedIsServing' /\ CardTellsTheTruth'
  BY <1>1 DEF SupInv, HandedIsServing, CardTellsTheTruth, supVars, TypeOK, Launches
<1>6. FoldedOnce'
  BY <1>1 DEF SupInv, FoldedOnce
<1>7. LaunchesSound'
  <2>1. launch # 0 => ls'[launch].child # "none"
    BY <1>1 DEF SupInv, LaunchesSound, TypeOK, Launches
  <2>2. QED  BY <1>1, <2>1, NoLaunchFacts DEF SupInv, LaunchesSound, supVars, bounds
<1>8. BackoffSound'
  BY <1>1 DEF SupInv, BackoffSound, supVars, TypeOK, Launches
<1>9. AsksSound'
  <2> SUFFICES ASSUME NEW a \in asks'
               PROVE  /\ ls'[a.of].watch # "none" /\ a.round <= ls'[a.of].round
                      /\ a.made = "slept" \/ (a.made = "awake" /\ power = "suspending") => Spent(a)'
    BY DEF AsksSound, supVars
  <2>1. CASE a \in asks
    <3>1. a.of \in Launches /\ a \in Asked  BY <2>1 DEF TypeOK, Asked
    <3>2. /\ ls[a.of].watch # "none" /\ a.round <= ls[a.of].round
          /\ a.made = "slept" \/ (a.made = "awake" /\ power = "suspending") => Spent(a)
      BY <2>1 DEF SupInv, AsksSound
    <3>3. QED  BY <1>1, <3>1, <3>2 DEF Spent
  <2>2. CASE a \notin asks
    <3>1. a = Ask(n, l.round, a.confirms) /\ l.watch # "none"  BY <1>2, <2>2
    <3>2. a.of = n /\ a.round = l.round /\ a.made = power  BY <3>1 DEF Ask
    <3>3. l.round <= l.round /\ power \in {"awake", "suspending"}
      BY SupervisorAssumption DEF Records, TypeOK
    <3>4. QED  BY <1>1, <3>1, <3>2, <3>3
  <2>3. QED  BY <2>1, <2>2
<1>10. QED  BY <1>3, <1>4, <1>5, <1>6, <1>7, <1>8, <1>9 DEF SupInv

\* The funnel.  The launch that ends is the one the supervisor holds, and no
\* restart is pending while one is held.
LEMMA FunnelStep ==
  ASSUME TypeOK, SupInv, NEW n \in Launches, NEW over \in Records, NEW quick \in BOOLEAN,
         EndLaunch(n, over, quick), UNCHANGED <<stopping, power, bounds>>, asks' \subseteq asks,
         ls[n].child # "none", ~ls[n].finished,
         over.finished, over.folds <= 1, over.child # "none",
         over.watch \in {"none", "stopped"}, over.watch = "none" <=> ls[n].watch = "none",
         ~over.announceTimer, ~over.beat, over.round = ls[n].round
  PROVE  TypeOK' /\ SupInv'
<1>1. /\ ls' \in [Launches -> Records] /\ ls'[n] = over
      /\ \A m \in Launches : m # n => ls'[m] = ls[m]
  BY DEF TypeOK, EndLaunch
<1>2. launch = n /\ ~backoff
  BY DEF SupInv, OneLiveLaunch, BackoffSound, TypeOK, Launches
<1>3. /\ launch' = 0 /\ handed' = 0 /\ backoff' = ~stopping
      /\ status' = IF stopping THEN "stopped" ELSE "backoff"
  BY <1>2 DEF EndLaunch, TypeOK
<1>4. /\ trail' \in [streak : 0 .. QuickStreak, collapsed : BOOLEAN]
      /\ trail'.collapsed <=> trail'.streak = QuickStreak
      /\ card' \in {"none", "no-binary", "collapsed"}
      /\ trail'.collapsed => card' # "none"
  <2>1. Fold(trail, card, quick)  BY DEF EndLaunch
  <2>2. QED  BY <2>1, FoldFacts DEF TypeOK, SupInv, CardTellsTheTruth
<1>5. TypeOK'
  BY <1>1, <1>3, <1>4, SupervisorAssumption DEF TypeOK, bounds
<1>6. OneLiveLaunch'
  BY <1>1, <1>2 DEF SupInv, OneLiveLaunch
<1>7. HandedIsServing' /\ CardTellsTheTruth'
  BY <1>3, <1>4 DEF HandedIsServing, CardTellsTheTruth
<1>8. FoldedOnce'
  BY <1>1 DEF SupInv, FoldedOnce
<1>9. LaunchesSound'
  <2>1. n <= attempts  BY NoLaunchFacts DEF SupInv, LaunchesSound, TypeOK, Launches
  <2>2. launch' <= attempts  BY <1>3, SupervisorAssumption DEF TypeOK
  <2>3. attempts' = attempts /\ sleeps' = sleeps /\ power' = power
    BY DEF bounds
  <2>4. ASSUME NEW m \in Launches
        PROVE  /\ m > attempts => ls'[m] = NoLaunch
               /\ ls'[m].child = "none" => ls'[m] = NoLaunch
               /\ ls'[m].finished => ls'[m].watch \in {"none", "stopped"} /\ ~ls'[m].announceTimer
                                     /\ ~ls'[m].beat
               /\ ~ls'[m].finished => ls'[m].folds = 0
               /\ ls'[m].beat => ls'[m].watch # "none"
               /\ ls'[m].watch = "none" => ls'[m].round = 0
               /\ ls'[m].watch = "paused" => power = "suspending"
               /\ ls'[m].round <= sleeps
    <3>1. CASE m = n
      <4>1. ls[n].round <= sleeps  BY DEF SupInv, LaunchesSound
      <4>2. n \in Nat /\ attempts \in Nat /\ ~(n > attempts)
        BY <2>1, SupervisorAssumption DEF TypeOK, Launches
      <4>3. ls[n].watch = "none" => ls[n].round = 0  BY DEF SupInv, LaunchesSound
      <4>4. QED  BY <1>1, <3>1, <4>1, <4>2, <4>3
    <3>2. CASE m # n
      BY <1>1, <3>2 DEF SupInv, LaunchesSound
    <3>3. QED  BY <3>1, <3>2
  <2>5. QED  BY <1>3, <2>2, <2>3, <2>4 DEF LaunchesSound
<1>10. BackoffSound'
  BY <1>3 DEF BackoffSound, TypeOK
<1>11. AsksSound'
  <2> SUFFICES ASSUME NEW a \in asks
               PROVE  /\ ls'[a.of].watch # "none" /\ a.round <= ls'[a.of].round
                      /\ a.made = "slept" \/ (a.made = "awake" /\ power = "suspending") => Spent(a)'
    BY DEF AsksSound
  <2>1. a.of \in Launches  BY DEF TypeOK, Asked
  <2>2. /\ ls[a.of].watch # "none" /\ a.round <= ls[a.of].round
        /\ a.made = "slept" \/ (a.made = "awake" /\ power = "suspending") => Spent(a)
    BY DEF SupInv, AsksSound
  <2>3. QED  BY <1>1, <2>1, <2>2 DEF Spent
<1>12. QED  BY <1>5, <1>6, <1>7, <1>8, <1>9, <1>10, <1>11 DEF SupInv

\* A launch begins only where none is held, so everything before it is over.
LEMMA BeginStep ==
  ASSUME TypeOK, SupInv, launch = 0,
         NEW tr \in [streak : 0 .. QuickStreak, collapsed : BOOLEAN],
         tr.collapsed <=> tr.streak = QuickStreak,
         NEW cd \in {"none", "no-binary", "collapsed"}, tr.collapsed => cd # "none",
         BeginLaunch(tr, cd), ~stopping', stopping' \in BOOLEAN,
         sleeps' = sleeps, calls' \in 0 .. MaxCalls
  PROVE  TypeOK' /\ SupInv'
<1> DEFINE n == attempts + 1
           Begun(l) == /\ ls' = [ls EXCEPT ![n] = l]
                       /\ l.child # "none" /\ l.watch = "none" /\ ~l.beat /\ l.round = 0
                       /\ l.folds <= 1
                       /\ ~l.finished => l.folds = 0
                       /\ l.finished => ~l.announceTimer
                       /\ backoff' => l.finished
<1>1. /\ n \in Launches /\ attempts' = n /\ attempts' \in 0 .. MaxAttempts
      /\ ls[n] = NoLaunch /\ attempts \in Nat
  BY SupervisorAssumption DEF BeginLaunch, TypeOK, Launches, SupInv, LaunchesSound
<1>2. handed = 0 /\ handed' = 0 /\ asks' = asks /\ power' = power
  BY DEF BeginLaunch, SupInv, HandedIsServing
<1>3. \A m \in Launches : ls[m].child # "none" => ls[m].finished
  BY DEF SupInv, OneLiveLaunch, Launches, TypeOK
<1>4. \A a \in asks : a.of \in Launches /\ a.of # n
  BY <1>1, NoLaunchFacts DEF TypeOK, Asked, SupInv, AsksSound
<1>5. /\ trail' \in [streak : 0 .. QuickStreak, collapsed : BOOLEAN]
      /\ trail'.collapsed <=> trail'.streak = QuickStreak
      /\ card' \in {"none", "no-binary", "collapsed"}
      /\ trail'.collapsed => card' # "none"
  <2>1. CASE Fold(tr, cd, TRUE)
    BY <2>1, FoldFacts
  <2>2. CASE Absent(tr, cd)
    BY <2>2 DEF Absent
  <2>3. CASE Spawned(tr, cd)
    BY <2>3 DEF Spawned
  <2>4. QED  BY <2>1, <2>2, <2>3 DEF BeginLaunch, SpawnThrows, NoStdin
<1>6. /\ status' \in {"absent", "backoff", "starting"} /\ backoff' \in BOOLEAN
      /\ backoff' => status' = "backoff"
      /\ \/ launch' = 0 /\ ls' = ls
         \/ launch' = n /\ \E l \in Records : Begun(l)
  <2>1. CASE Absent(tr, cd)
    BY <2>1 DEF Absent
  <2>2. CASE SpawnThrows(tr, cd)
    BY <2>2 DEF SpawnThrows
  <2>3. CASE NoStdin(tr, cd)
    <3> DEFINE fresh == [NewLaunch("failed") EXCEPT !.stdin = "none"]
               l == Ended(fresh, TRUE)
    <3>1. /\ fresh \in Records /\ fresh.watch = "none" /\ fresh.child = "failed"
          /\ fresh.round = 0 /\ fresh.folds = 0
      BY NewLaunchFacts DEF Records
    <3>2. ls' = [ls EXCEPT ![n] = l] /\ launch' = n /\ status' = "backoff" /\ backoff' = TRUE
      BY <2>3 DEF NoStdin
    <3> HIDE DEF fresh
    <3>3. /\ l \in Records /\ l.watch = "none" /\ ~l.beat /\ ~l.announceTimer /\ l.round = 0
          /\ l.child = "failed" /\ l.finished /\ l.folds = 1
      <4>1. TRUE \in BOOLEAN  OBVIOUS
      <4>2. /\ l \in Records /\ l.watch \in {"none", "stopped"} /\ ~l.beat /\ ~l.announceTimer
            /\ (l.watch = "none" <=> fresh.watch = "none")
            /\ l.round = fresh.round /\ l.child = fresh.child
            /\ l.finished /\ l.folds = fresh.folds + 1
        BY <3>1, <4>1, EndedFacts
      <4> HIDE DEF l
      <4>3. l.folds = 1  BY <3>1, <4>2
      <4>4. QED  BY <3>1, <4>2, <4>3
    <3> HIDE DEF l
    <3>4. Begun(l)  BY <3>2, <3>3
    <3> HIDE DEF Begun
    <3>5. QED  BY <3>2, <3>3, <3>4
  <2>4. CASE Spawned(tr, cd)
    <3>1. PICK child \in {"running", "failed"} : ls' = [ls EXCEPT ![n] = NewLaunch(child)]
      BY <2>4 DEF Spawned
    <3>2. launch' = n /\ status' = "starting" /\ backoff' = FALSE
      BY <2>4 DEF Spawned
    <3>3. NewLaunch(child) \in Records  BY NewLaunchFacts
    <3>4. Begun(NewLaunch(child))  BY <3>1, <3>2, NewLaunchFacts
    <3> HIDE DEF Begun
    <3>5. QED  BY <3>2, <3>3, <3>4
  <2>5. QED  BY <2>1, <2>2, <2>3, <2>4 DEF BeginLaunch
<1>7. CASE launch' = 0 /\ ls' = ls
  <2>1. TypeOK'
    BY <1>1, <1>2, <1>5, <1>6, <1>7 DEF TypeOK
  <2>2. SupInv'
    <3>1. OneLiveLaunch' /\ HandedIsServing' /\ CardTellsTheTruth' /\ FoldedOnce'
      BY <1>2, <1>3, <1>5, <1>6, <1>7
      DEF SupInv, OneLiveLaunch, HandedIsServing, CardTellsTheTruth, FoldedOnce
    <3>2. LaunchesSound'
      <4>1. \A m \in Launches : m > attempts' => m > attempts
        BY <1>1, SupervisorAssumption DEF Launches
      <4>2. launch' <= attempts'  BY <1>1, <1>7, SupervisorAssumption
      <4>3. QED  BY <1>2, <1>7, <4>1, <4>2 DEF SupInv, LaunchesSound
    <3>3. BackoffSound'
      BY <1>6, <1>7 DEF BackoffSound
    <3>4. AsksSound'
      BY <1>2, <1>7 DEF SupInv, AsksSound, Spent
    <3>5. QED  BY <3>1, <3>2, <3>3, <3>4 DEF SupInv
  <2>3. QED  BY <2>1, <2>2
<1>8. CASE launch' = n
  <2>0. PICK l \in Records : Begun(l)
    <3>1. launch' # 0  BY <1>1, <1>8 DEF Launches
    <3> HIDE DEF Begun
    <3>2. QED  BY <1>6, <3>1
  <2>1. /\ ls' = [ls EXCEPT ![n] = l]
        /\ l.child # "none" /\ l.watch = "none" /\ ~l.beat /\ l.round = 0
        /\ l.folds <= 1
        /\ ~l.finished => l.folds = 0
        /\ l.finished => ~l.announceTimer
        /\ backoff' => l.finished
    BY <2>0
  <2>2. /\ ls' \in [Launches -> Records] /\ ls'[n] = l
        /\ \A m \in Launches : m # n => ls'[m] = ls[m]
    BY <1>1, <2>1 DEF TypeOK
  <2>3. TypeOK'
    BY <1>1, <1>2, <1>5, <1>6, <1>8, <2>2 DEF TypeOK, Launches
  <2>4. OneLiveLaunch'
    BY <1>1, <1>3, <1>8, <2>2 DEF OneLiveLaunch
  <2>5. HandedIsServing' /\ CardTellsTheTruth'
    BY <1>2, <1>5, <1>6 DEF HandedIsServing, CardTellsTheTruth
  <2>6. FoldedOnce'
    <3>1. ASSUME NEW m \in Launches PROVE ls'[m].folds <= 1
      BY <2>1, <2>2 DEF SupInv, FoldedOnce
    <3>2. QED  BY <3>1 DEF FoldedOnce
  <2>7. LaunchesSound'
    <3>1. ASSUME NEW m \in Launches
          PROVE  /\ m > attempts' => ls'[m] = NoLaunch
                 /\ ls'[m].child = "none" => ls'[m] = NoLaunch
                 /\ ls'[m].finished => ls'[m].watch \in {"none", "stopped"} /\ ~ls'[m].announceTimer
                                       /\ ~ls'[m].beat
                 /\ ~ls'[m].finished => ls'[m].folds = 0
                 /\ ls'[m].beat => ls'[m].watch # "none"
                 /\ ls'[m].watch = "none" => ls'[m].round = 0
                 /\ ls'[m].watch = "paused" => power = "suspending"
                 /\ ls'[m].round <= sleeps
      <4>1. CASE m = n
        <5>1. ~(m > attempts')  BY <1>1, <4>1
        <5>2. 0 <= sleeps  BY SupervisorAssumption DEF TypeOK
        <5>3. QED  BY <2>1, <2>2, <4>1, <5>1, <5>2
      <4>2. CASE m # n
        <5>1. m > attempts' => m > attempts
          BY <1>1, SupervisorAssumption DEF Launches
        <5>2. QED  BY <2>2, <4>2, <5>1 DEF SupInv, LaunchesSound
      <4>3. QED  BY <4>1, <4>2
    <3>2. launch' <= attempts'  BY <1>1, <1>8
    <3>3. launch' # 0 => ls'[launch'].child # "none"  BY <1>8, <2>1, <2>2
    <3>4. QED  BY <1>2, <3>1, <3>2, <3>3 DEF LaunchesSound
  <2>8. BackoffSound'
    BY <1>6, <1>8, <2>1, <2>2 DEF BackoffSound
  <2>9. AsksSound'
    BY <1>1, <1>2, <1>4, <2>2 DEF SupInv, AsksSound, Spent
  <2>10. QED  BY <2>3, <2>4, <2>5, <2>6, <2>7, <2>8, <2>9 DEF SupInv
<1>9. QED  BY <1>6, <1>7, <1>8

-----------------------------------------------------------------------------
LEMMA InitStep == Init => TypeOK /\ SupInv
<1> SUFFICES ASSUME Init PROVE TypeOK /\ SupInv  OBVIOUS
<1>1. /\ ls \in [Launches -> Records] /\ \A n \in Launches : ls[n] = NoLaunch
  BY NoLaunchFacts DEF Init
<1>2. NewTrail \in [streak : 0 .. QuickStreak, collapsed : BOOLEAN]
      /\ (NewTrail.collapsed <=> NewTrail.streak = QuickStreak) /\ ~NewTrail.collapsed
  BY SupervisorAssumption DEF NewTrail
<1>3. TypeOK
  <2>1. /\ launch \in 0 .. MaxAttempts /\ handed \in 0 .. MaxAttempts
        /\ attempts \in 0 .. MaxAttempts /\ calls \in 0 .. MaxCalls /\ sleeps \in 0 .. MaxSleeps
    BY SupervisorAssumption DEF Init
  <2>2. QED  BY <1>1, <1>2, <2>1 DEF Init, TypeOK
<1>4. OneLiveLaunch /\ HandedIsServing /\ CardTellsTheTruth
  BY <1>1, <1>2, NoLaunchFacts DEF Init, OneLiveLaunch, HandedIsServing, CardTellsTheTruth
<1>5. FoldedOnce
  BY <1>1, NoLaunchFacts DEF FoldedOnce
<1>6. LaunchesSound
  BY <1>1, NoLaunchFacts, SupervisorAssumption DEF Init, LaunchesSound
<1>7. BackoffSound /\ AsksSound
  BY DEF Init, BackoffSound, AsksSound
<1>8. QED  BY <1>3, <1>4, <1>5, <1>6, <1>7 DEF SupInv

LEMMA TrailFacts ==
  ASSUME TypeOK, SupInv
  PROVE  /\ trail \in [streak : 0 .. QuickStreak, collapsed : BOOLEAN]
         /\ trail.collapsed <=> trail.streak = QuickStreak
         /\ card \in {"none", "no-binary", "collapsed"} /\ (trail.collapsed => card # "none")
         /\ NewTrail \in [streak : 0 .. QuickStreak, collapsed : BOOLEAN]
         /\ ~NewTrail.collapsed /\ NewTrail.streak # QuickStreak
  BY SupervisorAssumption DEF TypeOK, SupInv, CardTellsTheTruth, NewTrail

\* A call or a timer that begins nothing: only these five may change.
LEMMA CallStep ==
  ASSUME TypeOK, SupInv,
         UNCHANGED <<status, launch, handed, ls, asks, power, attempts, sleeps>>,
         stopping' \in BOOLEAN, backoff' \in BOOLEAN, calls' \in 0 .. MaxCalls,
         backoff' => backoff /\ ~stopping',
         \/ UNCHANGED <<trail, card>>
         \/ trail' = NewTrail /\ card' = "none"
  PROVE  TypeOK' /\ SupInv'
<1>1. /\ trail' \in [streak : 0 .. QuickStreak, collapsed : BOOLEAN]
      /\ trail'.collapsed <=> trail'.streak = QuickStreak
      /\ card' \in {"none", "no-binary", "collapsed"} /\ (trail'.collapsed => card' # "none")
  BY TrailFacts
<1>2. TypeOK'
  BY <1>1 DEF TypeOK
<1>3. CardTellsTheTruth'
  BY <1>1 DEF SupInv, CardTellsTheTruth
<1>4. BackoffSound'
  BY DEF SupInv, BackoffSound
<1>5. OneLiveLaunch' /\ HandedIsServing' /\ FoldedOnce' /\ LaunchesSound' /\ AsksSound'
  BY DEF SupInv, OneLiveLaunch, HandedIsServing, FoldedOnce, LaunchesSound, AsksSound, Spent
<1>6. QED  BY <1>2, <1>3, <1>4, <1>5 DEF SupInv

LEMMA StartStep == TypeOK /\ SupInv /\ Start => TypeOK' /\ SupInv'
<1> SUFFICES ASSUME TypeOK, SupInv, Start PROVE TypeOK' /\ SupInv'  OBVIOUS
<1>1. stopping' = FALSE /\ calls' \in 0 .. MaxCalls /\ sleeps' = sleeps
  BY SupervisorAssumption DEF Start, Call, TypeOK
<1>2. CASE launch = 0 /\ BeginLaunch(trail, card)
  BY <1>1, <1>2, BeginStep, TrailFacts
<1>3. CASE UNCHANGED <<status, launch, backoff, trail, handed, card, ls, asks, power, attempts>>
  BY <1>1, <1>3, CallStep DEF TypeOK
<1>4. QED  BY <1>2, <1>3 DEF Start

LEMMA RestartStep == TypeOK /\ SupInv /\ Restart => TypeOK' /\ SupInv'
<1> SUFFICES ASSUME TypeOK, SupInv, Restart PROVE TypeOK' /\ SupInv'  OBVIOUS
<1>1. stopping' = FALSE /\ calls' \in 0 .. MaxCalls /\ sleeps' = sleeps
  BY SupervisorAssumption DEF Restart, Call, TypeOK
<1>2. CASE launch = 0 /\ BeginLaunch(NewTrail, "none")
  BY <1>1, <1>2, BeginStep, TrailFacts
<1>3. CASE /\ trail' = NewTrail /\ card' = "none"
           /\ UNCHANGED <<status, launch, backoff, handed, ls, asks, power, attempts>>
  BY <1>1, <1>3, CallStep DEF TypeOK
<1>4. QED  BY <1>2, <1>3 DEF Restart

LEMMA RestartTimerStep == TypeOK /\ SupInv /\ RestartTimer => TypeOK' /\ SupInv'
<1> SUFFICES ASSUME TypeOK, SupInv, RestartTimer PROVE TypeOK' /\ SupInv'  OBVIOUS
<1>1. UNCHANGED <<stopping, calls, sleeps>>
  BY DEF RestartTimer
<1>2. CASE ~stopping /\ launch = 0 /\ BeginLaunch(trail, card)
  BY <1>1, <1>2, BeginStep, TrailFacts DEF TypeOK
<1>3. CASE /\ backoff' = FALSE
           /\ UNCHANGED <<status, launch, trail, handed, card, ls, asks, power, attempts>>
  BY <1>1, <1>3, CallStep DEF TypeOK
<1>4. QED  BY <1>2, <1>3 DEF RestartTimer

LEMMA StopStep == TypeOK /\ SupInv /\ Stop => TypeOK' /\ SupInv'
<1> SUFFICES ASSUME TypeOK, SupInv, Stop PROVE TypeOK' /\ SupInv'  OBVIOUS
<1>1. /\ stopping' = TRUE /\ backoff' = FALSE /\ status' \in {"stopped", "stopping"}
      /\ calls' \in 0 .. MaxCalls
      /\ UNCHANGED <<launch, trail, handed, card, asks, power, attempts, sleeps>>
  BY SupervisorAssumption DEF Stop, Call, TypeOK
<1>2. /\ ls' \in [Launches -> Records]
      /\ \A n \in Launches :
           /\ ls'[n].watch = ls[n].watch \/ (ls[n].watch # "none" /\ ls'[n].watch = "stopped")
           /\ ls'[n].beat => ls[n].beat
           /\ ls'[n].announceTimer => ls[n].announceTimer
           /\ ls'[n].round = ls[n].round /\ ls'[n].child = ls[n].child
           /\ ls'[n].served = ls[n].served /\ ls'[n].finished = ls[n].finished
           /\ ls'[n].folds = ls[n].folds
           /\ ls[n] = NoLaunch /\ n # launch => ls'[n] = NoLaunch
  <2>1. CASE ls' = ls
    BY <2>1 DEF TypeOK
  <2>2. CASE launch # 0 /\ ls' = [ls EXCEPT ![launch] =
                                     Retire([StopWatch(@) EXCEPT !.announceTimer = FALSE])]
    <3> DEFINE quiet == StopWatch(ls[launch])
               over == [quiet EXCEPT !.announceTimer = FALSE]
    <3>1. launch \in Launches /\ ls[launch] \in Records
      BY <2>2 DEF TypeOK, Launches
    <3>2. /\ quiet \in Records
          /\ quiet = [ls[launch] EXCEPT !.watch = quiet.watch, !.beat = FALSE]
          /\ quiet.watch \in {"none", "stopped"}
          /\ quiet.watch = "none" <=> ls[launch].watch = "none"
      BY <3>1, StopWatchFacts
    <3> HIDE DEF quiet
    <3>3. /\ ~quiet.beat /\ quiet.announceTimer = ls[launch].announceTimer
          /\ quiet.round = ls[launch].round /\ quiet.child = ls[launch].child
          /\ quiet.served = ls[launch].served /\ quiet.finished = ls[launch].finished
          /\ quiet.folds = ls[launch].folds
      BY <3>1, <3>2 DEF Records
    <3>4. /\ over \in Records /\ ~over.beat /\ ~over.announceTimer /\ over.watch = quiet.watch
          /\ over.round = quiet.round /\ over.child = quiet.child
          /\ over.served = quiet.served /\ over.finished = quiet.finished
          /\ over.folds = quiet.folds
      BY <3>2, <3>3 DEF Records
    <3>5. ls' = [ls EXCEPT ![launch] = Retire(over)]
      BY <2>2 DEF quiet
    <3> HIDE DEF over
    <3>6. QED  BY <3>1, <3>2, <3>3, <3>4, <3>5, RetireFacts DEF TypeOK
  <2>3. QED  BY <2>1, <2>2 DEF Stop
<1>3. TypeOK'
  BY <1>1, <1>2 DEF TypeOK
<1>4. OneLiveLaunch' /\ FoldedOnce' /\ CardTellsTheTruth'
  BY <1>1, <1>2 DEF SupInv, OneLiveLaunch, FoldedOnce, CardTellsTheTruth
<1>5. HandedIsServing'
  BY <1>1, <1>2 DEF SupInv, HandedIsServing, TypeOK, Launches
<1>6. LaunchesSound'
  <2>1. launch # 0 => ls'[launch].child # "none"
    BY <1>2 DEF SupInv, LaunchesSound, TypeOK, Launches
  <2>2. ASSUME NEW n \in Launches
        PROVE  /\ n > attempts => ls'[n] = NoLaunch
               /\ ls'[n].child = "none" => ls'[n] = NoLaunch
    <3>1. n # 0  BY DEF Launches
    <3>2. n > attempts => ls[n] = NoLaunch /\ n # launch
      BY SupervisorAssumption DEF SupInv, LaunchesSound, TypeOK, Launches
    <3>3. ls[n].child = "none" => ls[n] = NoLaunch /\ n # launch
      BY <3>1 DEF SupInv, LaunchesSound
    <3>4. QED  BY <1>2, <3>2, <3>3
  <2>3. ASSUME NEW n \in Launches
        PROVE  /\ ls'[n].finished => ls'[n].watch \in {"none", "stopped"} /\ ~ls'[n].announceTimer
                                     /\ ~ls'[n].beat
               /\ ~ls'[n].finished => ls'[n].folds = 0
               /\ ls'[n].beat => ls'[n].watch # "none"
               /\ ls'[n].watch = "none" => ls'[n].round = 0
               /\ ls'[n].watch = "paused" => power = "suspending"
               /\ ls'[n].round <= sleeps
    BY <1>2 DEF SupInv, LaunchesSound
  <2>4. QED  BY <1>1, <2>1, <2>2, <2>3 DEF SupInv, LaunchesSound
<1>7. BackoffSound'
  BY <1>1 DEF BackoffSound
<1>8. AsksSound'
  <2> SUFFICES ASSUME NEW a \in asks
               PROVE  /\ ls'[a.of].watch # "none" /\ a.round <= ls'[a.of].round
                      /\ a.made = "slept" \/ (a.made = "awake" /\ power = "suspending") => Spent(a)'
    BY <1>1 DEF AsksSound
  <2>1. a.of \in Launches  BY DEF TypeOK, Asked
  <2>2. QED  BY <1>2, <2>1 DEF SupInv, AsksSound, Spent
<1>9. QED  BY <1>3, <1>4, <1>5, <1>6, <1>7, <1>8 DEF SupInv

\* A child that was asked to stop is gone, and no restart was pending.
LEMMA ExitAfterStopStep ==
  ASSUME TypeOK, SupInv, NEW n \in Launches, ExitAfterStop(n)
  PROVE  TypeOK' /\ SupInv'
<1> DEFINE cleared == ClearLaunchTimers(ls[n])
           over == [cleared EXCEPT !.child = "gone", !.finished = TRUE]
<1>1. /\ cleared \in Records
      /\ cleared.watch \in {"none", "stopped"} /\ (cleared.watch = "none" <=> ls[n].watch = "none")
      /\ ~cleared.beat /\ ~cleared.announceTimer
      /\ cleared.round = ls[n].round /\ cleared.folds = ls[n].folds
  BY ClearFacts DEF TypeOK
<1>2. ls' = [ls EXCEPT ![n] = over] /\ ls[n].child = "exited" /\ stopping
  BY DEF ExitAfterStop
<1> HIDE DEF cleared
<1>3. /\ over \in Records /\ over.child = "gone" /\ over.finished /\ over.watch = cleared.watch
      /\ ~over.beat /\ ~over.announceTimer /\ over.round = cleared.round
      /\ over.folds = cleared.folds
  BY <1>1 DEF Records
<1> HIDE DEF over
<1>4. /\ ls' \in [Launches -> Records] /\ ls'[n] = over
      /\ \A m \in Launches : m # n => ls'[m] = ls[m]
  BY <1>2, <1>3 DEF TypeOK
<1>5. /\ launch' = IF launch = n THEN 0 ELSE launch
      /\ handed' = 0 /\ status' = "stopped" /\ ~backoff
      /\ UNCHANGED <<stopping, backoff, trail, card, asks, power, attempts, calls, sleeps>>
  BY <1>2 DEF ExitAfterStop, SupInv, BackoffSound, bounds
<1>6. TypeOK'
  BY <1>4, <1>5, SupervisorAssumption DEF TypeOK
<1>7. OneLiveLaunch' /\ FoldedOnce'
  BY <1>1, <1>3, <1>4, <1>5 DEF SupInv, OneLiveLaunch, FoldedOnce
<1>8. HandedIsServing' /\ CardTellsTheTruth'
  BY <1>5 DEF SupInv, HandedIsServing, CardTellsTheTruth
<1>9. LaunchesSound'
  <2>1. ~(n > attempts)
    BY <1>2, NoLaunchFacts DEF SupInv, LaunchesSound
  <2>2. ASSUME NEW m \in Launches
        PROVE  /\ m > attempts => ls'[m] = NoLaunch
               /\ ls'[m].child = "none" => ls'[m] = NoLaunch
               /\ ls'[m].finished => ls'[m].watch \in {"none", "stopped"} /\ ~ls'[m].announceTimer
                                     /\ ~ls'[m].beat
               /\ ~ls'[m].finished => ls'[m].folds = 0
               /\ ls'[m].beat => ls'[m].watch # "none"
               /\ ls'[m].watch = "none" => ls'[m].round = 0
               /\ ls'[m].watch = "paused" => power = "suspending"
               /\ ls'[m].round <= sleeps
    <3>1. CASE m = n
      BY <1>1, <1>3, <1>4, <2>1, <3>1 DEF SupInv, LaunchesSound
    <3>2. CASE m # n
      BY <1>4, <3>2 DEF SupInv, LaunchesSound
    <3>3. QED  BY <3>1, <3>2
  <2>3. launch' <= attempts
    BY <1>5, SupervisorAssumption DEF SupInv, LaunchesSound, TypeOK
  <2>4. launch' # 0 => ls'[launch'].child # "none"
    BY <1>4, <1>5 DEF SupInv, LaunchesSound, TypeOK, Launches
  <2>5. QED  BY <1>5, <2>2, <2>3, <2>4 DEF LaunchesSound
<1>10. BackoffSound'
  BY <1>5 DEF BackoffSound
<1>11. AsksSound'
  <2> SUFFICES ASSUME NEW a \in asks
               PROVE  /\ ls'[a.of].watch # "none" /\ a.round <= ls'[a.of].round
                      /\ a.made = "slept" \/ (a.made = "awake" /\ power = "suspending") => Spent(a)'
    BY <1>5 DEF AsksSound
  <2>1. a.of \in Launches  BY DEF TypeOK, Asked
  <2>2. QED  BY <1>1, <1>3, <1>4, <2>1 DEF SupInv, AsksSound, Spent
<1>12. QED  BY <1>6, <1>7, <1>8, <1>9, <1>10, <1>11 DEF SupInv

\* An answer that still counts is about the launch the supervisor holds, which
\* is not over; so no restart is pending beside it.
LEMMA AnswerFacts ==
  ASSUME TypeOK, SupInv, NEW a \in asks, ~Spent(a)
  PROVE  /\ a.of \in Launches /\ ls[a.of] \in Records /\ launch = a.of
         /\ ~ls[a.of].finished /\ ls[a.of].child # "none" /\ ~backoff
         /\ ls[a.of].watch \notin {"none", "stopped"} /\ a.round = ls[a.of].round
<1>1. a.of \in Launches /\ ls[a.of] \in Records  BY DEF TypeOK, Asked
<1>2. ls[a.of].watch \notin {"none", "stopped"} /\ a.round = ls[a.of].round
  BY DEF Spent, SupInv, AsksSound
<1>3. ~ls[a.of].finished /\ ls[a.of].child # "none"
  BY <1>1, <1>2, NoLaunchFacts DEF SupInv, LaunchesSound
<1>4. launch = a.of  BY <1>1, <1>3 DEF SupInv, OneLiveLaunch
<1>5. ~backoff  BY <1>1, <1>3, <1>4 DEF SupInv, BackoffSound, Launches
<1>6. QED  BY <1>1, <1>2, <1>3, <1>4, <1>5

\* The READY edge.
LEMMA ReadyStep ==
  ASSUME TypeOK, SupInv, NEW a \in asks, Answered(a), ~ls[a.of].served
  PROVE  TypeOK' /\ SupInv'
<1> DEFINE n == a.of
           l == [ls[n] EXCEPT !.served = TRUE, !.beat = TRUE]
<1>1. /\ n \in Launches /\ ls[n] \in Records /\ launch = n /\ ~ls[n].finished
      /\ ls[n].child # "none" /\ ~backoff /\ ls[n].watch \notin {"none", "stopped"}
  BY AnswerFacts DEF Answered
<1>2. /\ status' = "ready" /\ trail' = NewTrail /\ card' = "none" /\ handed' = n
      /\ UNCHANGED <<launch, stopping, backoff, power, attempts, calls, sleeps>>
      /\ asks' \subseteq asks
  BY DEF Answered, bounds
<1>3. ls' = [ls EXCEPT ![n] = l]
  BY <1>1 DEF Answered, TypeOK
<1>4. /\ l \in Records /\ l.served /\ l.beat /\ l.watch = ls[n].watch /\ l.child = ls[n].child
      /\ ~l.finished /\ l.folds = ls[n].folds /\ l.round = ls[n].round
  BY <1>1 DEF Records
<1> HIDE DEF l
<1>5. /\ ls' \in [Launches -> Records] /\ ls'[n] = l
      /\ \A m \in Launches : m # n => ls'[m] = ls[m]
  BY <1>1, <1>3, <1>4 DEF TypeOK
<1>6. TypeOK'
  BY <1>1, <1>2, <1>5, TrailFacts DEF TypeOK, Launches
<1>7. OneLiveLaunch' /\ FoldedOnce'
  BY <1>1, <1>2, <1>4, <1>5 DEF SupInv, OneLiveLaunch, FoldedOnce
<1>8. HandedIsServing' /\ CardTellsTheTruth'
  BY <1>1, <1>2, <1>4, <1>5, TrailFacts DEF HandedIsServing, CardTellsTheTruth, Launches
<1>9. LaunchesSound'
  <2>1. ~(n > attempts)
    BY <1>1, NoLaunchFacts DEF SupInv, LaunchesSound
  <2>2. ASSUME NEW m \in Launches
        PROVE  /\ m > attempts => ls'[m] = NoLaunch
               /\ ls'[m].child = "none" => ls'[m] = NoLaunch
               /\ ls'[m].finished => ls'[m].watch \in {"none", "stopped"} /\ ~ls'[m].announceTimer
                                     /\ ~ls'[m].beat
               /\ ~ls'[m].finished => ls'[m].folds = 0
               /\ ls'[m].beat => ls'[m].watch # "none"
               /\ ls'[m].watch = "none" => ls'[m].round = 0
               /\ ls'[m].watch = "paused" => power = "suspending"
               /\ ls'[m].round <= sleeps
    <3>1. CASE m = n
      BY <1>1, <1>4, <1>5, <2>1, <3>1 DEF SupInv, LaunchesSound
    <3>2. CASE m # n
      BY <1>5, <3>2 DEF SupInv, LaunchesSound
    <3>3. QED  BY <3>1, <3>2
  <2>3. launch' # 0 => ls'[launch'].child # "none"
    BY <1>1, <1>2, <1>4, <1>5
  <2>4. QED  BY <1>2, <2>2, <2>3 DEF SupInv, LaunchesSound
<1>10. BackoffSound'
  BY <1>1, <1>2 DEF BackoffSound
<1>11. AsksSound'
  <2> SUFFICES ASSUME NEW b \in asks
               PROVE  /\ ls'[b.of].watch # "none" /\ b.round <= ls'[b.of].round
                      /\ b.made = "slept" \/ (b.made = "awake" /\ power = "suspending") => Spent(b)'
    BY <1>2 DEF AsksSound
  <2>1. b.of \in Launches  BY DEF TypeOK, Asked
  <2>2. QED  BY <1>4, <1>5, <2>1 DEF SupInv, AsksSound, Spent
<1>12. QED  BY <1>6, <1>7, <1>8, <1>9, <1>10, <1>11 DEF SupInv

\* The watch of the launch that is held stands down, or back up: nothing but
\* power and the questions' stamps changes with it.
LEMMA WatchStep ==
  ASSUME TypeOK, SupInv, UNCHANGED supVars, UNCHANGED <<attempts, calls>>,
         power' \in {"awake", "suspending"}, sleeps' \in 0 .. MaxSleeps, sleeps <= sleeps',
         asks' \subseteq Asked,
         \/ ls' = ls
         \/ /\ launch # 0
            /\ \E l \in Records :
                 /\ ls' = [ls EXCEPT ![launch] = l]
                 /\ ls[launch].watch \in {"on", "paused"} /\ l.watch \in {"on", "paused"}
                 /\ l.child = ls[launch].child /\ l.served = ls[launch].served
                 /\ l.finished = ls[launch].finished /\ l.folds = ls[launch].folds
                 /\ l.round <= sleeps',
         \A n \in Launches : ls'[n].watch = "paused" => power' = "suspending"
  PROVE  /\ TypeOK' /\ OneLiveLaunch' /\ HandedIsServing' /\ CardTellsTheTruth'
         /\ FoldedOnce' /\ LaunchesSound' /\ BackoffSound'
<1> DEFINE Same(n) == /\ ls'[n].child = ls[n].child /\ ls'[n].served = ls[n].served
                      /\ ls'[n].finished = ls[n].finished /\ ls'[n].folds = ls[n].folds
                      /\ ls'[n].round <= sleeps'
                      /\ ls'[n] = ls[n] \/ (~ls[n].finished /\ ls[n].child # "none"
                                            /\ n <= attempts /\ ls'[n].watch # "none")
<1>1. ls' \in [Launches -> Records] /\ \A n \in Launches : Same(n)
  <2>1. CASE ls' = ls
    <3>1. ASSUME NEW n \in Launches PROVE ls[n].round <= sleeps'
      <4>1. ls[n].round \in Nat /\ sleeps \in Nat /\ sleeps' \in Nat /\ ls[n].round <= sleeps
        BY SupervisorAssumption DEF SupInv, LaunchesSound, TypeOK, Records
      <4>2. QED  BY <4>1
    <3>2. QED  BY <2>1, <3>1 DEF TypeOK
  <2>2. CASE ls' # ls
    <3>1. launch \in Launches  BY <2>2 DEF TypeOK, Launches
    <3>2. PICK l \in Records :
            /\ ls' = [ls EXCEPT ![launch] = l]
            /\ ls[launch].watch \in {"on", "paused"} /\ l.watch \in {"on", "paused"}
            /\ l.child = ls[launch].child /\ l.served = ls[launch].served
            /\ l.finished = ls[launch].finished /\ l.folds = ls[launch].folds
            /\ l.round <= sleeps'
      BY <2>2
    <3>3. /\ ls' \in [Launches -> Records] /\ ls'[launch] = l
          /\ \A m \in Launches : m # launch => ls'[m] = ls[m]
      BY <3>1, <3>2 DEF TypeOK
    <3>4. Same(launch)
      BY <3>1, <3>2, <3>3, NoLaunchFacts DEF SupInv, LaunchesSound
    <3>5. ASSUME NEW m \in Launches, m # launch PROVE Same(m)
      <4>1. ls[m].round \in Nat /\ sleeps \in Nat /\ sleeps' \in Nat /\ ls[m].round <= sleeps
        BY SupervisorAssumption DEF SupInv, LaunchesSound, TypeOK, Records
      <4>2. QED  BY <3>3, <3>5, <4>1
    <3> HIDE DEF Same
    <3>6. QED  BY <3>3, <3>4, <3>5
  <2>3. QED  BY <2>1, <2>2
<1>2. TypeOK'
  BY <1>1 DEF TypeOK, supVars
<1>3. OneLiveLaunch' /\ FoldedOnce'
  BY <1>1 DEF SupInv, OneLiveLaunch, FoldedOnce, supVars
<1>4. HandedIsServing' /\ CardTellsTheTruth'
  BY <1>1 DEF SupInv, HandedIsServing, CardTellsTheTruth, supVars, TypeOK, Launches
<1>5. LaunchesSound'
  <2>1. launch # 0 => ls'[launch].child # "none"
    BY <1>1 DEF SupInv, LaunchesSound, TypeOK, Launches
  <2>2. ASSUME NEW m \in Launches
        PROVE  /\ m > attempts => ls'[m] = NoLaunch
               /\ ls'[m].child = "none" => ls'[m] = NoLaunch
               /\ ls'[m].finished => ls'[m].watch \in {"none", "stopped"} /\ ~ls'[m].announceTimer
                                     /\ ~ls'[m].beat
               /\ ~ls'[m].finished => ls'[m].folds = 0
               /\ ls'[m].beat => ls'[m].watch # "none"
               /\ ls'[m].watch = "none" => ls'[m].round = 0
    <3>1. m > attempts => ~(m <= attempts)
      BY SupervisorAssumption DEF TypeOK, Launches
    <3>2. QED  BY <1>1, <3>1 DEF SupInv, LaunchesSound
  <2>3. QED  BY <1>1, <2>1, <2>2 DEF SupInv, LaunchesSound, supVars
<1>6. BackoffSound'
  BY <1>1 DEF SupInv, BackoffSound, supVars, TypeOK, Launches
<1>7. QED  BY <1>2, <1>3, <1>4, <1>5, <1>6

\* Whatever watch is still asking is the held launch's.
LEMMA StandingFacts ==
  ASSUME TypeOK, SupInv, NEW n \in Launches, ls[n].watch \notin {"none", "stopped"}
  PROVE  launch = n
<1>1. ~ls[n].finished /\ ls[n].child # "none"
  BY NoLaunchFacts DEF SupInv, LaunchesSound
<1>2. QED  BY <1>1 DEF SupInv, OneLiveLaunch

LEMMA SuspendStep == TypeOK /\ SupInv /\ Suspend => TypeOK' /\ SupInv'
<1> SUFFICES ASSUME TypeOK, SupInv, Suspend PROVE TypeOK' /\ SupInv'  OBVIOUS
<1> DEFINE l == [ls[launch] EXCEPT !.watch = "paused", !.beat = FALSE, !.round = @ + 1]
<1>1. /\ power = "awake" /\ power' = "suspending" /\ sleeps' = sleeps + 1
      /\ sleeps \in Nat /\ sleeps' \in 0 .. MaxSleeps /\ sleeps <= sleeps'
      /\ UNCHANGED supVars /\ UNCHANGED <<attempts, calls>> /\ asks' = asks
  BY SupervisorAssumption DEF Suspend, TypeOK
<1>2. CASE Watched
  <2>1. /\ launch \in Launches /\ ls[launch] \in Records /\ launch # 0
        /\ ls[launch].watch = "on" /\ ls[launch].round \in Nat /\ ls[launch].round <= sleeps
    BY <1>2, SupervisorAssumption DEF Watched, TypeOK, Launches, SupInv, LaunchesSound, Records
  <2>2. ls[launch].round + 1 \in 0 .. MaxSleeps /\ ls[launch].round + 1 <= sleeps'
    BY <1>1, <2>1, SupervisorAssumption
  <2>3. ls' = [ls EXCEPT ![launch] = l]
    BY <1>2, <2>1 DEF Suspend, TypeOK
  <2>4. /\ l \in Records /\ l.watch = "paused" /\ l.round = ls[launch].round + 1
        /\ l.child = ls[launch].child /\ l.served = ls[launch].served
        /\ l.finished = ls[launch].finished /\ l.folds = ls[launch].folds
    BY <2>1, <2>2 DEF Records
  <2> HIDE DEF l
  <2>5. /\ ls'[launch] = l /\ \A m \in Launches : m # launch => ls'[m] = ls[m]
    BY <2>1, <2>3, <2>4 DEF TypeOK
  <2>6. \E k \in Records :
          /\ ls' = [ls EXCEPT ![launch] = k]
          /\ ls[launch].watch \in {"on", "paused"} /\ k.watch \in {"on", "paused"}
          /\ k.child = ls[launch].child /\ k.served = ls[launch].served
          /\ k.finished = ls[launch].finished /\ k.folds = ls[launch].folds
          /\ k.round <= sleeps'
    BY <2>1, <2>2, <2>3, <2>4
  <2>7. /\ TypeOK' /\ OneLiveLaunch' /\ HandedIsServing' /\ CardTellsTheTruth'
        /\ FoldedOnce' /\ LaunchesSound' /\ BackoffSound'
    <3>1. asks' \subseteq Asked  BY <1>1 DEF TypeOK
    <3>2. QED  BY <1>1, <2>1, <2>6, <3>1, WatchStep
  <2>8. AsksSound'
    <3> SUFFICES ASSUME NEW a \in asks
                 PROVE  /\ ls'[a.of].watch # "none" /\ a.round <= ls'[a.of].round
                        /\ a.made \in {"slept", "awake"} => Spent(a)'
      BY <1>1 DEF AsksSound
    <3>1. /\ a.of \in Launches /\ a.round \in Nat
          /\ ls[a.of].watch # "none" /\ a.round <= ls[a.of].round
      BY SupervisorAssumption DEF TypeOK, Asked, SupInv, AsksSound
    <3>2. CASE a.of = launch
      <4>1. a.round < l.round  BY <2>1, <2>4, <3>1, <3>2
      <4>2. QED  BY <2>1, <2>4, <2>5, <3>1, <3>2, <4>1 DEF Spent
    <3>3. CASE a.of # launch
      <4>1. ls[a.of].watch = "stopped"  BY <3>1, <3>3, StandingFacts
      <4>2. QED  BY <2>5, <3>1, <3>3, <4>1 DEF Spent
    <3>4. QED  BY <3>2, <3>3
  <2>9. QED  BY <2>7, <2>8 DEF SupInv
<1>3. CASE ~Watched
  <2>1. ls' = ls  BY <1>3 DEF Suspend
  <2>2. /\ TypeOK' /\ OneLiveLaunch' /\ HandedIsServing' /\ CardTellsTheTruth'
        /\ FoldedOnce' /\ LaunchesSound' /\ BackoffSound'
    <3>1. asks' \subseteq Asked  BY <1>1 DEF TypeOK
    <3>2. QED  BY <1>1, <2>1, <3>1, WatchStep
  <2>3. AsksSound'
    <3> SUFFICES ASSUME NEW a \in asks
                 PROVE  ls[a.of].watch # "none" /\ a.round <= ls[a.of].round /\ Spent(a)
      BY <1>1, <2>1 DEF AsksSound, Spent
    <3>1. a.of \in Launches /\ ls[a.of].watch # "none" /\ a.round <= ls[a.of].round
      BY DEF TypeOK, Asked, SupInv, AsksSound
    <3>2. ls[a.of].watch # "on"
      <4>1. ASSUME ls[a.of].watch = "on" PROVE FALSE
        <5>1. launch = a.of  BY <3>1, <4>1, StandingFacts
        <5>2. QED  BY <1>3, <3>1, <4>1, <5>1 DEF Watched, Launches
      <4>2. QED  BY <4>1
    <3>3. ls[a.of].watch # "paused"
      BY <1>1, <3>1 DEF SupInv, LaunchesSound
    <3>4. ls[a.of].watch = "stopped"
      BY <3>1, <3>2, <3>3 DEF TypeOK, Records
    <3>5. QED  BY <3>1, <3>4 DEF Spent
  <2>4. QED  BY <2>2, <2>3 DEF SupInv
<1>4. QED  BY <1>2, <1>3

LEMMA ResumeStep == TypeOK /\ SupInv /\ Resume => TypeOK' /\ SupInv'
<1> SUFFICES ASSUME TypeOK, SupInv, Resume PROVE TypeOK' /\ SupInv'  OBVIOUS
<1> DEFINE Stamp(a) == [a EXCEPT !.made = IF @ = "awake" THEN "slept"
                                          ELSE IF @ = "suspending" THEN "missed" ELSE @]
           l == [ls[launch] EXCEPT !.watch = "on", !.beat = TRUE]
<1>1. /\ power = "suspending" /\ power' = "awake" /\ sleeps' = sleeps
      /\ sleeps \in Nat /\ sleeps' \in 0 .. MaxSleeps /\ sleeps <= sleeps'
      /\ UNCHANGED supVars /\ UNCHANGED <<attempts, calls>>
  BY SupervisorAssumption DEF Resume, TypeOK, bounds
<1>2. /\ asks' \subseteq Asked
      /\ \A b \in asks' : \E a \in asks :
           /\ b.of = a.of /\ b.round = a.round
           /\ b.made = "slept" => a.made \in {"awake", "slept"}
  <2>1. asks' = {Stamp(a) : a \in asks}
    BY DEF Resume
  <2>2. ASSUME NEW a \in asks
        PROVE  /\ Stamp(a) \in Asked /\ Stamp(a).of = a.of /\ Stamp(a).round = a.round
               /\ Stamp(a).made = "slept" => a.made \in {"awake", "slept"}
    BY DEF TypeOK, Asked
  <2> HIDE DEF Stamp
  <2>3. QED  BY <2>1, <2>2
<1>3. /\ ls' \in [Launches -> Records]
      /\ \A n \in Launches : /\ ls'[n].round = ls[n].round
                             /\ ls'[n].watch = ls[n].watch
                                \/ (ls[n].watch = "paused" /\ ls'[n].watch = "on")
      /\ \A n \in Launches : ls'[n].watch # "paused"
      /\ \/ ls' = ls
         \/ /\ launch # 0
            /\ \E k \in Records :
                 /\ ls' = [ls EXCEPT ![launch] = k]
                 /\ ls[launch].watch \in {"on", "paused"} /\ k.watch \in {"on", "paused"}
                 /\ k.child = ls[launch].child /\ k.served = ls[launch].served
                 /\ k.finished = ls[launch].finished /\ k.folds = ls[launch].folds
                 /\ k.round <= sleeps'
  <2>1. CASE launch # 0 /\ ls[launch].watch = "paused"
    <3>1. launch \in Launches /\ ls[launch] \in Records
      BY <2>1 DEF TypeOK, Launches
    <3>2. ls' = [ls EXCEPT ![launch] = l]
      BY <2>1, <3>1 DEF Resume, TypeOK
    <3>3. /\ l \in Records /\ l.watch = "on" /\ l.round = ls[launch].round
          /\ l.child = ls[launch].child /\ l.served = ls[launch].served
          /\ l.finished = ls[launch].finished /\ l.folds = ls[launch].folds
      BY <3>1 DEF Records
    <3>4. l.round <= sleeps'  BY <1>1, <3>1, <3>3 DEF SupInv, LaunchesSound
    <3> HIDE DEF l
    <3>5. /\ ls' \in [Launches -> Records] /\ ls'[launch] = l
          /\ \A m \in Launches : m # launch => ls'[m] = ls[m]
      BY <3>1, <3>2, <3>3 DEF TypeOK
    <3>6. \A m \in Launches : m # launch => ls[m].watch # "paused"
      BY StandingFacts
    <3>7. \E k \in Records :
            /\ ls' = [ls EXCEPT ![launch] = k]
            /\ ls[launch].watch \in {"on", "paused"} /\ k.watch \in {"on", "paused"}
            /\ k.child = ls[launch].child /\ k.served = ls[launch].served
            /\ k.finished = ls[launch].finished /\ k.folds = ls[launch].folds
            /\ k.round <= sleeps'
      BY <2>1, <3>2, <3>3, <3>4
    <3>8. \A n \in Launches : ls'[n].watch # "paused"
      BY <3>3, <3>5, <3>6
    <3>9. QED  BY <2>1, <3>3, <3>5, <3>7, <3>8
  <2>2. CASE ~(launch # 0 /\ ls[launch].watch = "paused")
    <3>1. ls' = ls  BY <2>2 DEF Resume
    <3>2. \A n \in Launches : ls[n].watch # "paused"
      BY <2>2, StandingFacts DEF Launches
    <3>3. QED  BY <3>1, <3>2 DEF TypeOK
  <2>3. QED  BY <2>1, <2>2
<1>4. /\ TypeOK' /\ OneLiveLaunch' /\ HandedIsServing' /\ CardTellsTheTruth'
      /\ FoldedOnce' /\ LaunchesSound' /\ BackoffSound'
  <2>1. power' \in {"awake", "suspending"} /\ asks' \subseteq Asked
    BY <1>1, <1>2
  <2>2. \A n \in Launches : ls'[n].watch = "paused" => power' = "suspending"
    BY <1>3
  <2>3. \/ ls' = ls
        \/ /\ launch # 0
           /\ \E k \in Records :
                /\ ls' = [ls EXCEPT ![launch] = k]
                /\ ls[launch].watch \in {"on", "paused"} /\ k.watch \in {"on", "paused"}
                /\ k.child = ls[launch].child /\ k.served = ls[launch].served
                /\ k.finished = ls[launch].finished /\ k.folds = ls[launch].folds
                /\ k.round <= sleeps'
    BY <1>3
  <2>4. /\ sleeps' \in 0 .. MaxSleeps /\ sleeps <= sleeps'
        /\ UNCHANGED supVars /\ UNCHANGED <<attempts, calls>>
    BY <1>1
  <2>5. QED  BY ONLY TypeOK, SupInv, SupervisorAssumption, <2>1, <2>2, <2>3, <2>4, WatchStep
<1>5. AsksSound'
  <2> SUFFICES ASSUME NEW b \in asks'
               PROVE  /\ ls'[b.of].watch # "none" /\ b.round <= ls'[b.of].round
                      /\ b.made = "slept" => Spent(b)'
    BY <1>1 DEF AsksSound
  <2>1. PICK a \in asks : /\ b.of = a.of /\ b.round = a.round
                          /\ b.made = "slept" => a.made \in {"awake", "slept"}
    BY <1>2
  <2>2. /\ a.of \in Launches /\ ls[a.of].watch # "none" /\ a.round <= ls[a.of].round
        /\ a.made \in {"awake", "slept"} => Spent(a)
    BY <1>1 DEF TypeOK, Asked, SupInv, AsksSound
  <2>3. QED  BY <1>3, <2>1, <2>2 DEF Spent
<1>6. QED  BY <1>4, <1>5 DEF SupInv

\* The steps that only touch one launch.
LEMMA ChildQuietSteps ==
  ASSUME TypeOK, SupInv, NEW n \in Launches,
         Announce(n) \/ ChildDies(n) \/ LateEvent(n) \/ GraceFires(n) \/ Beat(n)
  PROVE  TypeOK' /\ SupInv'
<1>1. /\ ls[n] \in Records /\ power \in {"awake", "suspending"}
      /\ ls[n].child = "none" => ls[n] = NoLaunch
      /\ ls[n].finished => ls[n].watch \in {"none", "stopped"} /\ ~ls[n].announceTimer
                           /\ ~ls[n].beat
      /\ ls[n].beat => ls[n].watch # "none"
  BY DEF TypeOK, SupInv, LaunchesSound
<1>2. CASE Announce(n)
  <2> DEFINE l == [ls[n] EXCEPT !.announceTimer = FALSE, !.watch = "on"]
  <2>1. ls' = [ls EXCEPT ![n] = l] /\ asks' = asks \cup {Ask(n, 0, FALSE)}
        /\ UNCHANGED <<supVars, power, bounds>>
        /\ ls[n].child # "none" /\ ~ls[n].finished /\ ls[n].watch = "none"
    BY <1>2 DEF Announce, TypeOK
  <2>2. /\ l \in Records /\ l.child = ls[n].child /\ l.finished = ls[n].finished
        /\ l.served = ls[n].served /\ l.folds = ls[n].folds /\ l.round = ls[n].round
        /\ l.watch = "on"
    BY <1>1 DEF Records
  <2>3. ls[n].round = 0
    BY <2>1 DEF SupInv, LaunchesSound
  <2> HIDE DEF l
  <2>4. asks' \subseteq asks \cup {Ask(n, l.round, c) : c \in BOOLEAN}
    BY <2>1, <2>2, <2>3
  <2>5. QED  BY <1>1, <2>1, <2>2, <2>4, QuietStep
<1>3. CASE ChildDies(n)
  <2> DEFINE l == [ls[n] EXCEPT !.child = "exited"]
  <2>1. /\ ls' = [ls EXCEPT ![n] = l] /\ UNCHANGED <<supVars, power, bounds>> /\ asks' = asks
        /\ ls[n].child # "none"
    BY <1>3 DEF ChildDies, TypeOK
  <2>2. /\ l \in Records /\ l.child # "none" /\ l.finished = ls[n].finished
        /\ l.served = ls[n].served /\ l.folds = ls[n].folds /\ l.round = ls[n].round
        /\ l.watch = ls[n].watch /\ l.announceTimer = ls[n].announceTimer
        /\ l.beat = ls[n].beat
    BY <1>1 DEF Records
  <2> HIDE DEF l
  <2>3. QED  BY <1>1, <2>1, <2>2, QuietStep
<1>4. CASE LateEvent(n)
  <2> DEFINE l == [ls[n] EXCEPT !.child = "gone"]
  <2>1. /\ ls' = [ls EXCEPT ![n] = l] /\ UNCHANGED <<supVars, power, bounds>> /\ asks' = asks
        /\ ls[n].child # "none"
    BY <1>4 DEF LateEvent, TypeOK
  <2>2. /\ l \in Records /\ l.child # "none" /\ l.finished = ls[n].finished
        /\ l.served = ls[n].served /\ l.folds = ls[n].folds /\ l.round = ls[n].round
        /\ l.watch = ls[n].watch /\ l.announceTimer = ls[n].announceTimer
        /\ l.beat = ls[n].beat
    BY <1>1 DEF Records
  <2> HIDE DEF l
  <2>3. QED  BY <1>1, <2>1, <2>2, QuietStep
<1>5. CASE GraceFires(n)
  <2> DEFINE l == [ls[n] EXCEPT !.grace = FALSE, !.child = IF @ = "running" THEN "exited" ELSE @]
  <2>1. /\ ls' = [ls EXCEPT ![n] = l] /\ UNCHANGED <<supVars, power, bounds>> /\ asks' = asks
        /\ ls[n].grace
    BY <1>5, <1>1 DEF GraceFires, TypeOK
  <2>2. ls[n].child # "none"
    BY <1>1, <2>1 DEF NoLaunch
  <2>3. /\ l \in Records /\ l.child # "none" /\ l.finished = ls[n].finished
        /\ l.served = ls[n].served /\ l.folds = ls[n].folds /\ l.round = ls[n].round
        /\ l.watch = ls[n].watch /\ l.announceTimer = ls[n].announceTimer
        /\ l.beat = ls[n].beat
    BY <1>1, <2>2 DEF Records
  <2> HIDE DEF l
  <2>4. QED  BY <1>1, <2>1, <2>2, <2>3, QuietStep
<1>6. CASE Beat(n)
  <2> DEFINE l == [ls[n] EXCEPT !.beat = FALSE]
  <2>1. /\ ls' = [ls EXCEPT ![n] = l] /\ UNCHANGED <<supVars, power, bounds>>
        /\ asks' = asks \cup {Ask(n, ls[n].round, FALSE)} /\ ls[n].beat
    BY <1>6 DEF Beat, TypeOK
  <2>2. ls[n].child # "none" /\ ls[n].watch # "none"
    BY <1>1, <2>1, NoLaunchFacts
  <2>3. /\ l \in Records /\ l.child # "none" /\ l.finished = ls[n].finished
        /\ l.served = ls[n].served /\ l.folds = ls[n].folds /\ l.round = ls[n].round
        /\ l.watch = ls[n].watch /\ l.announceTimer = ls[n].announceTimer
        /\ ~l.beat
    BY <1>1, <2>2 DEF Records
  <2> HIDE DEF l
  <2>4. asks' \subseteq asks \cup {Ask(n, l.round, c) : c \in BOOLEAN}
    BY <2>1, <2>3
  <2>5. QED  BY <1>1, <2>1, <2>2, <2>3, <2>4, QuietStep
<1>7. QED  BY <1>2, <1>3, <1>4, <1>5, <1>6

\* The ends of a launch that its child's side brings about.
LEMMA ChildEndSteps ==
  ASSUME TypeOK, SupInv, NEW n \in Launches, NEW quick \in BOOLEAN,
         \/ BadAnnounce(n, quick) \/ AnnounceTimeout(n, quick)
         \/ ExitEvent(n, quick) \/ ErrorEvent(n, quick)
  PROVE  TypeOK' /\ SupInv'
<1>1. /\ ls[n] \in Records
      /\ ls[n].child = "none" => ls[n] = NoLaunch
      /\ ls[n].finished => ~ls[n].announceTimer
      /\ ~ls[n].finished => ls[n].folds = 0
  BY DEF TypeOK, SupInv, LaunchesSound
<1>2. CASE BadAnnounce(n, quick) \/ AnnounceTimeout(n, quick)
  <2> DEFINE over == Ended(ls[n], TRUE)
  <2>1. EndLaunch(n, over, quick) /\ UNCHANGED <<stopping, power, bounds>> /\ asks' = asks
    BY <1>2 DEF BadAnnounce, AnnounceTimeout
  <2>2. ls[n].child # "none" /\ ~ls[n].finished
    BY <1>1, <1>2, NoLaunchFacts DEF BadAnnounce, AnnounceTimeout
  <2>3. TRUE \in BOOLEAN  OBVIOUS
  <2>4. /\ over \in Records /\ over.finished /\ over.folds = ls[n].folds + 1
        /\ over.child = ls[n].child
        /\ over.watch \in {"none", "stopped"} /\ (over.watch = "none" <=> ls[n].watch = "none")
        /\ ~over.announceTimer /\ ~over.beat /\ over.round = ls[n].round
    BY <1>1, <2>3, EndedFacts
  <2> HIDE DEF over
  <2>5. over.folds <= 1  BY <1>1, <2>2, <2>4
  <2>6. QED  BY <2>1, <2>2, <2>4, <2>5, FunnelStep
<1>3. CASE ExitEvent(n, quick) \/ ErrorEvent(n, quick)
  <2> DEFINE quit == Ended(ls[n], FALSE)
             over == [quit EXCEPT !.child = "gone"]
  <2>1. EndLaunch(n, over, quick) /\ UNCHANGED <<stopping, power, bounds>> /\ asks' = asks
    BY <1>3 DEF ExitEvent, ErrorEvent
  <2>2. ls[n].child # "none" /\ ~ls[n].finished
    BY <1>3 DEF ExitEvent, ErrorEvent
  <2>3. FALSE \in BOOLEAN  OBVIOUS
  <2>4. /\ quit \in Records /\ quit.finished /\ quit.folds = ls[n].folds + 1
        /\ quit.watch \in {"none", "stopped"} /\ (quit.watch = "none" <=> ls[n].watch = "none")
        /\ ~quit.announceTimer /\ ~quit.beat /\ quit.round = ls[n].round
    BY <1>1, <2>3, EndedFacts
  <2> HIDE DEF quit
  <2>5. /\ over \in Records /\ over.finished /\ over.folds = quit.folds
        /\ over.child # "none" /\ over.watch = quit.watch
        /\ ~over.announceTimer /\ ~over.beat /\ over.round = quit.round
    BY <2>4 DEF Records
  <2> HIDE DEF over
  <2>6. over.folds <= 1  BY <1>1, <2>2, <2>4, <2>5
  <2>7. QED  BY <2>1, <2>2, <2>4, <2>5, <2>6, FunnelStep
<1>4. QED  BY <1>2, <1>3

\* What becomes of one question.
LEMMA HealthSteps ==
  ASSUME TypeOK, SupInv, NEW a \in asks, NEW quick \in BOOLEAN, Health(a, quick)
  PROVE  TypeOK' /\ SupInv'
<1> DEFINE n == a.of
<1>1. /\ n \in Launches /\ ls[n] \in Records /\ power \in {"awake", "suspending"}
      /\ ls[n].watch # "none"
      /\ ls[n].child = "none" => ls[n] = NoLaunch
      /\ ls[n].finished => ls[n].watch \in {"none", "stopped"} /\ ~ls[n].announceTimer
                           /\ ~ls[n].beat
      /\ ~ls[n].finished => ls[n].folds = 0
  BY DEF TypeOK, Asked, SupInv, LaunchesSound, AsksSound
<1>2. ls[n].child # "none"
  BY <1>1, NoLaunchFacts
<1>3. CASE SpentAnswer(a)
  <2>1. /\ ls' = [ls EXCEPT ![n] = ls[n]] /\ UNCHANGED <<supVars, power, bounds>>
        /\ asks' \subseteq asks
    BY <1>1, <1>3 DEF SpentAnswer, TypeOK
  <2>2. QED  BY <1>1, <1>2, <2>1, QuietStep
<1>4. ASSUME ~Spent(a)
      PROVE  /\ launch = n /\ ~ls[n].finished /\ ls[n].watch \notin {"none", "stopped"}
             /\ a.round = ls[n].round
  BY <1>4, AnswerFacts
<1>5. CASE Answered(a) /\ ~ls[n].served
  BY <1>5, ReadyStep
<1>6. CASE Answered(a) /\ ls[n].served
  <2> DEFINE l == [ls[n] EXCEPT !.served = TRUE, !.beat = TRUE]
  <2>1. /\ ls' = [ls EXCEPT ![n] = l] /\ UNCHANGED <<supVars, power, bounds>>
        /\ asks' \subseteq asks /\ ~Spent(a)
    BY <1>1, <1>6 DEF Answered, TypeOK
  <2>2. /\ l \in Records /\ l.child = ls[n].child /\ l.finished = ls[n].finished
        /\ l.served /\ l.folds = ls[n].folds /\ l.round = ls[n].round
        /\ l.watch = ls[n].watch
    BY <1>1 DEF Records
  <2> HIDE DEF l
  <2>3. QED  BY <1>1, <1>2, <1>4, <2>1, <2>2, QuietStep
<1>7. CASE Strike(a)
  <2>1. /\ ls' = [ls EXCEPT ![n] = ls[n]] /\ UNCHANGED <<supVars, power, bounds>>
        /\ asks' = (asks \ {a}) \cup {Ask(n, a.round, TRUE)} /\ ~Spent(a)
    BY <1>1, <1>7 DEF Strike, TypeOK
  <2>2. asks' \subseteq asks \cup {Ask(n, ls[n].round, c) : c \in BOOLEAN}
    BY <1>4, <2>1
  <2>3. QED  BY <1>1, <1>2, <2>1, <2>2, QuietStep
<1>8. CASE Unhealthy(a, quick)
  <2> DEFINE over == Ended(ls[n], TRUE)
  <2>1. /\ EndLaunch(n, over, quick) /\ UNCHANGED <<stopping, power, bounds>>
        /\ asks' \subseteq asks /\ ~Spent(a)
    BY <1>8 DEF Unhealthy
  <2>2. ~ls[n].finished  BY <1>4, <2>1
  <2>3. TRUE \in BOOLEAN  OBVIOUS
  <2>4. /\ over \in Records /\ over.finished /\ over.folds = ls[n].folds + 1
        /\ over.child = ls[n].child
        /\ over.watch \in {"none", "stopped"} /\ (over.watch = "none" <=> ls[n].watch = "none")
        /\ ~over.announceTimer /\ ~over.beat /\ over.round = ls[n].round
    BY <1>1, <2>3, EndedFacts
  <2> HIDE DEF over
  <2>5. over.folds <= 1  BY <1>1, <2>2, <2>4
  <2>6. QED  BY <1>1, <1>2, <2>1, <2>2, <2>4, <2>5, FunnelStep
<1>9. CASE LocalSocket(a)
  <2> DEFINE l == [ls[n] EXCEPT !.beat = TRUE]
  <2>1. /\ ls' = [ls EXCEPT ![n] = l] /\ UNCHANGED <<supVars, power, bounds>>
        /\ asks' \subseteq asks /\ ~Spent(a)
    BY <1>1, <1>9 DEF LocalSocket, TypeOK
  <2>2. /\ l \in Records /\ l.child = ls[n].child /\ l.finished = ls[n].finished
        /\ l.served = ls[n].served /\ l.folds = ls[n].folds /\ l.round = ls[n].round
        /\ l.watch = ls[n].watch
    BY <1>1 DEF Records
  <2> HIDE DEF l
  <2>3. QED  BY <1>1, <1>2, <1>4, <2>1, <2>2, QuietStep
<1>10. QED  BY <1>3, <1>5, <1>6, <1>7, <1>8, <1>9 DEF Health

-----------------------------------------------------------------------------
LEMMA NextStep == TypeOK /\ SupInv /\ [Next]_vars => TypeOK' /\ SupInv'
<1> SUFFICES ASSUME TypeOK, SupInv, [Next]_vars PROVE TypeOK' /\ SupInv'  OBVIOUS
<1>1. CASE Calls \/ RestartTimer \/ Suspend \/ Resume
  BY <1>1, StartStep, StopStep, RestartStep, RestartTimerStep, SuspendStep, ResumeStep DEF Calls
<1>2. ASSUME NEW n \in Launches, NEW quick \in BOOLEAN, Child(n, quick)
      PROVE  TypeOK' /\ SupInv'
  BY <1>2, ChildQuietSteps, ChildEndSteps, ExitAfterStopStep DEF Child
<1>3. ASSUME NEW a \in asks, NEW quick \in BOOLEAN, Health(a, quick)
      PROVE  TypeOK' /\ SupInv'
  BY <1>3, HealthSteps
<1>4. CASE UNCHANGED vars
  BY <1>4 DEF vars, supVars, bounds, TypeOK, SupInv, OneLiveLaunch, HandedIsServing,
              CardTellsTheTruth, FoldedOnce, LaunchesSound, BackoffSound, AsksSound, Spent
<1>5. QED  BY <1>1, <1>2, <1>3, <1>4 DEF Next

\* The inductive invariant, for any number of attempts, calls and sleeps.
THEOREM SupervisorInvariant == Spec => [](TypeOK /\ SupInv)
<1>1. Init => TypeOK /\ SupInv  BY InitStep
<1>2. TypeOK /\ SupInv /\ [Next]_vars => (TypeOK /\ SupInv)'  BY NextStep
<1>3. QED  BY <1>1, <1>2, PTL DEF Spec

\* Every field keeps its type (EngineSupervisor, Launch, HealthWatch).
THEOREM SupervisorTypes == Spec => []TypeOK
<1>1. QED  BY SupervisorInvariant, PTL

\* At most one launch is live, and it is the one the supervisor holds (restart).
THEOREM NeverTwoEngines == Spec => []OneLiveLaunch
<1>1. SupInv => OneLiveLaunch  BY DEF SupInv
<1>2. QED  BY <1>1, SupervisorInvariant, PTL

\* What is handed out is the held launch, proven and not over (onReady).
THEOREM NeverHandsOutADeadEngine == Spec => []HandedIsServing
<1>1. SupInv => HandedIsServing  BY DEF SupInv
<1>2. QED  BY <1>1, SupervisorInvariant, PTL

\* The card is up over a collapsed trail, and down over a working engine (fold,
\* reachedReady).
THEOREM CardIsTruthful == Spec => []CardTellsTheTruth
<1>1. SupInv => CardTellsTheTruth  BY DEF SupInv
<1>2. QED  BY <1>1, SupervisorInvariant, PTL

\* No interleaving of a launch's ends folds it twice (endLaunch).
THEOREM NeverFoldedTwice == Spec => []FoldedOnce
<1>1. SupInv => FoldedOnce  BY DEF SupInv
<1>2. QED  BY <1>1, SupervisorInvariant, PTL

\* The answer to a question that slept through a suspend changes nothing
\* (HealthWatch.spent).
THEOREM SuspendIsNotASymptom == Spec => SleptAnswersChangeNothing
<1> DEFINE Inert == \A a \in asks : a.made = "slept" /\ a \notin asks' => UNCHANGED <<supVars, ls>>
<1>1. TypeOK /\ SupInv /\ [Next]_vars => [Inert]_vars
  <2> SUFFICES ASSUME TypeOK, SupInv, [Next]_vars,
                      NEW a \in asks, a.made = "slept", a \notin asks'
               PROVE  UNCHANGED <<supVars, ls>>
    OBVIOUS
  <2>1. Spent(a)
    BY DEF SupInv, AsksSound
  <2>2. asks' # asks
    OBVIOUS
  <2>3. ASSUME Resume PROVE FALSE
    <3>1. a \in Asked  BY DEF TypeOK
    <3>2. [a EXCEPT !.made = IF @ = "awake" THEN "slept"
                             ELSE IF @ = "suspending" THEN "missed" ELSE @] = a
      BY <3>1 DEF Asked
    <3>3. QED  BY <2>3, <3>2 DEF Resume
  <2>4. ~Calls /\ ~RestartTimer /\ ~Suspend
    BY <2>2 DEF Calls, Start, Stop, Restart, RestartTimer, Suspend, BeginLaunch
  <2>5. ASSUME NEW n \in Launches, NEW quick \in BOOLEAN, Child(n, quick) PROVE FALSE
    BY <2>5 DEF Child, Announce, BadAnnounce, AnnounceTimeout, ChildDies, ExitAfterStop,
                ExitEvent, ErrorEvent, LateEvent, GraceFires, Beat
  <2>6. ASSUME NEW b \in asks, NEW quick \in BOOLEAN, Health(b, quick)
        PROVE  UNCHANGED <<supVars, ls>>
    <3>1. CASE b = a
      BY <2>1, <2>6, <3>1 DEF Health, SpentAnswer, Answered, Strike, Unhealthy, LocalSocket
    <3>2. CASE b # a
      BY <2>6, <3>2 DEF Health, SpentAnswer, Answered, Strike, Unhealthy, LocalSocket
    <3>3. QED  BY <3>1, <3>2
  <2>7. CASE UNCHANGED vars
    BY <2>2, <2>7 DEF vars
  <2>8. QED  BY <2>3, <2>4, <2>5, <2>6, <2>7 DEF Next
<1>2. QED  BY <1>1, SupervisorInvariant, PTL DEF Spec, SleptAnswersChangeNothing

=============================================================================
