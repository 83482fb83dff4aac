------------------------------ MODULE Checkpoint ------------------------------
(***************************************************************************)
(* The engine's warm start (zengine/src/checkpoint.rs) as the attach turns *)
(* of ingest.rs use it: the fold of a log is written down when it lands,   *)
(* under a key of what it is a function of, and put onto the next fold     *)
(* whose key is the same.  Turns of one log may overlap, the process may   *)
(* die between any two steps, and the app and the game change the defines, *)
(* the seed files and the log whenever they like.                          *)
(*                                                                         *)
(* A fold is described by what it was made from; bytes, defines and seed   *)
(* files by their versions.  One byte stands for a slice of whole lines.   *)
(***************************************************************************)
EXTENDS Integers, FiniteSets

CONSTANTS
  MaxGen,        \* turns
  MaxBytes,      \* bytes of one log
  MaxUpsets,     \* logs replaced, defines pushed, seed files rewritten, saves that
                 \* fail and deaths of the process, together
  RewriteAfter   \* REWRITE_AFTER_BYTES

ASSUME CheckpointAssumption ==
  /\ MaxGen \in Nat /\ MaxBytes \in Nat /\ MaxUpsets \in Nat
  /\ RewriteAfter \in Nat \ {0}

Gens == 1 .. MaxGen
Logs == 1 .. MaxUpsets + 1   \* the files behind the log's path, one after another
None == 0

VARIABLES
  current, len,   \* the file behind the log's path, and how long each file is
  defines,        \* World::held_defines
  seeds,          \* the resist ledger and the message overlay on disk
  last, owner,    \* turns begun, and the one that owns the world
  pc,             \* turn -> where its thread stands
  fold,           \* turn -> its sink
  keyed,          \* turn -> ck_ctx.defines
  resume,         \* turn -> Resume.offset
  opened,         \* turn -> the log file it holds open
  posted,         \* turn -> a define waits in its channel
  saved,          \* turn -> the header and the parts it writes
  fd,             \* turn -> the file it writes them to
  path, tmp,      \* the files <name>.zck and <name>.zck.tmp name
  holds,          \* file -> the turns whose bytes it holds, and None for bytes in part
  calm,           \* turn -> nothing its fold depends on changed under it
  crossed,        \* two turns were writing the temporary file at once
  disowned,       \* a turn that had lost the world replaced the checkpoint
  failures, crashes

inputVars == <<current, len, defines, seeds>>
turnVars == <<pc, fold, keyed, resume, opened, posted, saved, fd>>
diskVars == <<path, tmp, holds>>
ghostVars == <<calm, crossed, disowned>>
vars == <<inputVars, last, owner, turnVars, diskVars, ghostVars, failures, crashes>>

\* The fold of the first n bytes of a log, under these seeds and this define.  A
\* fold is mixed once a file that several turns wrote went into it.
Whole(s, d, log, n) ==
  [seeds |-> s, define |-> d, log |-> IF n = 0 THEN None ELSE log, upto |-> n, pure |-> TRUE,
   mixed |-> FALSE]

NoFold == Whole(0, 0, None, 0)
NotSaved == [seeds |-> 0, define |-> 0, log |-> None, offset |-> 0, fold |-> NoFold, calm |-> FALSE]

\* What the process keeps of its turns when there are none.
NoLocals(f, k, r, o, p, d, c) ==
  /\ f = [g \in Gens |-> NoFold]
  /\ k = [g \in Gens |-> 0] /\ r = [g \in Gens |-> 0]
  /\ o = [g \in Gens |-> None] /\ p = [g \in Gens |-> FALSE]
  /\ d = [g \in Gens |-> None] /\ c = [g \in Gens |-> FALSE]

Init ==
  /\ current = 1 /\ len = [l \in Logs |-> 0] /\ defines = 0 /\ seeds = 0
  /\ last = 0 /\ owner = None
  /\ pc = [g \in Gens |-> "none"]
  /\ NoLocals(fold, keyed, resume, opened, posted, fd, calm)
  /\ saved = [g \in Gens |-> NotSaved]
  /\ path = None /\ tmp = None /\ holds = [g \in Gens |-> {}]
  /\ crossed = FALSE /\ disowned = FALSE
  /\ failures = 0 /\ crashes = 0

-----------------------------------------------------------------------------
(* What changes under a turn. *)

MayUpset == (current - 1) + defines + seeds + failures + crashes < MaxUpsets

\* Turns past one of these points lose their calm.
Disturbs(past) == calm' = [g \in Gens |-> calm[g] /\ pc[g] \notin past]

GameAppends ==
  /\ len[current] < MaxBytes
  /\ len' = [len EXCEPT ![current] = @ + 1]
  /\ UNCHANGED <<current, defines, seeds, last, owner, turnVars, diskVars, ghostVars, failures,
                 crashes>>

\* The log is rolled or replaced: other bytes behind the same path.
LogReplaced ==
  /\ MayUpset
  /\ current' = current + 1
  /\ Disturbs({"open", "scan", "landing", "create", "write", "rename", "live"})
  /\ UNCHANGED <<len, defines, seeds, last, owner, turnVars, diskVars, crossed, disowned, failures,
                 crashes>>

\* World::define: recorded, and posted through the owner's door if there is one.
DefineRecorded ==
  /\ MayUpset
  /\ defines' = defines + 1
  /\ posted' = [g \in Gens |-> posted[g] \/ (g = owner /\ pc[g] = "scan")]
  /\ Disturbs({"key", "restore", "open", "scan", "landing", "create", "write", "rename", "live"})
  /\ UNCHANGED <<current, len, seeds, last, owner, pc, fold, keyed, resume, opened, saved, fd,
                 diskVars, crossed, disowned, failures, crashes>>

SeedsRewritten ==
  /\ MayUpset
  /\ seeds' = seeds + 1
  /\ Disturbs({"defines", "key", "restore", "open", "scan", "landing", "create", "write", "rename",
               "live"})
  /\ UNCHANGED <<current, len, defines, last, owner, turnVars, diskVars, crossed, disowned,
                 failures, crashes>>

-----------------------------------------------------------------------------
(* One turn, up to its first byte. *)

Goes(g, there) == pc' = [pc EXCEPT ![g] = there]

\* Mutant: the world goes to a turn that was not counted.
AttachUncounted(elsewhere) ==
  /\ last < MaxGen
  /\ last' = last /\ owner' = last + 1
  /\ Goes(last + 1, IF elsewhere THEN "over" ELSE "build")
  /\ UNCHANGED <<inputVars, fold, keyed, resume, opened, posted, saved, fd, diskVars, ghostVars,
                 failures, crashes>>

\* World::attach, of this log or of another one.
Attach(elsewhere) ==
  /\ last < MaxGen
  /\ last' = last + 1 /\ owner' = last + 1
  /\ Goes(last + 1, IF elsewhere THEN "over" ELSE "build")
  /\ UNCHANGED <<inputVars, fold, keyed, resume, opened, posted, saved, fd, diskVars, ghostVars,
                 failures, crashes>>

\* The sink is built over the seed files.
BuildSink(g) ==
  /\ pc[g] = "build" /\ Goes(g, "defines")
  /\ fold' = [fold EXCEPT ![g] = Whole(seeds, 0, None, 0)]
  /\ calm' = [calm EXCEPT ![g] = TRUE]
  /\ UNCHANGED <<inputVars, last, owner, keyed, resume, opened, posted, saved, fd, diskVars,
                 crossed, disowned, failures, crashes>>

ApplyHeldDefines(g) ==
  /\ pc[g] = "defines" /\ Goes(g, "key")
  /\ fold' = [fold EXCEPT ![g].define = defines]
  /\ UNCHANGED <<inputVars, last, owner, keyed, resume, opened, posted, saved, fd, diskVars,
                 ghostVars, failures, crashes>>

\* Ctx::for_attach reads the held defines a second time.
ForAttach(g) ==
  /\ pc[g] = "key" /\ Goes(g, "restore")
  /\ keyed' = [keyed EXCEPT ![g] = defines]
  /\ UNCHANGED <<inputVars, last, owner, fold, resume, opened, posted, saved, fd, diskVars,
                 ghostVars, failures, crashes>>

\* Mutant: the bytes before the mark are not compared, only their number.
MatchesUnhashed(g, header) ==
  header.define = keyed[g] /\ header.seeds = seeds /\ header.offset <= len[current]

\* The header's key and prefix against this attach and the log's bytes now.
Matches(g, header) ==
  /\ header.define = keyed[g] /\ header.seeds = seeds
  /\ header.log = current /\ header.offset <= len[current]

\* try_restore: the checkpoint is used, or the fold is cold.
Restore(g) ==
  /\ pc[g] = "restore" /\ Goes(g, "open")
  /\ IF \E h \in Gens : path # None /\ holds[path] = {h} /\ Matches(g, saved[h])
     THEN LET h == CHOOSE h \in Gens : holds[path] = {h}
          IN  /\ fold' = [fold EXCEPT ![g] = saved[h].fold]
              /\ resume' = [resume EXCEPT ![g] = saved[h].offset]
              /\ calm' = [calm EXCEPT ![g] = @ /\ saved[h].calm]
     ELSE UNCHANGED <<fold, resume, calm>>
  /\ UNCHANGED <<inputVars, last, owner, keyed, opened, posted, saved, fd, diskVars, crossed,
                 disowned, failures, crashes>>

\* A file more than one turn wrote has no checksum to tell: it may be refused half-way
\* through the modules, over which the cold fold then runs, or be taken.
RestoreMixture(g, offset) ==
  /\ pc[g] = "restore" /\ Goes(g, "open")
  /\ path # None /\ Cardinality(holds[path]) > 1
  /\ offset \in {0} \cup {saved[h].offset : h \in holds[path] \ {None}}
  /\ fold' = [fold EXCEPT ![g].pure = FALSE, ![g].mixed = TRUE, ![g].upto = offset,
                          ![g].log = IF offset = 0 THEN None ELSE current]
  /\ resume' = [resume EXCEPT ![g] = offset]
  /\ UNCHANGED <<inputVars, last, owner, keyed, opened, posted, saved, fd, diskVars, ghostVars,
                 failures, crashes>>

\* File::open, then the reports and doors a turn that has lost is refused.
OpenLog(g) ==
  /\ pc[g] = "open"
  /\ Goes(g, IF owner = g THEN "scan" ELSE "over")
  /\ opened' = [opened EXCEPT ![g] = current]
  /\ UNCHANGED <<inputVars, last, owner, fold, keyed, resume, posted, saved, fd, diskVars,
                 ghostVars, failures, crashes>>

-----------------------------------------------------------------------------
(* The scan, from the resume offset to the end of the file. *)

\* The next slice of a log is folded.
Folded(f, log) ==
  [f EXCEPT !.upto = @ + 1, !.log = log, !.pure = @ /\ (f.upto = 0 \/ f.log = log)]

\* A define taken by a fold that has folded something under another.
Given(f, d) == [f EXCEPT !.define = d, !.pure = @ /\ (f.upto = 0 \/ f.define = d)]

FoldSlice(g) ==
  /\ pc[g] = "scan" /\ fold[g].upto < len[opened[g]]
  /\ LET folded == Folded(fold[g], opened[g])
     IN  IF owner = g
         THEN /\ fold' = [fold EXCEPT ![g] = IF posted[g] THEN Given(folded, defines) ELSE folded]
              /\ posted' = [posted EXCEPT ![g] = FALSE]
              /\ pc' = pc
         ELSE /\ fold' = [fold EXCEPT ![g] = folded]
              /\ Goes(g, "over")
              /\ UNCHANGED posted
  /\ UNCHANGED <<inputVars, last, owner, keyed, resume, opened, saved, fd, diskVars, ghostVars,
                 failures, crashes>>

\* The end of the file, as far as it was written.
ScanEnds(g) ==
  /\ pc[g] = "scan" /\ fold[g].upto >= len[opened[g]]
  /\ Goes(g, "landing")
  /\ UNCHANGED <<inputVars, last, owner, fold, keyed, resume, opened, posted, saved, fd, diskVars,
                 ghostVars, failures, crashes>>

-----------------------------------------------------------------------------
(* save, and the landing after it. *)

\* What a turn goes on to: the landing is reported, or was somebody else's.
Landed(g) == Goes(g, IF owner = g THEN "live" ELSE "over")

\* Mutant: a cold fold of a short log is taken for a recent checkpoint.
SaveSkippedUnresumed(g) ==
  /\ pc[g] = "landing"
  /\ fold[g].upto < resume[g] + RewriteAfter
  /\ Landed(g)
  /\ UNCHANGED <<inputVars, last, owner, fold, keyed, resume, opened, posted, saved, fd, diskVars,
                 ghostVars, failures, crashes>>

\* A quick relaunch does not pay for the serialization twice.
SaveSkipped(g) ==
  /\ pc[g] = "landing"
  /\ resume[g] > 0 /\ fold[g].upto < resume[g] + RewriteAfter
  /\ Landed(g)
  /\ UNCHANGED <<inputVars, last, owner, fold, keyed, resume, opened, posted, saved, fd, diskVars,
                 ghostVars, failures, crashes>>

\* The header: the inputs read again, and a hash of the bytes behind the path.
SaveKeyed(g) ==
  /\ pc[g] = "landing"
  /\ resume[g] = 0 \/ fold[g].upto >= resume[g] + RewriteAfter
  /\ IF fold[g].upto <= len[current]
     THEN /\ saved' = [saved EXCEPT ![g] = [seeds |-> seeds, define |-> keyed[g], log |-> current,
                                            offset |-> fold[g].upto, fold |-> fold[g],
                                            calm |-> calm[g]]]
          /\ Goes(g, "create")
     ELSE Landed(g) /\ UNCHANGED saved
  /\ UNCHANGED <<inputVars, last, owner, fold, keyed, resume, opened, posted, fd, diskVars,
                 ghostVars, failures, crashes>>

Writing == {g \in Gens : pc[g] \in {"write", "rename"}}

\* Mutant: the checkpoint is written where it is read.
CreateInPlace(g) ==
  LET file == IF path = None THEN g ELSE path
  IN  /\ pc[g] = "create" /\ Goes(g, "write")
      /\ path' = file
      /\ fd' = [fd EXCEPT ![g] = file]
      /\ holds' = [holds EXCEPT ![file] = {}]
      /\ crossed' = (crossed \/ Writing # {})
      /\ UNCHANGED <<inputVars, last, owner, fold, keyed, resume, opened, posted, saved, tmp, calm,
                     disowned, failures, crashes>>

\* File::create: the file the temporary path names is emptied, or a new one made.
\* A turn that was writing to it writes on behind a hole.
CreateTmp(g) ==
  LET file == IF tmp = None THEN g ELSE tmp
  IN  /\ pc[g] = "create" /\ Goes(g, "write")
      /\ tmp' = file
      /\ fd' = [fd EXCEPT ![g] = file]
      /\ holds' = [holds EXCEPT ![file] =
                     {None : h \in {h \in Gens : pc[h] = "write" /\ fd[h] = file}}]
      /\ crossed' = (crossed \/ Writing # {})
      /\ UNCHANGED <<inputVars, last, owner, fold, keyed, resume, opened, posted, saved, path, calm,
                     disowned, failures, crashes>>

\* Every byte written and synced.
WriteParts(g) ==
  /\ pc[g] = "write" /\ Goes(g, "rename")
  /\ holds' = [holds EXCEPT ![fd[g]] = @ \cup {g}]
  /\ UNCHANGED <<inputVars, last, owner, fold, keyed, resume, opened, posted, saved, fd, path, tmp,
                 ghostVars, failures, crashes>>

\* The checkpoint cannot be taken, or a write fails: the temporary goes, or not.
SaveFails(g) ==
  /\ pc[g] \in {"create", "write"} /\ MayUpset
  /\ failures' = failures + 1
  /\ tmp' \in {tmp, None}
  /\ holds' = IF pc[g] = "write" THEN [holds EXCEPT ![fd[g]] = @ \cup {None}] ELSE holds
  /\ Landed(g)
  /\ UNCHANGED <<inputVars, last, owner, fold, keyed, resume, opened, posted, saved, fd, path,
                 ghostVars, crashes>>

\* rename moves whatever the temporary path names by now, and fails on nothing.
Rename(g) ==
  /\ pc[g] = "rename" /\ Landed(g)
  /\ path' = IF tmp = None THEN path ELSE tmp
  /\ tmp' = None
  /\ disowned' = (disowned \/ owner # g)
  /\ UNCHANGED <<inputVars, last, owner, fold, keyed, resume, opened, posted, saved, fd, holds,
                 calm, crossed, failures, crashes>>

\* The process dies: every turn and its locals are gone, the files stay.
Crash ==
  /\ owner # None /\ MayUpset
  /\ crashes' = crashes + 1
  /\ owner' = None
  /\ pc' = [g \in Gens |-> IF pc[g] = "none" THEN "none" ELSE "over"]
  /\ NoLocals(fold', keyed', resume', opened', posted', fd', calm')
  /\ UNCHANGED <<inputVars, last, saved, diskVars, crossed, disowned, failures>>

-----------------------------------------------------------------------------

TurnStep(g) ==
  \/ BuildSink(g) \/ ApplyHeldDefines(g) \/ ForAttach(g) \/ Restore(g)
  \/ \E offset \in 0 .. MaxBytes : RestoreMixture(g, offset)
  \/ OpenLog(g) \/ FoldSlice(g) \/ ScanEnds(g)
  \/ SaveSkipped(g) \/ SaveKeyed(g) \/ CreateTmp(g) \/ WriteParts(g) \/ SaveFails(g) \/ Rename(g)

Next ==
  \/ GameAppends \/ LogReplaced \/ DefineRecorded \/ SeedsRewritten \/ Crash
  \/ \E elsewhere \in BOOLEAN : Attach(elsewhere)
  \/ \E g \in Gens : TurnStep(g)

Spec == Init /\ [][Next]_vars

-----------------------------------------------------------------------------

Folds == [seeds : Nat, define : Nat, log : Nat, upto : Nat, pure : BOOLEAN,
          mixed : BOOLEAN]
Headers == [seeds : Nat, define : Nat, log : Nat, offset : Nat, fold : Folds, calm : BOOLEAN]

\* Every variable has its type.
TypeOK ==
  /\ current \in Logs /\ len \in [Logs -> Nat] /\ defines \in Nat /\ seeds \in Nat
  /\ last \in 0 .. MaxGen /\ owner \in 0 .. last
  /\ pc \in [Gens -> {"none", "build", "defines", "key", "restore", "open", "scan", "landing",
                      "create", "write", "rename", "live", "over"}]
  /\ fold \in [Gens -> Folds] /\ keyed \in [Gens -> Nat] /\ resume \in [Gens -> Nat]
  /\ opened \in [Gens -> Logs \cup {None}] /\ posted \in [Gens -> BOOLEAN]
  /\ saved \in [Gens -> Headers]
  /\ fd \in [Gens -> Gens \cup {None}]
  /\ path \in Gens \cup {None} /\ tmp \in Gens \cup {None} /\ holds \in [Gens -> SUBSET (Gens \cup {None})]
  /\ calm \in [Gens -> BOOLEAN] /\ crossed \in BOOLEAN /\ disowned \in BOOLEAN
  /\ failures \in Nat /\ crashes \in Nat

Scanned == {"scan", "landing", "create", "write", "rename", "live"}

\* A warm fold is the cold fold: as long as nothing it depends on changed while
\* it was made, nor while the checkpoint it continues was made, a turn holds
\* exactly the fold of the log's bytes so far under the seeds and the defines
\* there are (checkpoint.rs: "nothing about the fold's answers changes").  Excepted
\* is a fold that a file several turns wrote went into, by this turn or by one whose
\* checkpoint it continues: two turns writing the one temporary at once can leave a
\* file that is accepted, or refused with half of it restored, and such a fold is
\* not the cold one though all its inputs stood still.
WarmIsCold ==
  \A g \in Gens : calm[g] /\ ~fold[g].mixed /\ pc[g] \in Scanned =>
    fold[g] = Whole(seeds, defines, current, fold[g].upto)

\* Whenever the process dies, the checkpoint is absent or one turn's whole file,
\* as long as no two turns wrote their temporary at once.
CheckpointIsWhole ==
  path # None /\ ~crossed => \E h \in Gens : holds[path] = {h}

\* A landing that was not spoilt leaves a checkpoint less than RewriteAfter bytes
\* behind it: no failed save, no two turns writing the temporary at once, no turn
\* that had lost the world writing over it.
LandingIsKept ==
  \A g \in Gens :
    pc[g] = "live" /\ calm[g] /\ failures = 0 /\ ~crossed /\ ~disowned =>
      \E h \in Gens : path # None /\ holds[path] = {h} /\ fold[g].upto < saved[h].offset + RewriteAfter

=============================================================================
