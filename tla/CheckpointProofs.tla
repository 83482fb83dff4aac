--------------------------- MODULE CheckpointProofs ---------------------------
(***************************************************************************)
(* Proofs about Checkpoint for any number of turns, bytes and upsets: the  *)
(* types, that a fold continued from a checkpoint is the fold made from    *)
(* the first byte, that a checkpoint is one turn's whole file, and that a  *)
(* landing leaves one behind.                                              *)
(***************************************************************************)
EXTENDS Checkpoint, FiniteSetTheorems, TLAPS

USE CheckpointAssumption

PCs == {"none", "build", "defines", "key", "restore", "open", "scan", "landing",
        "create", "write", "rename", "live", "over"}

-----------------------------------------------------------------------------
(* Types. *)

\* A fold made from the first byte has the type of a fold, and what a slice or a
\* define makes of a fold keeps it.
LEMMA WholeType ==
  ASSUME NEW s \in Nat, NEW d \in Nat, NEW log \in Nat, NEW n \in Nat
  PROVE  Whole(s, d, log, n) \in Folds
<1>1. (IF n = 0 THEN 0 ELSE log) \in Nat
  OBVIOUS
<1> QED BY <1>1 DEF Whole, Folds, None

LEMMA FoldedType ==
  ASSUME NEW f \in Folds, NEW log \in Nat
  PROVE  Folded(f, log) \in Folds
<1> DEFINE n == f.upto + 1
           p == f.pure /\ (f.upto = 0 \/ f.log = log)
<1>1. n \in Nat /\ p \in BOOLEAN
  BY DEF Folds
<1>2. Folded(f, log) = [f EXCEPT !.upto = n, !.log = log, !.pure = p]
  BY DEF Folded
<1> HIDE DEF n, p
<1>3. [f EXCEPT !.upto = n, !.log = log, !.pure = p] \in Folds
  BY <1>1 DEF Folds
<1> QED BY <1>2, <1>3

LEMMA GivenType ==
  ASSUME NEW f \in Folds, NEW d \in Nat
  PROVE  Given(f, d) \in Folds
<1>1. (f.pure /\ (f.upto = 0 \/ f.define = d)) \in BOOLEAN
  OBVIOUS
<1> QED BY <1>1 DEF Given, Folds

LEMMA NoFoldType == NoFold \in Folds
BY WholeType DEF NoFold, None

LEMMA NotSavedType == NotSaved \in Headers
BY NoFoldType DEF NotSaved, Headers, None

\* Every reachable state has its types.
THEOREM TypeCorrect == Spec => []TypeOK
<1>1. Init => TypeOK
  <2> SUFFICES ASSUME Init PROVE TypeOK
    OBVIOUS
  <2> USE DEF Init, NoLocals, None
  <2>1. current \in Logs /\ len \in [Logs -> Nat] /\ defines \in Nat /\ seeds \in Nat
    BY DEF Logs
  <2>2. last \in 0 .. MaxGen /\ owner \in 0 .. last
    OBVIOUS
  <2>3. pc \in [Gens -> PCs] /\ fold \in [Gens -> Folds] /\ saved \in [Gens -> Headers]
    BY NoFoldType, NotSavedType DEF PCs
  <2>4. /\ keyed \in [Gens -> Nat] /\ resume \in [Gens -> Nat] /\ opened \in [Gens -> Logs \cup {None}]
        /\ fd \in [Gens -> Gens \cup {None}]
    OBVIOUS
  <2>5. /\ posted \in [Gens -> BOOLEAN] /\ calm \in [Gens -> BOOLEAN]
        /\ crossed \in BOOLEAN /\ disowned \in BOOLEAN
    OBVIOUS
  <2>6. /\ path \in Gens \cup {None} /\ tmp \in Gens \cup {None}
        /\ holds \in [Gens -> SUBSET (Gens \cup {None})] /\ failures \in Nat /\ crashes \in Nat
    OBVIOUS
  <2> QED
    BY <2>1, <2>2, <2>3, <2>4, <2>5, <2>6 DEF TypeOK, PCs
<1>2. TypeOK /\ [Next]_vars => TypeOK'
  <2> SUFFICES ASSUME TypeOK, [Next]_vars PROVE TypeOK'
    OBVIOUS
  <2>1. CASE UNCHANGED vars
    BY <2>1 DEF TypeOK, vars, inputVars, turnVars, diskVars, ghostVars
  <2>2. CASE GameAppends
    <3>1. len' \in [Logs -> Nat]
      BY <2>2 DEF TypeOK, None, PCs, GameAppends
    <3> QED
      BY <2>2, <3>1 DEF TypeOK, PCs, GameAppends, inputVars, turnVars, diskVars, ghostVars
  <2>3. CASE LogReplaced
    <3>1. current' \in Logs
      BY <2>3 DEF TypeOK, None, PCs, LogReplaced, Disturbs, MayUpset, Logs
    <3>2. calm' \in [Gens -> BOOLEAN]
      BY <2>3 DEF TypeOK, None, PCs, LogReplaced, Disturbs, MayUpset, Logs
    <3> QED
      BY <2>3, <3>1, <3>2 DEF TypeOK, PCs, LogReplaced, inputVars, turnVars, diskVars, ghostVars
  <2>4. CASE DefineRecorded
    <3>1. defines' \in Nat
      BY <2>4 DEF TypeOK, None, PCs, DefineRecorded, Disturbs
    <3>2. posted' \in [Gens -> BOOLEAN]
      BY <2>4 DEF TypeOK, None, PCs, DefineRecorded, Disturbs
    <3>3. calm' \in [Gens -> BOOLEAN]
      BY <2>4 DEF TypeOK, None, PCs, DefineRecorded, Disturbs
    <3> QED
      BY <2>4, <3>1, <3>2, <3>3 DEF TypeOK, PCs, DefineRecorded, inputVars, turnVars, diskVars, ghostVars
  <2>5. CASE SeedsRewritten
    <3>1. seeds' \in Nat
      BY <2>5 DEF TypeOK, None, PCs, SeedsRewritten, Disturbs
    <3>2. calm' \in [Gens -> BOOLEAN]
      BY <2>5 DEF TypeOK, None, PCs, SeedsRewritten, Disturbs
    <3> QED
      BY <2>5, <3>1, <3>2 DEF TypeOK, PCs, SeedsRewritten, inputVars, turnVars, diskVars, ghostVars
  <2>6. CASE Crash
    <3>1. crashes' \in Nat
      BY <2>6 DEF TypeOK, None, PCs, Crash, NoLocals
    <3>2. owner' \in 0 .. last'
      BY <2>6 DEF TypeOK, None, PCs, Crash, NoLocals
    <3>3. pc' \in [Gens -> PCs]
      BY <2>6 DEF TypeOK, None, PCs, Crash, NoLocals
    <3>4. fold' \in [Gens -> Folds]
      BY <2>6, NoFoldType DEF TypeOK, None, PCs, Crash, NoLocals
    <3>5. keyed' \in [Gens -> Nat]
      BY <2>6 DEF TypeOK, None, PCs, Crash, NoLocals
    <3>6. resume' \in [Gens -> Nat]
      BY <2>6 DEF TypeOK, None, PCs, Crash, NoLocals
    <3>7. opened' \in [Gens -> Logs \cup {None}]
      BY <2>6 DEF TypeOK, None, PCs, Crash, NoLocals
    <3>8. posted' \in [Gens -> BOOLEAN]
      BY <2>6 DEF TypeOK, None, PCs, Crash, NoLocals
    <3>9. fd' \in [Gens -> Gens \cup {None}]
      BY <2>6 DEF TypeOK, None, PCs, Crash, NoLocals
    <3>10. calm' \in [Gens -> BOOLEAN]
      BY <2>6 DEF TypeOK, None, PCs, Crash, NoLocals
    <3> QED
      BY <2>6, <3>1, <3>2, <3>3, <3>4, <3>5, <3>6, <3>7, <3>8, <3>9, <3>10 DEF TypeOK, PCs, Crash, inputVars, turnVars, diskVars, ghostVars
  <2>7. ASSUME NEW elsewhere \in BOOLEAN, Attach(elsewhere) PROVE TypeOK'
    <3>1. last' \in 0 .. MaxGen
      BY <2>7 DEF TypeOK, None, PCs, Attach, Goes, Gens
    <3>2. owner' \in 0 .. last'
      BY <2>7 DEF TypeOK, None, PCs, Attach, Goes, Gens
    <3>3. pc' \in [Gens -> PCs]
      BY <2>7 DEF TypeOK, None, PCs, Attach, Goes, Gens
    <3> QED
      BY <2>7, <3>1, <3>2, <3>3 DEF TypeOK, PCs, Attach, inputVars, turnVars, diskVars, ghostVars
  <2>8. ASSUME NEW g \in Gens, TurnStep(g) PROVE TypeOK'
    <3>1. CASE BuildSink(g)
      <4>1. Whole(seeds, 0, None, 0) \in Folds
        BY WholeType DEF TypeOK, None
      <4>2. fold' \in [Gens -> Folds]
        BY <3>1, <4>1 DEF TypeOK, BuildSink
      <4>3. pc' \in [Gens -> PCs] /\ calm' \in [Gens -> BOOLEAN]
        BY <3>1 DEF TypeOK, PCs, BuildSink, Goes
      <4> QED
        BY <3>1, <4>2, <4>3 DEF TypeOK, PCs, BuildSink, inputVars, turnVars, diskVars, ghostVars
    <3>2. CASE ApplyHeldDefines(g)
      <4>1. [fold[g] EXCEPT !.define = defines] \in Folds
        BY DEF TypeOK, Folds
      <4>2. fold' \in [Gens -> Folds]
        BY <3>2, <4>1 DEF TypeOK, ApplyHeldDefines
      <4>3. pc' \in [Gens -> PCs]
        BY <3>2 DEF TypeOK, PCs, ApplyHeldDefines, Goes
      <4> QED
        BY <3>2, <4>2, <4>3 DEF TypeOK, PCs, ApplyHeldDefines, inputVars, turnVars, diskVars, ghostVars
    <3>3. CASE ForAttach(g)
      <4>1. pc' \in [Gens -> PCs]
        BY <3>3 DEF TypeOK, None, PCs, ForAttach, Goes
      <4>2. keyed' \in [Gens -> Nat]
        BY <3>3 DEF TypeOK, None, PCs, ForAttach, Goes
      <4> QED
        BY <3>3, <4>1, <4>2 DEF TypeOK, PCs, ForAttach, inputVars, turnVars, diskVars, ghostVars
    <3>4. CASE Restore(g)
      <4>1. \A h \in Gens : /\ saved[h].fold \in Folds /\ saved[h].offset \in Nat
                             /\ saved[h].calm \in BOOLEAN
        BY DEF TypeOK, Headers
      <4>2. \/ \E h \in Gens : /\ fold' = [fold EXCEPT ![g] = saved[h].fold]
                                /\ resume' = [resume EXCEPT ![g] = saved[h].offset]
                                /\ calm' = [calm EXCEPT ![g] = @ /\ saved[h].calm]
            \/ UNCHANGED <<fold, resume, calm>>
        BY <3>4 DEF Restore
      <4>3. fold' \in [Gens -> Folds]
        BY <4>1, <4>2 DEF TypeOK
      <4>4. resume' \in [Gens -> Nat]
        BY <4>1, <4>2 DEF TypeOK
      <4>5. calm' \in [Gens -> BOOLEAN]
        BY <4>1, <4>2 DEF TypeOK
      <4>6. pc' \in [Gens -> PCs]
        BY <3>4 DEF TypeOK, PCs, Restore, Goes
      <4> QED
        BY <3>4, <4>3, <4>4, <4>5, <4>6
        DEF TypeOK, PCs, Restore, inputVars, turnVars, diskVars, ghostVars
    <3>5. ASSUME NEW offset \in 0 .. MaxBytes, RestoreMixture(g, offset) PROVE TypeOK'
      <4> DEFINE log == IF offset = 0 THEN None ELSE current
                 mixture == [fold[g] EXCEPT !.pure = FALSE, !.mixed = TRUE, !.upto = offset, !.log = log]
      <4>1. offset \in Nat /\ log \in Nat
        BY DEF TypeOK, Logs, None
      <4>2. mixture \in Folds
        <5>1. fold[g] \in Folds
          BY DEF TypeOK
        <5> HIDE DEF log
        <5> QED BY <4>1, <5>1 DEF Folds
      <4>3. fold' = [fold EXCEPT ![g] = mixture]
        BY <3>5 DEF TypeOK, RestoreMixture
      <4>4. fold' \in [Gens -> Folds]
        <5> HIDE DEF mixture
        <5> QED BY <4>2, <4>3 DEF TypeOK
      <4>5. pc' \in [Gens -> PCs] /\ resume' \in [Gens -> Nat] /\ calm' \in [Gens -> BOOLEAN]
        BY <3>5, <4>1 DEF TypeOK, PCs, RestoreMixture, Goes, ghostVars
      <4> QED
        BY <3>5, <4>4, <4>5 DEF TypeOK, PCs, RestoreMixture, inputVars, turnVars, diskVars, ghostVars
    <3>6. CASE OpenLog(g)
      <4>1. pc' \in [Gens -> PCs]
        BY <3>6 DEF TypeOK, None, PCs, OpenLog, Goes
      <4>2. opened' \in [Gens -> Logs \cup {None}]
        BY <3>6 DEF TypeOK, None, PCs, OpenLog, Goes
      <4> QED
        BY <3>6, <4>1, <4>2 DEF TypeOK, PCs, OpenLog, inputVars, turnVars, diskVars, ghostVars
    <3>7. CASE FoldSlice(g)
      <4> DEFINE folded == Folded(fold[g], opened[g])
      <4>1. fold[g] \in Folds /\ opened[g] \in Nat /\ defines \in Nat
        BY DEF TypeOK, Logs, None
      <4>2. folded \in Folds /\ Given(folded, defines) \in Folds
        BY <4>1, FoldedType, GivenType
      <4>3. \E f \in Folds : fold' = [fold EXCEPT ![g] = f]
        <5>1. fold' = [fold EXCEPT ![g] = IF owner = g /\ posted[g] THEN Given(folded, defines) ELSE folded]
          BY <3>7 DEF FoldSlice
        <5> HIDE DEF folded
        <5> QED BY <4>2, <5>1
      <4>4. fold' \in [Gens -> Folds]
        BY <4>3 DEF TypeOK
      <4>5. pc' \in [Gens -> PCs] /\ posted' \in [Gens -> BOOLEAN]
        BY <3>7 DEF TypeOK, PCs, FoldSlice, Goes
      <4> QED
        BY <3>7, <4>4, <4>5 DEF TypeOK, PCs, FoldSlice, inputVars, turnVars, diskVars, ghostVars
    <3>8. CASE ScanEnds(g)
      <4>1. pc' \in [Gens -> PCs]
        BY <3>8 DEF TypeOK, None, PCs, ScanEnds, Goes
      <4> QED
        BY <3>8, <4>1 DEF TypeOK, PCs, ScanEnds, inputVars, turnVars, diskVars, ghostVars
    <3>9. CASE SaveSkipped(g)
      <4>1. pc' \in [Gens -> PCs]
        BY <3>9 DEF TypeOK, None, PCs, SaveSkipped, Goes, Landed
      <4> QED
        BY <3>9, <4>1 DEF TypeOK, PCs, SaveSkipped, inputVars, turnVars, diskVars, ghostVars
    <3>10. CASE SaveKeyed(g)
      <4> DEFINE header == [seeds |-> seeds, define |-> keyed[g], log |-> current,
                            offset |-> fold[g].upto, fold |-> fold[g], calm |-> calm[g]]
      <4>1. /\ seeds \in Nat /\ keyed[g] \in Nat /\ current \in Nat /\ fold[g] \in Folds
            /\ fold[g].upto \in Nat /\ calm[g] \in BOOLEAN
        BY DEF TypeOK, Logs, Folds
      <4>2. header \in Headers
        BY <4>1 DEF Headers
      <4>3. saved' = [saved EXCEPT ![g] = header] \/ saved' = saved
        BY <3>10 DEF SaveKeyed
      <4>4. saved' \in [Gens -> Headers]
        <5> HIDE DEF header
        <5> QED BY <4>2, <4>3 DEF TypeOK
      <4>5. pc' \in [Gens -> PCs]
        BY <3>10 DEF TypeOK, PCs, SaveKeyed, Goes, Landed
      <4> QED
        BY <3>10, <4>4, <4>5 DEF TypeOK, PCs, SaveKeyed, inputVars, turnVars, diskVars, ghostVars
    <3>11. CASE CreateTmp(g)
      <4>1. pc' \in [Gens -> PCs]
        BY <3>11 DEF TypeOK, None, PCs, CreateTmp, Goes, Writing
      <4>2. tmp' \in Gens \cup {None}
        BY <3>11 DEF TypeOK, None, PCs, CreateTmp, Goes, Writing
      <4>3. fd' \in [Gens -> Gens \cup {None}]
        BY <3>11 DEF TypeOK, None, PCs, CreateTmp, Goes, Writing
      <4>4. holds' \in [Gens -> SUBSET (Gens \cup {None})]
        BY <3>11 DEF TypeOK, None, PCs, CreateTmp, Goes, Writing
      <4>5. crossed' \in BOOLEAN
        BY <3>11 DEF TypeOK, None, PCs, CreateTmp, Goes, Writing
      <4> QED
        BY <3>11, <4>1, <4>2, <4>3, <4>4, <4>5 DEF TypeOK, PCs, CreateTmp, inputVars, turnVars, diskVars, ghostVars
    <3>12. CASE WriteParts(g)
      <4>1. pc' \in [Gens -> PCs]
        BY <3>12 DEF TypeOK, None, PCs, WriteParts, Goes
      <4>2. holds' \in [Gens -> SUBSET (Gens \cup {None})]
        BY <3>12 DEF TypeOK, None, PCs, WriteParts, Goes
      <4> QED
        BY <3>12, <4>1, <4>2 DEF TypeOK, PCs, WriteParts, inputVars, turnVars, diskVars, ghostVars
    <3>13. CASE SaveFails(g)
      <4>1. pc' \in [Gens -> PCs]
        BY <3>13 DEF TypeOK, None, PCs, SaveFails, Goes, Landed
      <4>2. failures' \in Nat
        BY <3>13 DEF TypeOK, None, PCs, SaveFails, Goes, Landed
      <4>3. tmp' \in Gens \cup {None}
        BY <3>13 DEF TypeOK, None, PCs, SaveFails, Goes, Landed
      <4>4. holds' \in [Gens -> SUBSET (Gens \cup {None})]
        BY <3>13 DEF TypeOK, None, PCs, SaveFails, Goes, Landed
      <4> QED
        BY <3>13, <4>1, <4>2, <4>3, <4>4 DEF TypeOK, PCs, SaveFails, inputVars, turnVars, diskVars, ghostVars
    <3>14. CASE Rename(g)
      <4>1. pc' \in [Gens -> PCs]
        BY <3>14 DEF TypeOK, None, PCs, Rename, Goes, Landed
      <4>2. path' \in Gens \cup {None}
        BY <3>14 DEF TypeOK, None, PCs, Rename, Goes, Landed
      <4>3. tmp' \in Gens \cup {None}
        BY <3>14 DEF TypeOK, None, PCs, Rename, Goes, Landed
      <4>4. disowned' \in BOOLEAN
        BY <3>14 DEF TypeOK, None, PCs, Rename, Goes, Landed
      <4> QED
        BY <3>14, <4>1, <4>2, <4>3, <4>4 DEF TypeOK, PCs, Rename, inputVars, turnVars, diskVars, ghostVars
    <3> QED
      BY <2>8, <3>1, <3>2, <3>3, <3>4, <3>5, <3>6, <3>7, <3>8, <3>9, <3>10, <3>11, <3>12, <3>13, <3>14 DEF TurnStep
  <2> QED
    BY <2>1, <2>2, <2>3, <2>4, <2>5, <2>6, <2>7, <2>8 DEF Next
<1> QED
  BY <1>1, <1>2, PTL DEF Spec

-----------------------------------------------------------------------------
(* A fold continued is the fold made from the first byte. *)

\* A header that was taken calmly names what its fold was made from, unless a
\* file of several turns went into it.
HeaderTells(h) ==
  saved[h].calm /\ ~saved[h].fold.mixed =>
    saved[h].fold = Whole(saved[h].seeds, saved[h].define, saved[h].log, saved[h].offset)

\* What calm means at each point of a turn.
KnowsItsFold(g) ==
  calm[g] =>
    /\ pc[g] = "defines" => fold[g] = Whole(seeds, 0, None, 0)
    /\ pc[g] \in {"key", "restore"} => fold[g] = Whole(seeds, defines, None, 0)
    /\ pc[g] \in {"open"} \cup Scanned /\ ~fold[g].mixed =>
         fold[g] = Whole(seeds, defines, current, fold[g].upto)
    /\ pc[g] \in {"restore", "open"} \cup Scanned => keyed[g] = defines
    /\ pc[g] \in Scanned => opened[g] = current

KeyTellsTheFold == \A g \in Gens : HeaderTells(g) /\ KnowsItsFold(g)

\* A fold is its fields.
LEMMA SameFold ==
  ASSUME NEW e \in Folds, NEW f \in Folds, e.seeds = f.seeds, e.define = f.define,
         e.log = f.log, e.upto = f.upto, e.pure = f.pure, e.mixed = f.mixed
  PROVE  e = f
BY DEF Folds

\* The defines a whole fold of nothing is given are those of a whole fold.
LEMMA WholeGiven ==
  ASSUME NEW s \in Nat, NEW d \in Nat
  PROVE  [Whole(s, 0, None, 0) EXCEPT !.define = d] = Whole(s, d, None, 0)
<1> DEFINE w == Whole(s, 0, None, 0)
           e == [w EXCEPT !.define = d]
<1>1. w \in Folds /\ Whole(s, d, None, 0) \in Folds
  BY WholeType DEF None
<1>2. e \in Folds
  <2> HIDE DEF w
  <2> QED BY <1>1 DEF Folds
<1>3. /\ e.define = d /\ e.seeds = w.seeds /\ e.log = w.log /\ e.upto = w.upto
      /\ e.pure = w.pure /\ e.mixed = w.mixed
  <2> HIDE DEF w
  <2> QED BY <1>1 DEF Folds
<1> DEFINE f == Whole(s, d, None, 0)
<1>4. /\ f.define = d /\ w.seeds = f.seeds /\ w.log = f.log /\ w.upto = f.upto
      /\ w.pure = f.pure /\ w.mixed = f.mixed
  BY DEF Whole
<1>5. /\ e.define = f.define /\ e.seeds = f.seeds /\ e.log = f.log /\ e.upto = f.upto
      /\ e.pure = f.pure /\ e.mixed = f.mixed
  <2> HIDE DEF w, e, f
  <2> QED BY <1>3, <1>4
<1>6. e = f
  <2>1. f \in Folds
    BY <1>1
  <2> HIDE DEF e, f
  <2> QED BY <1>2, <1>5, <2>1, SameFold
<1> QED BY <1>6

\* One more slice of the file a whole fold was made from leaves it whole, and so
\* does a define it already has.
LEMMA WholeFolded ==
  ASSUME NEW s \in Nat, NEW d \in Nat, NEW log \in Nat, NEW n \in Nat, NEW f \in Folds,
         f = Whole(s, d, log, n)
  PROVE  Folded(f, log) = Whole(s, d, log, n + 1) /\ Given(f, d) = f
<1>1. n + 1 # 0 /\ (n = 0 => f.upto = 0) /\ (n # 0 => f.log = log)
  BY DEF Whole
<1>2. f.upto = n /\ f.pure = TRUE /\ f.define = d /\ f.seeds = s /\ f.mixed = FALSE
  BY DEF Whole
<1>3. Folded(f, log) = [f EXCEPT !.upto = n + 1, !.log = log, !.pure = TRUE]
  BY <1>1, <1>2 DEF Folded
<1>4. Whole(s, d, log, n + 1) = [seeds |-> s, define |-> d, log |-> log, upto |-> n + 1,
                                pure |-> TRUE, mixed |-> FALSE]
  BY <1>1 DEF Whole
<1>5. Folded(f, log) = Whole(s, d, log, n + 1)
  <2> DEFINE m == n + 1
             e == Folded(f, log)
             w == Whole(s, d, log, m)
  <2>1. e \in Folds /\ w \in Folds
    BY FoldedType, WholeType
  <2>2. /\ w.seeds = s /\ w.define = d /\ w.log = log /\ w.upto = m /\ w.pure = TRUE /\ w.mixed = FALSE
    BY <1>4
  <2>3. f \in Folds /\ e = [f EXCEPT !.upto = m, !.log = log, !.pure = TRUE]
    BY <1>3
  <2> HIDE DEF m, e, w
  <2>4. e.seeds = f.seeds /\ e.define = f.define /\ e.mixed = f.mixed
    BY ONLY <2>3 DEF Folds
  <2>5. e.upto = m /\ e.log = log /\ e.pure = TRUE
    BY ONLY <2>3 DEF Folds
  <2>6. /\ e.seeds = w.seeds /\ e.define = w.define /\ e.log = w.log /\ e.upto = w.upto
        /\ e.pure = w.pure /\ e.mixed = w.mixed
    BY ONLY <1>2, <2>2, <2>4, <2>5
  <2>7. e = w
    BY ONLY <2>1, <2>6, SameFold
  <2> QED BY <2>7 DEF e, w, m
<1>6. Given(f, d) = [f EXCEPT !.define = d, !.pure = TRUE]
  BY <1>2 DEF Given
<1>7. Given(f, d) \in Folds
  BY GivenType
<1>8. /\ Given(f, d).seeds = f.seeds /\ Given(f, d).define = f.define /\ Given(f, d).log = f.log
      /\ Given(f, d).upto = f.upto /\ Given(f, d).pure = f.pure /\ Given(f, d).mixed = f.mixed
  <2>1. f \in Folds
    OBVIOUS
  <2>2. [f EXCEPT !.define = d, !.pure = TRUE].log = f.log
    BY ONLY <2>1 DEF Folds
  <2>3. [f EXCEPT !.define = d, !.pure = TRUE].upto = f.upto
    BY ONLY <2>1 DEF Folds
  <2>4. [f EXCEPT !.define = d, !.pure = TRUE].seeds = f.seeds
    BY ONLY <2>1 DEF Folds
  <2>5. [f EXCEPT !.define = d, !.pure = TRUE].define = d
    BY ONLY <2>1 DEF Folds
  <2>6. [f EXCEPT !.define = d, !.pure = TRUE].pure = TRUE
    BY ONLY <2>1 DEF Folds
  <2>7. [f EXCEPT !.define = d, !.pure = TRUE].mixed = f.mixed
    BY ONLY <2>1 DEF Folds
  <2> QED BY <1>2, <1>6, <2>2, <2>3, <2>4, <2>5, <2>6, <2>7
<1>9. Given(f, d) = f
  BY <1>7, <1>8, SameFold
<1> QED BY <1>5, <1>9

\* A slice or a define does not undo what a file of several turns did to a fold.
LEMMA MixedStays ==
  ASSUME NEW f \in Folds, NEW log \in Nat, NEW d \in Nat
  PROVE  Folded(f, log).mixed = f.mixed /\ Given(f, d).mixed = f.mixed
<1> DEFINE p == f.pure /\ (f.upto = 0 \/ f.log = log)
           q == f.pure /\ (f.upto = 0 \/ f.define = d)
           n == f.upto + 1
<1>1. /\ Folded(f, log) = [f EXCEPT !.upto = n, !.log = log, !.pure = p]
      /\ Given(f, d) = [f EXCEPT !.define = d, !.pure = q]
  BY DEF Folded, Given
<1>2. f \in Folds
  OBVIOUS
<1> HIDE DEF n, p, q
<1>3. [f EXCEPT !.upto = n, !.log = log, !.pure = p].mixed = f.mixed
  BY ONLY <1>2 DEF Folds
<1>4. [f EXCEPT !.define = d, !.pure = q].mixed = f.mixed
  BY ONLY <1>2 DEF Folds
<1> QED BY <1>1, <1>3, <1>4

\* What the world does to a turn takes its calm away, or nothing it was made from.
LEMMA WorldKeepsKeys ==
  ASSUME TypeOK, KeyTellsTheFold,
         GameAppends \/ LogReplaced \/ DefineRecorded \/ SeedsRewritten \/ Crash
           \/ \E elsewhere \in BOOLEAN : Attach(elsewhere)
  PROVE  KeyTellsTheFold'
<1> SUFFICES ASSUME NEW g \in Gens PROVE HeaderTells(g)' /\ KnowsItsFold(g)'
  BY DEF KeyTellsTheFold
<1>1. HeaderTells(g) /\ KnowsItsFold(g)
  BY DEF KeyTellsTheFold
<1>2. saved' = saved
  BY DEF GameAppends, LogReplaced, DefineRecorded, SeedsRewritten, Crash, Attach, turnVars
<1>3. HeaderTells(g)'
  BY <1>1, <1>2 DEF HeaderTells
<1>4. CASE GameAppends
  BY <1>1, <1>3, <1>4 DEF GameAppends, KnowsItsFold, turnVars, ghostVars
<1>5. CASE LogReplaced
  <2>1. /\ calm'[g] => calm[g] /\ pc[g] \notin {"open"} \cup Scanned
        /\ UNCHANGED <<pc, fold, keyed, opened, seeds, defines>>
    BY <1>5 DEF LogReplaced, Disturbs, TypeOK, turnVars, Scanned
  <2> QED BY <1>1, <1>3, <2>1 DEF KnowsItsFold
<1>6. CASE DefineRecorded
  <2>1. /\ calm'[g] => calm[g] /\ pc[g] \notin {"key", "restore", "open"} \cup Scanned
        /\ UNCHANGED <<pc, fold, keyed, opened, seeds, current>>
    BY <1>6 DEF DefineRecorded, Disturbs, TypeOK, Scanned
  <2> QED BY <1>1, <1>3, <2>1 DEF KnowsItsFold
<1>7. CASE SeedsRewritten
  <2>1. /\ calm'[g] => calm[g] /\ pc[g] \notin {"defines", "key", "restore", "open"} \cup Scanned
        /\ UNCHANGED <<pc, fold, keyed, opened, defines, current>>
    BY <1>7 DEF SeedsRewritten, Disturbs, TypeOK, turnVars, Scanned
  <2> QED BY <1>1, <1>3, <2>1 DEF KnowsItsFold
<1>8. CASE Crash
  <2>1. ~calm'[g]
    BY <1>8 DEF Crash, NoLocals
  <2> QED BY <1>3, <2>1 DEF KnowsItsFold
<1>9. ASSUME NEW elsewhere \in BOOLEAN, Attach(elsewhere) PROVE KnowsItsFold(g)'
  <2>1. /\ pc'[g] \in {pc[g], "build", "over"}
        /\ UNCHANGED <<calm, fold, keyed, opened, seeds, defines, current>>
    BY <1>9 DEF Attach, Goes, TypeOK, inputVars, ghostVars
  <2> QED BY <1>1, <2>1 DEF KnowsItsFold, Scanned
<1> QED BY <1>3, <1>4, <1>5, <1>6, <1>7, <1>8, <1>9

\* A turn's step keeps what it knows of its own fold.
LEMMA TurnKeepsKeys ==
  ASSUME TypeOK, KeyTellsTheFold, NEW g \in Gens, TurnStep(g)
  PROVE  KeyTellsTheFold'
<1>1. HeaderTells(g) /\ KnowsItsFold(g)
  BY DEF KeyTellsTheFold
<1>2. UNCHANGED <<current, defines, seeds>>
  BY DEF TurnStep, BuildSink, ApplyHeldDefines, ForAttach, Restore, RestoreMixture, OpenLog,
         FoldSlice, ScanEnds, SaveSkipped, SaveKeyed, CreateTmp, WriteParts, SaveFails, Rename,
         inputVars
<1>3. seeds \in Nat /\ defines \in Nat /\ current \in Nat /\ fold[g] \in Folds /\ fold[g].upto \in Nat
  <2>1. seeds \in Nat /\ defines \in Nat /\ current \in Nat /\ fold[g] \in Folds
    BY DEF TypeOK, Logs
  <2> QED BY <2>1 DEF Folds
<1>4. ASSUME NEW k \in Gens, k # g PROVE HeaderTells(k)' /\ KnowsItsFold(k)'
  <2>1. HeaderTells(k) /\ KnowsItsFold(k)
    BY DEF KeyTellsTheFold
  <2>2. /\ pc'[k] = pc[k] /\ fold'[k] = fold[k] /\ keyed'[k] = keyed[k]
        /\ opened'[k] = opened[k] /\ saved'[k] = saved[k] /\ calm'[k] = calm[k]
    <3> USE <1>4 DEF TypeOK, Goes, Landed, turnVars, ghostVars
    <3>1. CASE BuildSink(g)
      BY <3>1 DEF BuildSink
    <3>2. CASE ApplyHeldDefines(g)
      BY <3>2 DEF ApplyHeldDefines
    <3>3. CASE ForAttach(g)
      BY <3>3 DEF ForAttach
    <3>4. CASE Restore(g)
      BY <3>4 DEF Restore
    <3>5. CASE OpenLog(g)
      BY <3>5 DEF OpenLog
    <3>6. CASE FoldSlice(g)
      BY <3>6 DEF FoldSlice
    <3>7. CASE ScanEnds(g)
      BY <3>7 DEF ScanEnds
    <3>8. CASE SaveSkipped(g)
      BY <3>8 DEF SaveSkipped
    <3>9. CASE SaveKeyed(g)
      BY <3>9 DEF SaveKeyed
    <3>10. CASE CreateTmp(g)
      BY <3>10 DEF CreateTmp
    <3>11. CASE WriteParts(g)
      BY <3>11 DEF WriteParts
    <3>12. CASE SaveFails(g)
      BY <3>12 DEF SaveFails
    <3>13. CASE Rename(g)
      BY <3>13 DEF Rename
    <3>14. ASSUME NEW offset \in 0 .. MaxBytes, RestoreMixture(g, offset)
           PROVE  /\ pc'[k] = pc[k] /\ fold'[k] = fold[k] /\ keyed'[k] = keyed[k]
                  /\ opened'[k] = opened[k] /\ saved'[k] = saved[k] /\ calm'[k] = calm[k]
      BY <3>14 DEF RestoreMixture
    <3> QED
      BY <3>1, <3>2, <3>3, <3>4, <3>5, <3>6, <3>7, <3>8, <3>9, <3>10, <3>11, <3>12, <3>13, <3>14 DEF TurnStep
  <2> QED BY <1>2, <2>1, <2>2 DEF HeaderTells, KnowsItsFold
<1>5. SUFFICES HeaderTells(g)' /\ KnowsItsFold(g)'
  BY <1>4 DEF KeyTellsTheFold
<1>6. saved' = saved => HeaderTells(g)'
  BY <1>1 DEF HeaderTells
<1>7. CASE BuildSink(g)
  <2>1. pc'[g] = "defines" /\ fold'[g] = Whole(seeds, 0, None, 0) /\ saved' = saved
    BY <1>7 DEF BuildSink, Goes, TypeOK
  <2> QED BY <1>2, <1>6, <2>1 DEF KnowsItsFold, Scanned
<1>8. CASE ApplyHeldDefines(g)
  <2>1. /\ pc[g] = "defines" /\ pc'[g] = "key" /\ fold'[g] = [fold[g] EXCEPT !.define = defines]
        /\ saved' = saved /\ calm' = calm
    BY <1>8 DEF ApplyHeldDefines, Goes, TypeOK, ghostVars
  <2>2. [Whole(seeds, 0, None, 0) EXCEPT !.define = defines] = Whole(seeds, defines, None, 0)
    BY <1>3, WholeGiven
  <2> QED BY <1>1, <1>2, <1>6, <2>1, <2>2 DEF KnowsItsFold, Scanned
<1>9. CASE ForAttach(g)
  <2>1. /\ pc[g] = "key" /\ pc'[g] = "restore" /\ fold' = fold /\ keyed'[g] = defines
        /\ saved' = saved /\ calm' = calm
    BY <1>9 DEF ForAttach, Goes, TypeOK, ghostVars
  <2> QED BY <1>1, <1>2, <1>6, <2>1 DEF KnowsItsFold, Scanned
<1>10. CASE Restore(g)
  <2>1. pc[g] = "restore" /\ pc'[g] = "open" /\ saved' = saved /\ keyed' = keyed
    BY <1>10 DEF Restore, Goes, TypeOK
  <2>2. CASE UNCHANGED <<fold, calm>>
    <3>1. Whole(seeds, defines, None, 0) = Whole(seeds, defines, current, 0)
      BY DEF Whole
    <3>2. Whole(seeds, defines, None, 0).upto = 0
      BY DEF Whole
    <3> QED BY <1>1, <1>2, <1>6, <2>1, <2>2, <3>1, <3>2 DEF KnowsItsFold, Scanned
  <2>3. ASSUME NEW h \in Gens, Matches(g, saved[h]), fold'[g] = saved[h].fold,
               calm'[g] = (calm[g] /\ saved[h].calm)
        PROVE  KnowsItsFold(g)'
    <3>1. calm'[g] => /\ keyed[g] = defines
                      /\ ~saved[h].fold.mixed =>
                           saved[h].fold = Whole(saved[h].seeds, saved[h].define, saved[h].log,
                                                 saved[h].offset)
      BY <1>1, <2>1, <2>3 DEF KeyTellsTheFold, HeaderTells, KnowsItsFold
    <3>2. saved[h].define = keyed[g] /\ saved[h].seeds = seeds /\ saved[h].log = current
      BY <2>3 DEF Matches
    <3>3. \A n : Whole(seeds, defines, current, n).upto = n
      BY DEF Whole
    <3>4. calm'[g] => /\ keyed'[g] = defines
                      /\ ~fold'[g].mixed => fold'[g] = Whole(seeds, defines, current, fold'[g].upto)
      BY <2>1, <2>3, <3>1, <3>2, <3>3
    <3> QED BY <1>2, <2>1, <3>4 DEF KnowsItsFold, Scanned
  <2>4. \/ UNCHANGED <<fold, calm>>
        \/ \E h \in Gens : /\ Matches(g, saved[h]) /\ fold'[g] = saved[h].fold
                           /\ calm'[g] = (calm[g] /\ saved[h].calm)
    <3>1. CASE \E h \in Gens : path # None /\ holds[path] = {h} /\ Matches(g, saved[h])
      <4>1. PICK h \in Gens : path # None /\ holds[path] = {h} /\ Matches(g, saved[h])
        BY <3>1
      <4>2. h = CHOOSE k \in Gens : holds[path] = {k}
        BY <4>1
      <4> QED BY <1>10, <3>1, <4>1, <4>2 DEF Restore, TypeOK
    <3> QED BY <1>10, <3>1 DEF Restore
  <2> QED BY <1>6, <2>1, <2>2, <2>3, <2>4
<1>11. ASSUME NEW offset \in 0 .. MaxBytes, RestoreMixture(g, offset)
       PROVE  HeaderTells(g)' /\ KnowsItsFold(g)'
  <2>1. /\ pc[g] = "restore" /\ pc'[g] = "open" /\ saved' = saved /\ keyed' = keyed /\ calm' = calm
        /\ fold'[g] = [fold[g] EXCEPT !.pure = FALSE, !.mixed = TRUE, !.upto = offset,
                                      !.log = IF offset = 0 THEN None ELSE current]
    BY <1>11 DEF RestoreMixture, Goes, TypeOK, ghostVars
  <2>2. fold'[g].mixed
    BY <1>3, <2>1 DEF Folds
  <2> QED BY <1>1, <1>2, <1>6, <2>1, <2>2 DEF KnowsItsFold, Scanned
<1>12. CASE OpenLog(g)
  <2>1. /\ pc[g] = "open" /\ pc'[g] \in {"scan", "over"} /\ opened'[g] = current
        /\ UNCHANGED <<fold, keyed, saved, calm>>
    BY <1>12 DEF OpenLog, Goes, TypeOK, ghostVars
  <2> QED BY <1>1, <1>2, <1>6, <2>1 DEF KnowsItsFold, Scanned
<1>13. CASE FoldSlice(g)
  <2>1. /\ pc[g] = "scan" /\ pc'[g] \in {"scan", "over"}
        /\ UNCHANGED <<opened, keyed, saved, calm>>
    BY <1>13 DEF FoldSlice, Goes, TypeOK, ghostVars
  <2>2. fold'[g] \in {Folded(fold[g], opened[g]), Given(Folded(fold[g], opened[g]), defines)}
    BY <1>13 DEF FoldSlice, TypeOK
  <2>3. fold'[g].mixed = fold[g].mixed
    <3>1. opened[g] \in Nat
      BY DEF TypeOK, Logs, None
    <3>2. Folded(fold[g], opened[g]) \in Folds
      BY <1>3, <3>1, FoldedType
    <3> QED BY <1>3, <2>2, <3>1, <3>2, MixedStays
  <2>4. ASSUME calm[g], ~fold[g].mixed PROVE fold'[g] = Whole(seeds, defines, current, fold'[g].upto)
    <3>1. fold[g] = Whole(seeds, defines, current, fold[g].upto) /\ opened[g] = current
      BY <1>1, <2>1, <2>4 DEF KnowsItsFold, Scanned
    <3> DEFINE n == fold[g].upto
               f == Folded(fold[g], current)
    <3>2. f = Whole(seeds, defines, current, n + 1) /\ n + 1 \in Nat
      BY ONLY <1>3, <3>1, WholeFolded
    <3>3. f \in Folds
      BY <1>3, FoldedType
    <3>4. Given(f, defines) = f
      <4> HIDE DEF f, n
      <4> QED BY <1>3, <3>2, <3>3, WholeFolded
    <3>5. f.upto = n + 1
      BY <3>2 DEF Whole
    <3>6. fold'[g] = f
      BY <2>2, <3>1, <3>4
    <3> QED
      <4> HIDE DEF f, n
      <4> QED BY <3>2, <3>5, <3>6
  <2> QED BY <1>1, <1>2, <1>6, <2>1, <2>3, <2>4 DEF KnowsItsFold, Scanned
<1>14. CASE SaveKeyed(g)
  <2>1. /\ pc[g] = "landing" /\ pc'[g] \in {"create", "live", "over"}
        /\ UNCHANGED <<fold, keyed, opened, calm>>
    BY <1>14 DEF SaveKeyed, Landed, Goes, TypeOK, ghostVars
  <2>2. \/ saved' = saved
        \/ saved'[g] = [seeds |-> seeds, define |-> keyed[g], log |-> current,
                        offset |-> fold[g].upto, fold |-> fold[g], calm |-> calm[g]]
    BY <1>14 DEF SaveKeyed, TypeOK
  <2>3. calm[g] /\ ~fold[g].mixed => fold[g] = Whole(seeds, keyed[g], current, fold[g].upto)
    BY <1>1, <2>1 DEF KnowsItsFold, Scanned
  <2>4. HeaderTells(g)'
    BY <1>6, <2>2, <2>3 DEF HeaderTells
  <2> QED BY <1>1, <1>2, <2>1, <2>4 DEF KnowsItsFold, Scanned
<1>15. CASE ScanEnds(g) \/ SaveSkipped(g) \/ CreateTmp(g) \/ WriteParts(g) \/ SaveFails(g) \/ Rename(g)
  <2>1. /\ pc[g] \in Scanned /\ pc'[g] \in Scanned \cup {"over"}
        /\ UNCHANGED <<fold, keyed, opened, saved, calm>>
    BY <1>15 DEF ScanEnds, SaveSkipped, CreateTmp, WriteParts, SaveFails, Rename, Landed, Goes,
                 TypeOK, Scanned, turnVars, ghostVars
  <2> QED BY <1>1, <1>2, <1>6, <2>1 DEF KnowsItsFold, Scanned
<1> QED
  BY <1>7, <1>8, <1>9, <1>10, <1>11, <1>12, <1>13, <1>14, <1>15 DEF TurnStep

\* A fold that nothing disturbed, and into which no file of several turns went, is
\* the fold of the bytes so far under the seeds and the defines there are, continued
\* from a checkpoint or not.
THEOREM WarmFoldIsCold == Spec => []WarmIsCold
<1>1. Init => KeyTellsTheFold
  BY DEF Init, NoLocals, NotSaved, KeyTellsTheFold, HeaderTells, KnowsItsFold
<1>2. TypeOK /\ KeyTellsTheFold /\ [Next]_vars => KeyTellsTheFold'
  <2> SUFFICES ASSUME TypeOK, KeyTellsTheFold, [Next]_vars PROVE KeyTellsTheFold'
    OBVIOUS
  <2>1. CASE UNCHANGED vars
    BY <2>1 DEF vars, inputVars, turnVars, ghostVars, KeyTellsTheFold, HeaderTells, KnowsItsFold
  <2> QED BY <2>1, WorldKeepsKeys, TurnKeepsKeys DEF Next
<1>3. KeyTellsTheFold => WarmIsCold
  BY DEF KeyTellsTheFold, KnowsItsFold, WarmIsCold
<1> QED
  BY <1>1, <1>2, <1>3, TypeCorrect, PTL DEF Spec

-----------------------------------------------------------------------------
(* The checkpoint is one turn's whole file. *)

\* From its file being made on, a turn may be what path or tmp name.
Past == {"write", "rename", "live", "over"}

Unborn == \A g \in Gens : g > last => pc[g] = "none"

Named == /\ path # None => pc[path] \in Past
         /\ tmp # None => pc[tmp] \in Past

WholeAtPath == path # None => tmp # path /\ \E h \in Gens : holds[path] = {h}

\* A turn that writes has a file of its own, which is not the checkpoint.
Writes(g) ==
  /\ fd[g] \in Gens /\ fd[g] # path /\ tmp \in {None, fd[g]}
  /\ holds[fd[g]] = IF pc[g] = "write" THEN {} ELSE {g}

Alone == /\ WholeAtPath
         /\ \A g, h \in Writing : g = h
         /\ \A g \in Writing : Writes(g)

\* Until two turns write at once there is one writer.
OneWriter == Unborn /\ Named /\ (~crossed => Alone)

\* Who touches neither the files nor a writer leaves both alone.
LEMMA BystanderKeeps ==
  ASSUME TypeOK, OneWriter, UNCHANGED <<path, tmp, holds, crossed, fd>>, Unborn',
         \A g \in Gens : pc[g] \in Past => pc'[g] \in Past,
         \A g \in Gens : pc'[g] \in {"write", "rename"} => pc'[g] = pc[g]
  PROVE  OneWriter'
<1>1. Named'
  BY DEF OneWriter, Named, TypeOK
<1>2. ASSUME ~crossed' PROVE Alone'
  <2>1. Alone
    BY <1>2 DEF OneWriter
  <2>2. WholeAtPath'
    BY <2>1 DEF Alone, WholeAtPath
  <2>3. Writing' \subseteq Writing
    BY DEF Writing
  <2>4. \A g, h \in Writing' : g = h
    BY <2>1, <2>3 DEF Alone
  <2>5. ASSUME NEW g \in Writing' PROVE Writes(g)'
    <3>1. Writes(g) /\ pc'[g] = pc[g]
      BY <2>1, <2>3, <2>5 DEF Alone, Writing
    <3> QED BY <3>1 DEF Writes
  <2> QED BY <2>2, <2>4, <2>5 DEF Alone
<1> QED BY <1>1, <1>2 DEF OneWriter

\* Before a turn writes, and once it has landed, its steps touch no file.
LEMMA ReaderKeeps ==
  ASSUME TypeOK, OneWriter, NEW g \in Gens,
         \/ BuildSink(g) \/ ApplyHeldDefines(g) \/ ForAttach(g) \/ Restore(g)
         \/ \E offset \in 0 .. MaxBytes : RestoreMixture(g, offset)
         \/ OpenLog(g) \/ FoldSlice(g) \/ ScanEnds(g) \/ SaveSkipped(g) \/ SaveKeyed(g)
  PROVE  OneWriter'
<1>1. UNCHANGED <<path, tmp, holds, crossed, fd, last>>
  BY DEF BuildSink, ApplyHeldDefines, ForAttach, Restore, RestoreMixture, OpenLog, FoldSlice,
         ScanEnds, SaveSkipped, SaveKeyed, turnVars, diskVars, ghostVars
<1>2. /\ pc[g] \notin Past \cup {"none"}
      /\ \E there \in PCs \ {"none", "write", "rename"} : pc' = [pc EXCEPT ![g] = there]
  <2>1. pc[g] \notin Past \cup {"none"}
    BY DEF BuildSink, ApplyHeldDefines, ForAttach, Restore, RestoreMixture, OpenLog, FoldSlice,
           ScanEnds, SaveSkipped, SaveKeyed, Past
  <2>2. \/ \E there \in PCs \ {"none", "write", "rename"} : pc' = [pc EXCEPT ![g] = there]
        \/ pc' = pc
    BY DEF BuildSink, ApplyHeldDefines, ForAttach, Restore, RestoreMixture, OpenLog, FoldSlice,
           ScanEnds, SaveSkipped, SaveKeyed, Goes, Landed, PCs
  <2>3. CASE pc' = pc
    <3>1. pc[g] = "scan"
      BY <2>3 DEF BuildSink, ApplyHeldDefines, ForAttach, Restore, RestoreMixture, OpenLog,
         FoldSlice, ScanEnds, SaveSkipped, SaveKeyed, Goes, Landed, TypeOK
    <3>2. pc' = [pc EXCEPT ![g] = "scan"]
      BY <2>3, <3>1 DEF TypeOK
    <3> QED BY <2>1, <3>2 DEF PCs
  <2> QED BY <2>1, <2>2, <2>3
<1>3. PICK there \in PCs \ {"none", "write", "rename"} : pc' = [pc EXCEPT ![g] = there]
  BY <1>2
<1>4. Unborn'
  BY <1>1, <1>2, <1>3 DEF OneWriter, Unborn, TypeOK
<1>5. ASSUME NEW k \in Gens
      PROVE  /\ pc[k] \in Past => pc'[k] \in Past
             /\ pc'[k] \in {"write", "rename"} => pc'[k] = pc[k]
  BY <1>2, <1>3 DEF TypeOK
<1> QED BY <1>1, <1>4, <1>5, BystanderKeeps

\* Nor does the world touch a file, and a process that dies leaves no writer.
LEMMA WorldTouchesNoFile ==
  ASSUME TypeOK, OneWriter,
         GameAppends \/ LogReplaced \/ DefineRecorded \/ SeedsRewritten \/ Crash
           \/ \E elsewhere \in BOOLEAN : Attach(elsewhere)
  PROVE  OneWriter'
<1>1. CASE GameAppends \/ LogReplaced \/ DefineRecorded \/ SeedsRewritten
  <2>1. UNCHANGED <<path, tmp, holds, crossed, fd, last, pc>>
    BY <1>1 DEF GameAppends, LogReplaced, DefineRecorded, SeedsRewritten, turnVars, diskVars, ghostVars
  <2>2. Unborn'
    BY <2>1 DEF OneWriter, Unborn
  <2> QED BY <2>1, <2>2, BystanderKeeps
<1>2. ASSUME NEW elsewhere \in BOOLEAN, Attach(elsewhere) PROVE OneWriter'
  <2>1. /\ UNCHANGED <<path, tmp, holds, crossed, fd>> /\ last' = last + 1 /\ last + 1 \in Gens
        /\ \E there \in {"build", "over"} : pc' = [pc EXCEPT ![last + 1] = there]
    <3>1. UNCHANGED <<path, tmp, holds, crossed, fd>> /\ last' = last + 1
      BY <1>2 DEF Attach, diskVars, ghostVars
    <3>2. last + 1 \in Gens
      BY <1>2 DEF Attach, Gens, TypeOK
    <3>3. pc' = [pc EXCEPT ![last + 1] = IF elsewhere THEN "over" ELSE "build"]
      BY <1>2 DEF Attach, Goes
    <3> QED BY <3>1, <3>2, <3>3
  <2>2. pc[last + 1] = "none"
    BY <2>1 DEF OneWriter, Unborn, TypeOK
  <2>3. Unborn'
    BY <2>1 DEF OneWriter, Unborn, TypeOK, Gens
  <2>4. ASSUME NEW k \in Gens
        PROVE  /\ pc[k] \in Past => pc'[k] \in Past
               /\ pc'[k] \in {"write", "rename"} => pc'[k] = pc[k]
    BY <2>1, <2>2 DEF TypeOK, Past
  <2> QED BY <2>1, <2>3, <2>4, BystanderKeeps
<1>3. CASE Crash
  <2>1. /\ pc' = [g \in Gens |-> IF pc[g] = "none" THEN "none" ELSE "over"]
        /\ UNCHANGED <<path, tmp, holds, crossed, last>>
    BY <1>3 DEF Crash, diskVars
  <2>2. Unborn'
    BY <2>1 DEF OneWriter, Unborn
  <2>3. Named'
    BY <2>1 DEF OneWriter, Named, Past, TypeOK
  <2>4. Writing' = {}
    BY <2>1 DEF Writing
  <2>5. ~crossed => WholeAtPath'
    BY <2>1 DEF OneWriter, Alone, WholeAtPath
  <2> QED BY <2>1, <2>2, <2>3, <2>4, <2>5 DEF OneWriter, Alone
<1> QED BY <1>1, <1>2, <1>3

\* The temporary file a lone turn makes is not the checkpoint.
LEMMA CreateKeeps ==
  ASSUME TypeOK, OneWriter, NEW g \in Gens, CreateTmp(g)
  PROVE  OneWriter'
<1> DEFINE file == IF tmp = None THEN g ELSE tmp
<1>1. /\ pc[g] = "create" /\ pc' = [pc EXCEPT ![g] = "write"]
      /\ tmp' = file /\ fd' = [fd EXCEPT ![g] = file] /\ path' = path /\ last' = last
      /\ holds' = [holds EXCEPT ![file] = {None : h \in {h \in Gens : pc[h] = "write" /\ fd[h] = file}}]
      /\ crossed' = (crossed \/ Writing # {})
  BY DEF CreateTmp, Goes
<1>2. file \in Gens
  BY DEF TypeOK
<1>3. Unborn'
  BY <1>1 DEF OneWriter, Unborn, TypeOK
<1>4. Named'
  <2>1. pc'[g] \in Past
    BY <1>1 DEF TypeOK, Past
  <2>2. \A k \in Gens : pc[k] \in Past => pc'[k] \in Past
    BY <1>1, <2>1 DEF TypeOK
  <2> QED BY <1>1, <1>2, <2>1, <2>2 DEF OneWriter, Named, TypeOK
<1>5. ASSUME ~crossed' PROVE Alone'
  <2>1. Alone /\ Writing = {}
    BY <1>1, <1>5 DEF OneWriter, TypeOK
  <2>2. path # file
    BY <1>1, <1>2, <2>1 DEF OneWriter, Named, Alone, WholeAtPath, Past, TypeOK, None, Gens
  <2>3. holds' = [holds EXCEPT ![file] = {}]
    BY <1>1, <2>1 DEF Writing
  <2>4. WholeAtPath'
    BY <1>1, <1>2, <2>1, <2>2, <2>3 DEF Alone, WholeAtPath, TypeOK
  <2>5. Writing' = {g}
    BY <1>1, <2>1 DEF Writing, TypeOK
  <2>6. Writes(g)'
    BY <1>1, <1>2, <2>2, <2>3 DEF Writes, TypeOK
  <2> QED BY <2>4, <2>5, <2>6 DEF Alone
<1> QED BY <1>3, <1>4, <1>5 DEF OneWriter

\* What a lone writer writes, and where it leaves it.
LEMMA WriterKeeps ==
  ASSUME TypeOK, OneWriter, NEW g \in Gens, WriteParts(g) \/ SaveFails(g) \/ Rename(g)
  PROVE  OneWriter'
<1>1. /\ pc[g] \in {"create", "write", "rename"}
      /\ pc'[g] \in Past /\ \A k \in Gens \ {g} : pc'[k] = pc[k]
      /\ UNCHANGED <<last, fd, crossed>>
  BY DEF WriteParts, SaveFails, Rename, Goes, Landed, TypeOK, Past, turnVars, ghostVars
<1>2. Unborn'
  BY <1>1 DEF OneWriter, Unborn
<1>3. Named'
  <2>1. \A k \in Gens : pc[k] \in Past => pc'[k] \in Past
    BY <1>1
  <2>2. path' \in {path, tmp} /\ tmp' \in {tmp, None}
    BY DEF WriteParts, SaveFails, Rename, diskVars
  <2> QED BY <2>1, <2>2 DEF OneWriter, Named, TypeOK
<1>4. ASSUME ~crossed' PROVE Alone'
  <2>1. Alone
    BY <1>1, <1>4 DEF OneWriter
  <2>2. CASE WriteParts(g)
    <3>1. /\ pc[g] = "write" /\ pc' = [pc EXCEPT ![g] = "rename"]
          /\ holds' = [holds EXCEPT ![fd[g]] = @ \cup {g}] /\ UNCHANGED <<path, tmp>>
      BY <2>2 DEF WriteParts, Goes
    <3>2. g \in Writing /\ Writing' = Writing
      BY <3>1 DEF Writing, TypeOK
    <3>3. Writes(g) /\ holds[fd[g]] = {}
      BY <2>1, <3>1, <3>2 DEF Alone, Writes
    <3>4. WholeAtPath'
      BY <2>1, <3>1, <3>3 DEF Alone, WholeAtPath, Writes, TypeOK
    <3>5. Writes(g)'
      BY <1>1, <3>1, <3>3 DEF Writes, TypeOK
    <3>6. Writing' = {g}
      BY <2>1, <3>2 DEF Alone
    <3> QED BY <3>4, <3>5, <3>6 DEF Alone
  <2>3. CASE SaveFails(g)
    <3>1. /\ pc'[g] \notin {"write", "rename"} /\ path' = path /\ tmp' \in {tmp, None}
          /\ holds' = IF pc[g] = "write" THEN [holds EXCEPT ![fd[g]] = @ \cup {None}] ELSE holds
      BY <2>3 DEF SaveFails, Landed, Goes, TypeOK
    <3>2. Writing' = Writing \ {g}
      BY <1>1, <3>1 DEF Writing
    <3>3. g \in Writing => Writes(g) /\ Writing' = {}
      BY <2>1, <3>2 DEF Alone
    <3>4. pc[g] = "write" => g \in Writing
      BY DEF Writing
    <3>5. WholeAtPath'
      <4>1. path # None => tmp' # path
        BY <2>1, <3>1 DEF Alone, WholeAtPath
      <4>2. path # None => holds'[path] = holds[path]
        BY <3>1, <3>3, <3>4 DEF Writes, TypeOK
      <4> QED BY <2>1, <3>1, <4>1, <4>2 DEF Alone, WholeAtPath
    <3>6. ASSUME NEW k \in Writing' PROVE Writes(k)'
      <4>1. k \in Writing /\ k # g /\ g \notin Writing
        BY <3>2, <3>3, <3>6
      <4>2. Writes(k) /\ holds' = holds /\ pc'[k] = pc[k]
        BY <1>1, <2>1, <3>1, <3>4, <4>1 DEF Alone, Writing
      <4> QED BY <1>1, <3>1, <4>2 DEF Writes
    <3> QED BY <2>1, <3>2, <3>5, <3>6 DEF Alone
  <2>4. CASE Rename(g)
    <3>1. /\ pc[g] = "rename" /\ pc'[g] \notin {"write", "rename"} /\ holds' = holds
          /\ path' = (IF tmp = None THEN path ELSE tmp) /\ tmp' = None
      BY <2>4 DEF Rename, Landed, Goes, TypeOK
    <3>2. g \in Writing /\ Writing' = Writing \ {g}
      BY <1>1, <3>1 DEF Writing
    <3>3. Writes(g) /\ Writing' = {}
      BY <2>1, <3>2 DEF Alone
    <3>4. WholeAtPath'
      BY <2>1, <3>1, <3>3 DEF Alone, WholeAtPath, Writes
    <3> QED BY <3>3, <3>4 DEF Alone
  <2> QED BY <2>2, <2>3, <2>4
<1> QED BY <1>2, <1>3, <1>4 DEF OneWriter

LEMMA OneWriterHolds == Spec => [](TypeOK /\ OneWriter)
<1>1. Init => OneWriter
  BY DEF Init, OneWriter, Unborn, Named, Alone, WholeAtPath, Writing
<1>2. TypeOK /\ OneWriter /\ [Next]_vars => OneWriter'
  <2> SUFFICES ASSUME TypeOK, OneWriter, [Next]_vars PROVE OneWriter'
    OBVIOUS
  <2>1. CASE UNCHANGED vars
    <3>1. UNCHANGED <<path, tmp, holds, crossed, fd, last, pc>>
      BY <2>1 DEF vars, turnVars, diskVars, ghostVars
    <3>2. Unborn'
      BY <3>1 DEF OneWriter, Unborn
    <3> QED BY <3>1, <3>2, BystanderKeeps
  <2> QED
    BY <2>1, WorldTouchesNoFile, ReaderKeeps, CreateKeeps, WriterKeeps DEF Next, TurnStep
<1> QED BY <1>1, <1>2, TypeCorrect, PTL DEF Spec

\* Whenever the process dies, what it leaves at the checkpoint's path is nothing
\* or one turn's whole file, as long as no two turns were writing at once.
THEOREM CheckpointStaysWhole == Spec => []CheckpointIsWhole
<1>1. OneWriter => CheckpointIsWhole
  BY DEF OneWriter, Alone, WholeAtPath, CheckpointIsWhole
<1> QED BY <1>1, OneWriterHolds, PTL

-----------------------------------------------------------------------------
(* A landing leaves its checkpoint behind. *)

Unspoilt == failures = 0 /\ ~crossed /\ ~disowned

HeldBy(h) == path # None /\ holds[path] = {h}

Started == {"defines", "key", "restore"}
Saving == {"create", "write", "rename"}

\* What a header says of the fold under it.
Headed(g) ==
  /\ saved[g].fold.upto = saved[g].offset
  /\ pc[g] \in Saving => saved[g].offset = fold[g].upto

\* A fold starts empty, and a calm one is never ahead of the log it is of, unless
\* a file of several turns put it there.
Measured(g) ==
  /\ pc[g] \in Started => fold[g].upto = 0
  /\ pc[g] \in Started \cup {"none", "build"} => resume[g] = 0
  /\ calm[g] /\ pc[g] \in Scanned => opened[g] = current
  /\ calm[g] /\ ~fold[g].mixed /\ pc[g] \in {"open"} \cup Scanned => fold[g].upto <= len[current]

\* No file is of several turns unless two were writing the temporary at once.
Unmixed(g) == ~crossed => ~fold[g].mixed /\ ~saved[g].fold.mixed

\* Only a turn that wrote to the end is in a file, and the lone writer's has a name.
Authors ==
  /\ \A f \in Gens : \A h \in holds[f] \ {None} : pc[h] \in {"rename", "live", "over"}
  /\ failures = 0 /\ ~crossed => \A g \in Writing : tmp = fd[g]

\* A turn that continues a checkpoint finds it where it was.
Continues(g) ==
  owner = g /\ calm[g] /\ resume[g] > 0 /\ pc[g] \in {"open", "scan", "landing"} =>
    \E h \in Gens : HeldBy(h) /\ saved[h].offset = resume[g]

\* The turn that took the world from one that had landed scans at least as far.
Passes(g) ==
  calm[g] /\ ~fold[g].mixed /\ pc[g] = "live" =>
    \A h \in Gens \ {g} : owner = h =>
      /\ pc[h] \in Scanned => opened[h] = current
      /\ pc[h] \in {"landing"} \cup Saving => fold[g].upto <= fold[h].upto

Kept(g) ==
  calm[g] /\ pc[g] = "live" =>
    \E h \in Gens : HeldBy(h) /\ fold[g].upto < saved[h].offset + RewriteAfter

LandInv ==
  /\ Authors
  /\ \A g \in Gens : /\ Headed(g) /\ Measured(g) /\ Unmixed(g) /\ Passes(g)
                     /\ Unspoilt => Continues(g) /\ Kept(g)

\* A step of one turn, seen from another.
LEMMA OthersStand ==
  ASSUME TypeOK, NEW k \in Gens, TurnStep(k)
  PROVE  /\ UNCHANGED <<current, len, owner, last>>
         /\ pc[k] \notin {"none", "live", "over"}
         /\ (crossed => crossed') /\ (disowned => disowned') /\ (failures' = 0 => failures = 0)
         /\ \A g \in Gens \ {k} :
              /\ pc'[g] = pc[g] /\ fold'[g] = fold[g] /\ resume'[g] = resume[g]
              /\ opened'[g] = opened[g] /\ saved'[g] = saved[g] /\ calm'[g] = calm[g]
<1> USE DEF TypeOK, Goes, Landed, inputVars, turnVars, ghostVars
<1>1. CASE BuildSink(k) \/ ApplyHeldDefines(k) \/ ForAttach(k) \/ OpenLog(k) \/ ScanEnds(k)
  BY <1>1 DEF BuildSink, ApplyHeldDefines, ForAttach, OpenLog, ScanEnds
<1>2. CASE Restore(k)
  BY <1>2 DEF Restore
<1>3. ASSUME NEW offset \in 0 .. MaxBytes, RestoreMixture(k, offset)
      PROVE  /\ UNCHANGED <<current, len, owner, last>>
             /\ pc[k] \notin {"none", "live", "over"}
             /\ (crossed => crossed') /\ (disowned => disowned') /\ (failures' = 0 => failures = 0)
             /\ \A g \in Gens \ {k} :
                  /\ pc'[g] = pc[g] /\ fold'[g] = fold[g] /\ resume'[g] = resume[g]
                  /\ opened'[g] = opened[g] /\ saved'[g] = saved[g] /\ calm'[g] = calm[g]
  BY <1>3 DEF RestoreMixture
<1>4. CASE FoldSlice(k)
  BY <1>4 DEF FoldSlice
<1>5. CASE SaveSkipped(k) \/ SaveKeyed(k)
  BY <1>5 DEF SaveSkipped, SaveKeyed
<1>6. CASE CreateTmp(k) \/ WriteParts(k) \/ Rename(k)
  BY <1>6 DEF CreateTmp, WriteParts, Rename
<1>7. CASE SaveFails(k)
  BY <1>7 DEF SaveFails
<1> QED BY <1>1, <1>2, <1>3, <1>4, <1>5, <1>6, <1>7 DEF TurnStep

\* Where a turn comes from when it scans, when it has scanned, and when it has landed.
LEMMA TurnAdvances ==
  ASSUME TypeOK, NEW k \in Gens, TurnStep(k)
  PROVE  /\ pc'[k] \in Scanned =>
              (pc[k] \in Scanned /\ opened'[k] = opened[k]) \/ opened'[k] = current
         /\ pc'[k] \in {"landing"} \cup Saving =>
              /\ fold'[k] = fold[k]
              /\ \/ pc[k] \in {"landing"} \cup Saving
                 \/ pc[k] = "scan" /\ fold[k].upto >= len[opened[k]]
         /\ pc'[k] = "live" =>
              owner = k /\ (SaveSkipped(k) \/ SaveKeyed(k) \/ SaveFails(k) \/ Rename(k))
<1> USE DEF TypeOK, Goes, Landed, turnVars, Scanned, Saving
<1>1. CASE BuildSink(k) \/ ApplyHeldDefines(k) \/ ForAttach(k) \/ OpenLog(k) \/ ScanEnds(k)
  BY <1>1 DEF BuildSink, ApplyHeldDefines, ForAttach, OpenLog, ScanEnds
<1>2. CASE Restore(k) \/ \E offset \in 0 .. MaxBytes : RestoreMixture(k, offset)
  <2>1. CASE Restore(k)
    BY <2>1 DEF Restore
  <2>2. (\E offset \in 0 .. MaxBytes : RestoreMixture(k, offset)) => pc'[k] = "open"
    BY DEF RestoreMixture
  <2> QED BY <1>2, <2>1, <2>2
<1>3. CASE FoldSlice(k)
  <2>1. pc[k] = "scan" /\ pc'[k] \in {"scan", "over"} /\ opened'[k] = opened[k]
    BY <1>3 DEF FoldSlice
  <2> QED BY <2>1
<1>4. CASE SaveSkipped(k) \/ SaveKeyed(k)
  BY <1>4 DEF SaveSkipped, SaveKeyed
<1>5. CASE CreateTmp(k) \/ WriteParts(k)
  BY <1>5 DEF CreateTmp, WriteParts
<1>6. CASE SaveFails(k) \/ Rename(k)
  BY <1>6 DEF SaveFails, Rename
<1> QED BY <1>1, <1>2, <1>3, <1>4, <1>5, <1>6 DEF TurnStep

\* What the world does to a turn.
LEMMA WorldMoves ==
  ASSUME TypeOK, NEW g \in Gens,
         GameAppends \/ LogReplaced \/ DefineRecorded \/ SeedsRewritten \/ Crash
           \/ \E elsewhere \in BOOLEAN : Attach(elsewhere)
  PROVE  /\ UNCHANGED <<path, tmp, holds, crossed, disowned, saved>>
         /\ (failures' = failures) /\ (calm'[g] => calm[g])
         /\ \/ UNCHANGED <<pc, fold, resume, opened, fd, owner, last>>
            \/ /\ UNCHANGED <<fold, resume, opened, fd, current, len>> /\ owner' = last + 1
               /\ last' = last + 1 /\ last + 1 \in Gens
               /\ pc'[last + 1] \in {"build", "over"} /\ \A k \in Gens \ {last + 1} : pc'[k] = pc[k]
            \/ /\ owner' = None /\ ~calm'[g] /\ last' = last
               /\ pc' = [k \in Gens |-> IF pc[k] = "none" THEN "none" ELSE "over"]
               /\ fold'[g] = NoFold /\ resume'[g] = 0
         /\ UNCHANGED current \/ pc[g] \notin {"open"} \cup Scanned \/ ~calm'[g]
         /\ len'[current] >= len[current]
<1> USE DEF TypeOK, inputVars, turnVars, ghostVars, diskVars
<1>1. CASE GameAppends
  BY <1>1 DEF GameAppends
<1>2. CASE LogReplaced
  <2>1. calm'[g] => calm[g] /\ pc[g] \notin {"open"} \cup Scanned
    BY <1>2 DEF LogReplaced, Disturbs, Scanned
  <2> QED BY <1>2, <2>1 DEF LogReplaced
<1>3. CASE DefineRecorded \/ SeedsRewritten
  BY <1>3 DEF DefineRecorded, SeedsRewritten, Disturbs
<1>4. CASE Crash
  BY <1>4 DEF Crash, NoLocals
<1>5. ASSUME NEW elsewhere \in BOOLEAN, Attach(elsewhere)
      PROVE  /\ UNCHANGED <<path, tmp, holds, crossed, disowned, saved, failures, calm>>
             /\ UNCHANGED <<fold, resume, opened, fd, current, len>> /\ owner' = last + 1
             /\ last' = last + 1 /\ last + 1 \in Gens
             /\ pc'[last + 1] \in {"build", "over"} /\ \A k \in Gens \ {last + 1} : pc'[k] = pc[k]
  <2>1. last + 1 \in Gens
    BY <1>5 DEF Attach, Gens
  <2> QED BY <1>5, <2>1 DEF Attach, Goes
<1> QED BY <1>1, <1>2, <1>3, <1>4, <1>5

\* The book of who wrote where.
LEMMA AuthorsKeep ==
  ASSUME TypeOK, OneWriter, Authors, NEW k \in Gens, TurnStep(k)
  PROVE  Authors'
<1>1. /\ pc[k] \notin {"none", "live", "over"} /\ (failures' = 0 => failures = 0)
      /\ \A g \in Gens \ {k} : pc'[g] = pc[g]
  BY OthersStand
<1>2. CASE UNCHANGED <<tmp, holds, fd, crossed>> /\ pc[k] \notin Past /\ pc'[k] \notin {"write", "rename"}
  <2>1. Writing' \subseteq Writing
    BY <1>1, <1>2 DEF Writing
  <2>2. \A f \in Gens : \A h \in holds[f] \ {None} : h # k /\ h \in Gens
    BY <1>2 DEF Authors, Past, TypeOK
  <2> QED BY <1>1, <1>2, <2>1, <2>2 DEF Authors
<1>3. CASE CreateTmp(k)
  <2> DEFINE file == IF tmp = None THEN k ELSE tmp
  <2>1. /\ pc[k] = "create" /\ pc' = [pc EXCEPT ![k] = "write"]
        /\ tmp' = file /\ fd' = [fd EXCEPT ![k] = file] /\ failures' = failures
        /\ holds' = [holds EXCEPT ![file] = {None : h \in {h \in Gens : pc[h] = "write" /\ fd[h] = file}}]
        /\ crossed' = (crossed \/ Writing # {})
    BY <1>3 DEF CreateTmp, Goes
  <2>2. file \in Gens
    BY DEF TypeOK
  <2>3. \A f \in Gens : holds'[f] \ {None} \subseteq holds[f] \ {None}
    BY <2>1, <2>2 DEF TypeOK
  <2>4. \A f \in Gens : \A h \in holds[f] \ {None} : h # k /\ h \in Gens
    BY <2>1 DEF Authors, TypeOK
  <2>5. \A f \in Gens : \A h \in holds'[f] \ {None} : pc'[h] \in {"rename", "live", "over"}
    BY <1>1, <2>3, <2>4 DEF Authors
  <2>6. ASSUME ~crossed' PROVE \A g \in Writing' : tmp' = fd'[g]
    <3>1. Writing' = {k}
      BY <2>1, <2>6 DEF Writing, TypeOK
    <3> QED BY <2>1, <2>2, <3>1 DEF TypeOK
  <2> QED BY <2>5, <2>6 DEF Authors
<1>4. CASE WriteParts(k)
  <2>1. /\ pc[k] = "write" /\ pc' = [pc EXCEPT ![k] = "rename"]
        /\ holds' = [holds EXCEPT ![fd[k]] = holds[fd[k]] \cup {k}]
        /\ UNCHANGED <<tmp, fd, failures, crossed>>
    BY <1>4 DEF WriteParts, Goes, ghostVars
  <2>2. Writing' = Writing
    BY <2>1 DEF Writing, TypeOK
  <2>3. \A f \in Gens : \A h \in holds'[f] \ {None} : h \in Gens /\ (h = k \/ h \in holds[f] \ {None})
    BY <2>1 DEF TypeOK
  <2>4. pc'[k] = "rename"
    BY <2>1 DEF TypeOK
  <2> QED BY <1>1, <2>1, <2>2, <2>3, <2>4 DEF Authors
<1>5. CASE SaveFails(k)
  <2>1. /\ failures' = failures + 1 /\ pc'[k] \in {"live", "over"} /\ failures' # 0
        /\ holds' = IF pc[k] = "write" THEN [holds EXCEPT ![fd[k]] = holds[fd[k]] \cup {None}] ELSE holds
    BY <1>5 DEF SaveFails, Landed, Goes, TypeOK
  <2>2. \A f \in Gens : holds'[f] \ {None} \subseteq holds[f] \ {None}
    BY <2>1 DEF TypeOK
  <2>3. \A f \in Gens : \A h \in holds[f] \ {None} : h \in Gens
    BY DEF TypeOK
  <2> QED BY <1>1, <2>1, <2>2, <2>3 DEF Authors
<1>6. CASE Rename(k)
  <2>1. /\ pc[k] = "rename" /\ pc'[k] \in {"live", "over"}
        /\ UNCHANGED <<holds, fd, crossed, failures>>
    BY <1>6 DEF Rename, Landed, Goes, TypeOK
  <2>2. ~crossed' => Writing' = {}
    <3>1. Writing' = Writing \ {k} /\ k \in Writing
      BY <1>1, <2>1 DEF Writing
    <3> QED BY <2>1, <3>1 DEF OneWriter, Alone
  <2>3. \A f \in Gens : \A h \in holds[f] \ {None} : h \in Gens
    BY DEF TypeOK
  <2> QED BY <1>1, <2>1, <2>2, <2>3 DEF Authors
<1>7. \/ BuildSink(k) \/ ApplyHeldDefines(k) \/ ForAttach(k) \/ Restore(k)
      \/ \E offset \in 0 .. MaxBytes : RestoreMixture(k, offset)
      \/ OpenLog(k) \/ FoldSlice(k) \/ ScanEnds(k) \/ SaveSkipped(k) \/ SaveKeyed(k)
      => UNCHANGED <<tmp, holds, fd, crossed>> /\ pc[k] \notin Past /\ pc'[k] \notin {"write", "rename"}
  <2> USE DEF Goes, Landed, Past, TypeOK, turnVars, diskVars, ghostVars
  <2>1. BuildSink(k) \/ ApplyHeldDefines(k) \/ ForAttach(k) \/ OpenLog(k) \/ ScanEnds(k)
        => UNCHANGED <<tmp, holds, fd, crossed>> /\ pc[k] \notin Past /\ pc'[k] \notin {"write", "rename"}
    BY DEF BuildSink, ApplyHeldDefines, ForAttach, OpenLog, ScanEnds
  <2>2. Restore(k)
        => UNCHANGED <<tmp, holds, fd, crossed>> /\ pc[k] \notin Past /\ pc'[k] \notin {"write", "rename"}
    BY DEF Restore
  <2>5. (\E offset \in 0 .. MaxBytes : RestoreMixture(k, offset))
        => UNCHANGED <<tmp, holds, fd, crossed>> /\ pc[k] \notin Past /\ pc'[k] \notin {"write", "rename"}
    BY DEF RestoreMixture
  <2>3. FoldSlice(k) =>
          /\ UNCHANGED <<tmp, holds, fd, crossed>> /\ pc[k] = "scan" /\ pc'[k] \in {"scan", "over"}
    BY DEF FoldSlice
  <2>4. SaveSkipped(k) \/ SaveKeyed(k)
        => /\ UNCHANGED <<tmp, holds, fd, crossed>> /\ pc[k] = "landing"
           /\ pc'[k] \in {"live", "over", "create"}
    BY DEF SaveSkipped, SaveKeyed
  <2> QED BY <2>1, <2>2, <2>3, <2>4, <2>5
<1> QED BY <1>2, <1>3, <1>4, <1>5, <1>6, <1>7 DEF TurnStep

\* Only a rename changes what the checkpoint's path holds.
LEMMA PathStays ==
  ASSUME TypeOK, OneWriter, Authors, NEW k \in Gens, TurnStep(k), ~Rename(k), ~crossed',
         failures' = 0, NEW h \in Gens, HeldBy(h)
  PROVE  HeldBy(h)' /\ saved'[h] = saved[h]
<1>1. ~crossed /\ Alone
  BY OthersStand DEF OneWriter
<1>2. path \in Gens /\ pc[h] \in {"rename", "live", "over"} /\ pc[path] \in Past
  <2>1. path \in Gens
    BY DEF HeldBy, TypeOK
  <2>2. h \in holds[path] \ {None}
    BY DEF HeldBy, None, Gens
  <2> QED BY <2>1, <2>2 DEF Authors, OneWriter, Named, HeldBy
<1>3. saved'[h] = saved[h]
  <2>1. CASE h # k
    BY <2>1, OthersStand
  <2>2. CASE h = k
    <3>1. pc[k] = "rename"
      BY <1>2, <2>2, OthersStand
    <3> QED BY <3>1 DEF TurnStep, BuildSink, ApplyHeldDefines, ForAttach, Restore, RestoreMixture,
               OpenLog, FoldSlice, ScanEnds, SaveSkipped, SaveKeyed, CreateTmp, WriteParts, SaveFails
  <2> QED BY <2>1, <2>2
<1>4. CASE CreateTmp(k)
  <2> DEFINE file == IF tmp = None THEN k ELSE tmp
  <2>1. /\ pc[k] = "create" /\ path' = path
        /\ \E s \in SUBSET {None} : holds' = [holds EXCEPT ![file] = s]
    <3>1. {None : x \in {x \in Gens : pc[x] = "write" /\ fd[x] = file}} \in SUBSET {None}
      OBVIOUS
    <3> QED BY <1>4, <3>1 DEF CreateTmp
  <2>2. path # file
    BY <1>1, <1>2, <2>1 DEF Alone, WholeAtPath, Past, HeldBy
  <2>3. holds'[path] = holds[path]
    BY <1>2, <2>1, <2>2 DEF TypeOK
  <2> QED BY <1>3, <2>1, <2>3 DEF HeldBy
<1>5. CASE WriteParts(k)
  <2>1. pc[k] = "write" /\ path' = path /\ holds' = [holds EXCEPT ![fd[k]] = holds[fd[k]] \cup {k}]
    BY <1>5 DEF WriteParts
  <2>2. fd[k] # path
    BY <1>1, <2>1 DEF Alone, Writes, Writing
  <2> QED BY <1>2, <1>3, <2>1, <2>2 DEF HeldBy, TypeOK
<1>6. ~SaveFails(k)
  BY DEF SaveFails, TypeOK
<1>7. ~CreateTmp(k) /\ ~WriteParts(k) => UNCHANGED <<path, holds>>
  <2>1. BuildSink(k) \/ ApplyHeldDefines(k) \/ ForAttach(k) \/ Restore(k) \/ OpenLog(k)
        => UNCHANGED <<path, holds>>
    BY DEF BuildSink, ApplyHeldDefines, ForAttach, Restore, OpenLog, diskVars
  <2>2. (\E offset \in 0 .. MaxBytes : RestoreMixture(k, offset)) => UNCHANGED <<path, holds>>
    BY DEF RestoreMixture, diskVars
  <2>3. FoldSlice(k) \/ ScanEnds(k) \/ SaveSkipped(k) \/ SaveKeyed(k) => UNCHANGED <<path, holds>>
    BY DEF FoldSlice, ScanEnds, SaveSkipped, SaveKeyed, diskVars
  <2> QED BY <1>6, <2>1, <2>2, <2>3 DEF TurnStep
<1> QED BY <1>3, <1>4, <1>5, <1>7 DEF HeldBy

LEMMA FoldedCounts ==
  ASSUME NEW f \in Folds, NEW log \in Nat
  PROVE  Folded(f, log).upto = f.upto + 1
<1> DEFINE p == f.pure /\ (f.upto = 0 \/ f.log = log)
           n == f.upto + 1
<1>1. Folded(f, log) = [f EXCEPT !.upto = n, !.log = log, !.pure = p]
  BY DEF Folded
<1>2. f \in Folds
  OBVIOUS
<1> HIDE DEF p, n
<1>3. [f EXCEPT !.upto = n, !.log = log, !.pure = p].upto = n
  BY ONLY <1>2 DEF Folds
<1> QED BY <1>1, <1>3 DEF n

LEMMA GivenCounts ==
  ASSUME NEW f \in Folds, NEW d
  PROVE  Given(f, d).upto = f.upto
<1> DEFINE p == f.pure /\ (f.upto = 0 \/ f.define = d)
<1>1. Given(f, d) = [f EXCEPT !.define = d, !.pure = p]
  BY DEF Given
<1>2. f \in Folds
  OBVIOUS
<1> HIDE DEF p
<1>3. [f EXCEPT !.define = d, !.pure = p].upto = f.upto
  BY ONLY <1>2 DEF Folds
<1> QED BY <1>1, <1>3

\* What a fold and its header count.
LEMMA CountsKeep ==
  ASSUME TypeOK, LandInv, NEW k \in Gens, TurnStep(k), NEW g \in Gens
  PROVE  Headed(g)' /\ Measured(g)'
<1>1. Headed(g) /\ Measured(g)
  BY DEF LandInv
<1>2. CASE g # k
  BY <1>1, <1>2, OthersStand DEF Headed, Measured
<1>3. CASE g = k
  <2> USE DEF TypeOK, Goes, Landed, turnVars, ghostVars, inputVars, Scanned, Saving, Started
  <2>1. CASE BuildSink(k)
    <3>1. /\ pc'[k] = "defines" /\ fold'[k] = Whole(seeds, 0, None, 0)
          /\ resume' = resume /\ pc[k] = "build" /\ saved' = saved
      BY <2>1 DEF BuildSink
    <3>2. fold'[k].upto = 0
      BY <3>1 DEF Whole
    <3> QED BY <1>1, <1>3, <3>1, <3>2 DEF Headed, Measured
  <2>2. CASE ApplyHeldDefines(k)
    <3>1. /\ pc'[k] = "key" /\ fold'[k].upto = fold[k].upto
          /\ resume' = resume /\ pc[k] = "defines" /\ saved' = saved
      BY <2>2 DEF ApplyHeldDefines, Folds
    <3> QED BY <1>1, <1>3, <3>1 DEF Headed, Measured
  <2>3. CASE ForAttach(k)
    <3>1. /\ pc'[k] = "restore" /\ UNCHANGED <<fold, resume, saved>> /\ pc[k] = "key"
      BY <2>3 DEF ForAttach
    <3> QED BY <1>1, <1>3, <3>1 DEF Headed, Measured
  <2>4. CASE Restore(k)
    <3>1. /\ pc'[k] = "open" /\ pc[k] = "restore" /\ UNCHANGED <<current, len, saved>>
      BY <2>4 DEF Restore
    <3>2. CASE \E h \in Gens : path # None /\ holds[path] = {h} /\ Matches(k, saved[h])
      <4> DEFINE h == CHOOSE x \in Gens : holds[path] = {x}
      <4>1. PICK x \in Gens : path # None /\ holds[path] = {x} /\ Matches(k, saved[x])
        BY <3>2
      <4>2. h \in Gens /\ holds[path] = {h}
        BY <4>1
      <4>3. h = x
        BY <4>1, <4>2
      <4>4. fold' = [fold EXCEPT ![k] = saved[h].fold]
        BY <2>4, <3>2 DEF Restore
      <4> HIDE DEF h
      <4>5. fold'[k] = saved[x].fold
        BY <4>3, <4>4
      <4>6. saved[x].fold.upto = saved[x].offset /\ saved[x].offset <= len[current]
        BY <4>1 DEF LandInv, Headed, Matches
      <4> QED BY <1>1, <1>3, <3>1, <4>5, <4>6 DEF Headed, Measured
    <3>3. CASE ~\E h \in Gens : path # None /\ holds[path] = {h} /\ Matches(k, saved[h])
      <4>1. UNCHANGED <<fold, resume, calm>>
        BY <2>4, <3>3 DEF Restore
      <4>2. fold[k].upto = 0 /\ len[current] >= 0
        BY <1>1, <1>3, <3>1 DEF Measured
      <4> QED BY <1>1, <1>3, <3>1, <4>1, <4>2 DEF Headed, Measured
    <3> QED BY <3>2, <3>3
  <2>5. ASSUME NEW offset \in 0 .. MaxBytes, RestoreMixture(k, offset)
        PROVE  Headed(g)' /\ Measured(g)'
    <3> DEFINE log == IF offset = 0 THEN None ELSE current
    <3>1. /\ pc'[k] = "open" /\ saved' = saved
          /\ fold'[k] = [fold[k] EXCEPT !.pure = FALSE, !.mixed = TRUE, !.upto = offset, !.log = log]
      BY <2>5 DEF RestoreMixture
    <3>2. fold'[k].mixed
      <4>1. fold[k] \in Folds
        OBVIOUS
      <4> HIDE DEF log
      <4> QED BY ONLY <3>1, <4>1 DEF Folds
    <3> QED BY <1>1, <1>3, <3>1, <3>2 DEF Headed, Measured
  <2>6. CASE OpenLog(k)
    <3>1. /\ pc[k] = "open" /\ pc'[k] \in {"scan", "over"} /\ opened'[k] = current
          /\ UNCHANGED <<fold, resume, saved, calm, current, len>>
      BY <2>6 DEF OpenLog
    <3> QED BY <1>1, <1>3, <3>1 DEF Headed, Measured
  <2>7. CASE FoldSlice(k)
    <3>1. /\ pc[k] = "scan" /\ pc'[k] \in {"scan", "over"} /\ fold[k].upto < len[opened[k]]
          /\ UNCHANGED <<opened, resume, saved, calm, current, len>>
      BY <2>7 DEF FoldSlice
    <3>2. fold'[k].upto = fold[k].upto + 1
      <4> DEFINE folded == Folded(fold[k], opened[k])
      <4>1. \/ fold' = [fold EXCEPT ![k] = folded] \/ fold' = [fold EXCEPT ![k] = Given(folded, defines)]
        BY <2>7 DEF FoldSlice
      <4>2. folded.upto = fold[k].upto + 1 /\ folded \in Folds
        <5>1. opened[k] \in Nat /\ fold[k] \in Folds
          BY DEF Logs, None
        <5> QED BY <5>1, FoldedCounts, FoldedType
      <4> HIDE DEF folded
      <4>3. Given(folded, defines).upto = folded.upto
        BY <4>2, GivenCounts
      <4> QED BY <4>1, <4>2, <4>3
    <3>3. fold[k].upto \in Nat /\ len \in [Logs -> Nat] /\ current \in Logs
      BY DEF Folds
    <3>4. calm[k] => opened[k] = current
      BY <1>1, <1>3, <3>1 DEF Measured
    <3>5. calm'[k] => fold'[k].upto <= len'[current'] /\ opened'[k] = current'
      BY <3>1, <3>2, <3>3, <3>4
    <3> QED BY <1>1, <1>3, <3>1, <3>5 DEF Headed, Measured
  <2>8. CASE ScanEnds(k)
    <3>1. /\ pc[k] = "scan" /\ pc'[k] = "landing"
          /\ UNCHANGED <<fold, opened, resume, saved, calm, current, len>>
      BY <2>8 DEF ScanEnds
    <3> QED BY <1>1, <1>3, <3>1 DEF Headed, Measured
  <2>9. CASE SaveSkipped(k)
    <3>1. /\ pc[k] = "landing" /\ pc'[k] \in {"live", "over"}
          /\ UNCHANGED <<fold, opened, resume, saved, calm, current, len>>
      BY <2>9 DEF SaveSkipped
    <3> QED BY <1>1, <1>3, <3>1 DEF Headed, Measured
  <2>10. CASE SaveKeyed(k)
    <3>1. /\ pc[k] = "landing" /\ pc'[k] \in {"live", "over", "create"}
          /\ UNCHANGED <<fold, opened, resume, calm, current, len>>
      BY <2>10 DEF SaveKeyed
    <3>2. \/ saved' = saved /\ pc'[k] # "create"
          \/ saved'[k].offset = fold[k].upto /\ saved'[k].fold = fold[k]
      BY <2>10 DEF SaveKeyed
    <3> QED BY <1>1, <1>3, <3>1, <3>2 DEF Headed, Measured
  <2>11. CASE CreateTmp(k) \/ WriteParts(k)
    <3>1. /\ pc[k] \in Saving /\ pc'[k] \in {"write", "rename"}
          /\ UNCHANGED <<fold, opened, resume, saved, calm, current, len>>
      BY <2>11 DEF CreateTmp, WriteParts
    <3> QED BY <1>1, <1>3, <3>1 DEF Headed, Measured
  <2>12. CASE SaveFails(k) \/ Rename(k)
    <3>1. /\ pc[k] \in Saving /\ pc'[k] \in {"live", "over"}
          /\ UNCHANGED <<fold, opened, resume, saved, calm, current, len>>
      BY <2>12 DEF SaveFails, Rename
    <3> QED BY <1>1, <1>3, <3>1 DEF Headed, Measured
  <2> QED BY <2>1, <2>2, <2>3, <2>4, <2>5, <2>6, <2>7, <2>8, <2>9, <2>10, <2>11, <2>12 DEF TurnStep
<1> QED BY <1>2, <1>3

\* Until two turns write at once, what is restored is one turn's file.
LEMMA UnmixedKeeps ==
  ASSUME TypeOK, OneWriter, LandInv, NEW k \in Gens, TurnStep(k), NEW g \in Gens
  PROVE  Unmixed(g)'
<1> SUFFICES ASSUME ~crossed' PROVE ~fold'[g].mixed /\ ~saved'[g].fold.mixed
  BY DEF Unmixed
<1>1. ~crossed
  BY OthersStand
<1>2. \A h \in Gens : ~fold[h].mixed /\ ~saved[h].fold.mixed
  BY <1>1 DEF LandInv, Unmixed
<1>3. CASE g # k
  BY <1>2, <1>3, OthersStand
<1>4. CASE g = k
  <2> USE DEF TypeOK
  <2>1. fold[k] \in Folds /\ ~fold[k].mixed /\ ~saved[k].fold.mixed
    BY <1>2
  <2>2. CASE BuildSink(k)
    <3>1. fold'[k] = Whole(seeds, 0, None, 0) /\ saved' = saved
      BY <2>2 DEF BuildSink
    <3> QED BY <1>4, <2>1, <3>1 DEF Whole
  <2>3. CASE ApplyHeldDefines(k)
    <3>1. fold'[k] = [fold[k] EXCEPT !.define = defines] /\ saved' = saved
      BY <2>3 DEF ApplyHeldDefines
    <3>2. fold'[k].mixed = fold[k].mixed
      BY ONLY <2>1, <3>1 DEF Folds
    <3> QED BY <1>4, <2>1, <3>1, <3>2
  <2>4. CASE Restore(k)
    <3>1. saved' = saved
      BY <2>4 DEF Restore
    <3>2. (\E h \in Gens : fold'[k] = saved[h].fold) \/ fold'[k] = fold[k]
      <4>1. CASE \E h \in Gens : path # None /\ holds[path] = {h} /\ Matches(k, saved[h])
        <5> DEFINE h == CHOOSE x \in Gens : holds[path] = {x}
        <5>1. h \in Gens
          BY <4>1
        <5>2. fold' = [fold EXCEPT ![k] = saved[h].fold]
          BY <2>4, <4>1 DEF Restore
        <5> HIDE DEF h
        <5> QED BY <5>1, <5>2
      <4> QED BY <2>4, <4>1 DEF Restore
    <3> QED BY <1>2, <1>4, <3>1, <3>2
  <2>5. \A offset \in 0 .. MaxBytes : ~RestoreMixture(k, offset)
    <3>1. WholeAtPath
      BY <1>1 DEF OneWriter, Alone
    <3>2. \A h \in Gens : Cardinality({h}) = 1
      BY FS_Singleton
    <3> QED BY <3>1, <3>2 DEF WholeAtPath, RestoreMixture
  <2>6. CASE FoldSlice(k)
    <3> DEFINE folded == Folded(fold[k], opened[k])
    <3>1. opened[k] \in Nat /\ defines \in Nat
      BY DEF Logs, None
    <3>2. folded \in Folds /\ folded.mixed = fold[k].mixed /\ Given(folded, defines).mixed = folded.mixed
      <4>1. folded \in Folds
        BY <2>1, <3>1, FoldedType
      <4> QED BY <2>1, <3>1, <4>1, MixedStays
    <3>3. fold' = [fold EXCEPT ![k] = folded] \/ fold' = [fold EXCEPT ![k] = Given(folded, defines)]
      BY <2>6 DEF FoldSlice
    <3>4. saved' = saved
      BY <2>6 DEF FoldSlice
    <3> HIDE DEF folded
    <3> QED BY <1>4, <2>1, <3>2, <3>3, <3>4
  <2>7. CASE SaveKeyed(k)
    BY <1>4, <2>1, <2>7 DEF SaveKeyed
  <2>8. CASE ForAttach(k) \/ OpenLog(k) \/ ScanEnds(k) \/ SaveSkipped(k)
    BY <1>4, <2>1, <2>8 DEF ForAttach, OpenLog, ScanEnds, SaveSkipped
  <2>9. CASE CreateTmp(k) \/ WriteParts(k) \/ SaveFails(k) \/ Rename(k)
    BY <1>4, <2>1, <2>9 DEF CreateTmp, WriteParts, SaveFails, Rename
  <2> QED BY <2>2, <2>3, <2>4, <2>5, <2>6, <2>7, <2>8, <2>9 DEF TurnStep
<1> QED BY <1>3, <1>4

\* Nobody overtakes a landed turn with less than it scanned.
LEMMA PassesKeep ==
  ASSUME TypeOK, LandInv, NEW k \in Gens, TurnStep(k), NEW g \in Gens
  PROVE  Passes(g)'
<1>1. UNCHANGED <<owner, current>>
  BY OthersStand
<1>2. CASE g = k
  <2>1. pc'[g] = "live" => owner = g
    BY <1>2, TurnAdvances
  <2> QED BY <1>1, <2>1 DEF Passes
<1>3. CASE g # k
  <2>1. pc'[g] = pc[g] /\ calm'[g] = calm[g] /\ fold'[g] = fold[g]
    BY <1>3, OthersStand
  <2> SUFFICES ASSUME calm[g], ~fold[g].mixed, pc[g] = "live", NEW h \in Gens \ {g}, owner = h
               PROVE  /\ pc'[h] \in Scanned => opened'[h] = current
                      /\ pc'[h] \in {"landing"} \cup Saving => fold[g].upto <= fold'[h].upto
    BY <1>1, <2>1 DEF Passes
  <2>2. /\ pc[h] \in Scanned => opened[h] = current
        /\ pc[h] \in {"landing"} \cup Saving => fold[g].upto <= fold[h].upto
    BY DEF LandInv, Passes
  <2>3. CASE h # k
    BY <2>2, <2>3, OthersStand
  <2>4. CASE h = k
    <3>1. pc'[h] \in Scanned => opened'[h] = current
      BY <2>2, <2>4, TurnAdvances
    <3>2. ASSUME pc'[h] \in {"landing"} \cup Saving PROVE fold[g].upto <= fold'[h].upto
      <4>1. /\ fold'[h] = fold[h]
            /\ \/ pc[h] \in {"landing"} \cup Saving
               \/ pc[h] = "scan" /\ fold[h].upto >= len[opened[h]]
        BY <2>4, <3>2, TurnAdvances
      <4>2. CASE pc[h] = "scan" /\ fold[h].upto >= len[opened[h]]
        <5>1. opened[h] = current /\ fold[g].upto <= len[current]
          BY <2>2, <4>2 DEF Scanned, LandInv, Measured
        <5>2. fold[g].upto \in Nat /\ fold[h].upto \in Nat /\ len[current] \in Nat
          BY DEF TypeOK, Folds
        <5> QED BY <4>1, <4>2, <5>1, <5>2
      <4> QED BY <2>2, <4>1, <4>2
    <3> QED BY <3>1, <3>2
  <2> QED BY <2>3, <2>4
<1> QED BY <1>2, <1>3

\* The checkpoint a turn continues, and the one it leaves.
LEMMA LandingsKeep ==
  ASSUME TypeOK, OneWriter, LandInv, NEW k \in Gens, TurnStep(k), Unspoilt', NEW g \in Gens
  PROVE  Continues(g)' /\ Kept(g)'
<1>1. /\ Unspoilt /\ Continues(g) /\ Kept(g) /\ Authors /\ UNCHANGED <<owner, current, len>>
      /\ ~crossed /\ ~crossed' /\ failures' = 0
  BY OthersStand DEF Unspoilt, LandInv
<1>2. \A h \in Gens : saved[h].offset \in Nat /\ fold[h].upto \in Nat
  BY DEF TypeOK, Headers, Folds
<1>3. CASE Rename(k)
  <2>1. /\ pc[k] = "rename" /\ pc'[k] \in {"live", "over"} /\ owner = k /\ tmp = fd[k]
        /\ path' = (IF tmp = None THEN path ELSE tmp)
        /\ UNCHANGED <<holds, saved, fold>>
    <3>1. k \in Writing
      BY <1>3 DEF Writing, Rename
    <3>2. tmp = fd[k]
      BY <1>1, <3>1 DEF Authors, Unspoilt
    <3> QED BY <1>1, <1>3, <3>2 DEF Rename, Unspoilt, Landed, Goes, TypeOK, turnVars
  <2>2. HeldBy(k)' /\ saved[k].offset = fold[k].upto
    <3>1. fd[k] \in Gens /\ holds[fd[k]] = {k}
      BY <1>1, <2>1 DEF OneWriter, Alone, Writes, Writing
    <3>2. path' = fd[k] /\ fd[k] # None
      BY <2>1, <3>1 DEF None, Gens
    <3> QED BY <2>1, <3>1, <3>2 DEF HeldBy, LandInv, Headed, Saving
  <2>3. Continues(g)'
    BY <1>1, <2>1 DEF Continues
  <2>4. ASSUME calm'[g], pc'[g] = "live" PROVE fold[g].upto < saved[k].offset + RewriteAfter
    <3>1. fold[g].upto <= fold[k].upto
      <4>1. CASE g = k
        BY <1>2, <4>1
      <4>2. CASE g # k
        <5>1. calm[g] /\ pc[g] = "live"
          BY <2>4, <4>2, OthersStand
        <5> QED BY <1>1, <2>1, <4>2, <5>1 DEF LandInv, Unmixed, Passes, Saving
      <4> QED BY <4>1, <4>2
    <3> QED BY <1>2, <2>2, <3>1, CheckpointAssumption
  <2> QED BY <2>1, <2>2, <2>3, <2>4 DEF Kept
<1>4. CASE ~Rename(k)
  <2>1. ASSUME NEW h \in Gens, HeldBy(h) PROVE HeldBy(h)' /\ saved'[h] = saved[h]
    BY <1>1, <1>4, <2>1, PathStays
  <2>2. CASE g # k
    <3>1. /\ pc'[g] = pc[g] /\ fold'[g] = fold[g] /\ resume'[g] = resume[g] /\ calm'[g] = calm[g]
      BY <2>2, OthersStand
    <3> QED BY <1>1, <2>1, <3>1 DEF Continues, Kept
  <2>3. CASE g = k
    <3>1. Continues(g)'
      <4> SUFFICES ASSUME owner = g, calm'[g], resume'[g] > 0, pc'[g] \in {"open", "scan", "landing"}
                   PROVE  \E h \in Gens : HeldBy(h)' /\ saved'[h].offset = resume'[g]
        BY <1>1 DEF Continues
      <4>1. CASE Restore(k)
        <5>1. pc[k] = "restore" /\ UNCHANGED <<path, holds, saved>>
          BY <4>1 DEF Restore, diskVars
        <5>2. CASE \E h \in Gens : path # None /\ holds[path] = {h} /\ Matches(k, saved[h])
          <6> DEFINE h == CHOOSE x \in Gens : holds[path] = {x}
          <6>1. h \in Gens /\ holds[path] = {h} /\ path # None
            BY <5>2
          <6>2. resume' = [resume EXCEPT ![k] = saved[h].offset]
            BY <4>1, <5>2 DEF Restore
          <6> HIDE DEF h
          <6>3. resume'[g] = saved[h].offset
            BY <2>3, <6>2 DEF TypeOK
          <6> QED BY <5>1, <6>1, <6>3 DEF HeldBy
        <5>3. CASE ~\E h \in Gens : path # None /\ holds[path] = {h} /\ Matches(k, saved[h])
          <6>1. resume' = resume
            BY <4>1, <5>3 DEF Restore
          <6>2. resume[k] = 0
            BY <5>1 DEF LandInv, Measured, Started
          <6> QED BY <2>3, <6>1, <6>2
        <5> QED BY <5>2, <5>3
      <4>2. \A offset \in 0 .. MaxBytes : ~RestoreMixture(k, offset)
        <5>1. WholeAtPath
          BY <1>1 DEF OneWriter, Alone
        <5>2. \A h \in Gens : Cardinality({h}) = 1
          BY FS_Singleton
        <5> QED BY <5>1, <5>2 DEF WholeAtPath, RestoreMixture
      <4>3. CASE OpenLog(k) \/ FoldSlice(k) \/ ScanEnds(k)
        <5>1. pc[k] \in {"open", "scan"} /\ resume' = resume /\ calm' = calm
          BY <4>3 DEF OpenLog, FoldSlice, ScanEnds, ghostVars
        <5>2. PICK h \in Gens : HeldBy(h) /\ saved[h].offset = resume[g]
          BY <1>1, <2>3, <5>1 DEF Continues
        <5> QED BY <2>1, <5>1, <5>2
      <4>4. CASE BuildSink(k) \/ ApplyHeldDefines(k) \/ ForAttach(k)
        BY <2>3, <4>4 DEF BuildSink, ApplyHeldDefines, ForAttach, Goes, TypeOK
      <4>5. CASE SaveSkipped(k) \/ SaveKeyed(k)
        BY <2>3, <4>5 DEF SaveSkipped, SaveKeyed, Goes, Landed, TypeOK
      <4>6. CASE CreateTmp(k) \/ WriteParts(k) \/ SaveFails(k)
        BY <2>3, <4>6 DEF CreateTmp, WriteParts, SaveFails, Goes, Landed, TypeOK
      <4> QED BY <1>4, <2>3, <4>1, <4>2, <4>3, <4>4, <4>5, <4>6 DEF TurnStep
    <3>2. Kept(g)'
      <4> SUFFICES ASSUME calm'[g], pc'[g] = "live"
                   PROVE  \E h \in Gens : HeldBy(h)' /\ fold'[g].upto < saved'[h].offset + RewriteAfter
        BY DEF Kept
      <4>1. owner = k /\ (SaveSkipped(k) \/ SaveKeyed(k) \/ SaveFails(k))
        BY <1>4, <2>3, TurnAdvances
      <4>2. ~SaveFails(k)
        BY <1>1 DEF SaveFails, TypeOK
      <4>3. CASE SaveSkipped(k)
        <5>1. /\ pc[k] = "landing" /\ UNCHANGED <<fold, saved, calm>>
              /\ resume[k] > 0 /\ fold[k].upto < resume[k] + RewriteAfter
          BY <4>3 DEF SaveSkipped, turnVars, ghostVars
        <5>2. PICK h \in Gens : HeldBy(h) /\ saved[h].offset = resume[k]
          BY <1>1, <2>3, <4>1, <5>1 DEF Continues
        <5> QED BY <2>1, <2>3, <5>1, <5>2
      <4>4. CASE SaveKeyed(k)
        <5>1. pc[k] = "landing" /\ UNCHANGED <<fold, calm>>
          BY <4>4 DEF SaveKeyed, ghostVars
        <5>2. fold[k].upto <= len[current]
          BY <1>1, <2>3, <4>1, <5>1 DEF LandInv, Unmixed, Measured, Scanned
        <5>3. pc'[k] = "create"
          BY <4>4, <5>2 DEF SaveKeyed, Goes, TypeOK
        <5> QED BY <2>3, <5>3
      <4> QED BY <4>1, <4>2, <4>3, <4>4
    <3> QED BY <3>1, <3>2
  <2> QED BY <2>2, <2>3
<1> QED BY <1>3, <1>4

\* What the game, the player and a death of the process leave of all this.
LEMMA WorldKeepsLandings ==
  ASSUME TypeOK, OneWriter, LandInv,
         GameAppends \/ LogReplaced \/ DefineRecorded \/ SeedsRewritten \/ Crash
           \/ \E elsewhere \in BOOLEAN : Attach(elsewhere)
  PROVE  LandInv'
<1>1. /\ UNCHANGED <<path, tmp, holds, crossed, disowned, saved, failures>>
      /\ len'[current] >= len[current]
      /\ \/ UNCHANGED <<pc, fold, resume, opened, fd, owner, last>>
         \/ /\ UNCHANGED <<fold, resume, opened, fd, current, len>> /\ owner' = last + 1
            /\ last' = last + 1 /\ last + 1 \in Gens
            /\ pc'[last + 1] \in {"build", "over"} /\ \A k \in Gens \ {last + 1} : pc'[k] = pc[k]
         \/ owner' = None /\ pc' = [k \in Gens |-> IF pc[k] = "none" THEN "none" ELSE "over"]
  <2>1. CASE \E g \in Gens : TRUE
    BY <2>1, WorldMoves
  <2>2. CASE Gens = {}
    <3>1. MaxGen \in Nat /\ last \in 0 .. MaxGen /\ owner \in 0 .. last
      BY CheckpointAssumption DEF TypeOK
    <3>2. last + 1 \notin Gens /\ owner \notin Gens
      BY <2>2
    <3>3. last = MaxGen /\ owner = 0
      BY <3>1, <3>2 DEF Gens
    <3>4. ~Crash /\ ~\E elsewhere \in BOOLEAN : Attach(elsewhere)
      BY <3>1, <3>3 DEF Crash, Attach, None
    <3>5. current \in Logs /\ len \in [Logs -> Nat]
      BY DEF TypeOK
    <3>6. CASE GameAppends
      BY <3>5, <3>6 DEF GameAppends, turnVars, diskVars, ghostVars
    <3>7. CASE LogReplaced
      BY <3>5, <3>7 DEF LogReplaced, turnVars, diskVars
    <3>8. CASE DefineRecorded \/ SeedsRewritten
      BY <3>5, <3>8 DEF DefineRecorded, SeedsRewritten, turnVars, diskVars
    <3> QED BY <3>4, <3>6, <3>7, <3>8
  <2> QED BY <2>1, <2>2
<1>2. pc[last + 1] = "none" \/ last + 1 \notin Gens
  BY DEF OneWriter, Unborn, TypeOK
<1>3. Authors'
  <2>1. /\ \A g \in Gens : pc[g] \in {"rename", "live", "over"} => pc'[g] \in {"rename", "live", "over"}
        /\ Writing' \subseteq Writing /\ (Writing' # {} => fd' = fd)
    BY <1>1, <1>2 DEF Writing, TypeOK
  <2>2. \A f \in Gens : \A h \in holds[f] \ {None} : h \in Gens
    BY DEF TypeOK
  <2> QED BY <1>1, <2>1, <2>2 DEF LandInv, Authors
<1>4. ASSUME NEW g \in Gens
      PROVE  /\ Headed(g)' /\ Measured(g)' /\ Unmixed(g)' /\ Passes(g)'
             /\ Unspoilt' => Continues(g)' /\ Kept(g)'
  <2>1. /\ Headed(g) /\ Measured(g) /\ Unmixed(g) /\ Passes(g)
        /\ Unspoilt => Continues(g) /\ Kept(g)
    BY DEF LandInv
  <2>2. /\ calm'[g] => calm[g]
        /\ \/ UNCHANGED <<pc, fold, resume, opened, fd, owner, last>>
           \/ /\ UNCHANGED <<fold, resume, opened, fd, current, len>> /\ owner' = last + 1
              /\ last' = last + 1 /\ last + 1 \in Gens
              /\ pc'[last + 1] \in {"build", "over"} /\ \A k \in Gens \ {last + 1} : pc'[k] = pc[k]
           \/ /\ owner' = None /\ ~calm'[g] /\ last' = last
              /\ pc' = [k \in Gens |-> IF pc[k] = "none" THEN "none" ELSE "over"]
              /\ fold'[g] = NoFold /\ resume'[g] = 0
        /\ UNCHANGED current \/ pc[g] \notin {"open"} \cup Scanned \/ ~calm'[g]
        /\ len'[current] >= len[current]
    BY WorldMoves
  <2>3. CASE UNCHANGED <<pc, fold, resume, opened, fd, owner, last>>
    <3>1. Headed(g)' /\ (Unspoilt' => Continues(g)' /\ Kept(g)')
      BY <1>1, <2>1, <2>2, <2>3 DEF Headed, Unspoilt, Continues, Kept, HeldBy
    <3>2. Measured(g)'
      <4>1. fold[g].upto \in Nat /\ len[current] \in Nat /\ len'[current] \in Int
        <5>1. len'[current] \in Int
          BY DEF GameAppends, LogReplaced, DefineRecorded, SeedsRewritten, Crash, Attach, inputVars, TypeOK
        <5> QED BY <5>1 DEF TypeOK, Folds
      <4> QED BY <2>1, <2>2, <2>3, <4>1 DEF Measured
    <3>3. Passes(g)'
      BY <2>1, <2>2, <2>3 DEF Passes, Scanned
    <3>4. Unmixed(g)'
      BY <1>1, <2>1, <2>3 DEF Unmixed
    <3> QED BY <3>1, <3>2, <3>3, <3>4
  <2>4. CASE /\ UNCHANGED <<fold, resume, opened, fd, current, len>> /\ owner' = last + 1
             /\ last' = last + 1 /\ last + 1 \in Gens
             /\ pc'[last + 1] \in {"build", "over"} /\ \A k \in Gens \ {last + 1} : pc'[k] = pc[k]
    <3>1. pc'[g] = pc[g] \/ (g = last + 1 /\ pc[g] = "none" /\ pc'[g] \in {"build", "over"})
      BY <1>2, <2>4
    <3>2. Headed(g)' /\ Measured(g)'
      BY <1>1, <2>1, <2>2, <2>4, <3>1 DEF Headed, Measured, Saving, Started, Scanned
    <3>3. Passes(g)'
      BY <2>4 DEF Passes, Scanned, Saving
    <3>4. Unspoilt' => Continues(g)' /\ Kept(g)'
      BY <1>1, <2>1, <2>2, <2>4, <3>1 DEF Unspoilt, Continues, Kept, HeldBy
    <3>5. Unmixed(g)'
      BY <1>1, <2>1, <2>4 DEF Unmixed
    <3> QED BY <3>2, <3>3, <3>4, <3>5
  <2>5. CASE /\ ~calm'[g]
             /\ pc' = [k \in Gens |-> IF pc[k] = "none" THEN "none" ELSE "over"]
             /\ fold'[g] = NoFold /\ resume'[g] = 0
    <3>1. pc'[g] \in {"none", "over"}
      BY <2>5
    <3>2. Unmixed(g)'
      BY <1>1, <2>1, <2>5 DEF Unmixed, NoFold, Whole
    <3> QED BY <1>1, <2>1, <2>5, <3>1, <3>2
        DEF Headed, Measured, Passes, Continues, Kept, Saving, Started, Scanned
  <2> QED BY <2>2, <2>3, <2>4, <2>5
<1> QED BY <1>3, <1>4 DEF LandInv

\* A landing that no failed save, no second writer and no turn that had lost the
\* world spoilt leaves a checkpoint less than RewriteAfter bytes behind it, for any
\* number of turns, relaunches and deaths of the process.
THEOREM LandingLeavesItsCheckpoint == Spec => []LandingIsKept
<1>1. Init => LandInv
  <2> SUFFICES ASSUME Init PROVE LandInv
    OBVIOUS
  <2>1. /\ \A g \in Gens : pc[g] = "none" /\ ~calm[g] /\ resume[g] = 0 /\ saved[g] = NotSaved
                           /\ holds[g] = {} /\ fold[g] = NoFold
        /\ Writing = {}
    BY DEF Init, NoLocals, Writing
  <2>2. NotSaved.fold.upto = NotSaved.offset /\ ~NotSaved.fold.mixed /\ ~NoFold.mixed
    BY DEF NotSaved, NoFold, Whole
  <2>3. Authors
    BY <2>1 DEF Authors
  <2>4. ASSUME NEW g \in Gens
        PROVE  /\ Headed(g) /\ Measured(g) /\ Unmixed(g) /\ Passes(g)
               /\ Unspoilt => Continues(g) /\ Kept(g)
    BY <2>1, <2>2 DEF Headed, Measured, Unmixed, Passes, Continues, Kept, Saving, Started
  <2> QED BY <2>3, <2>4 DEF LandInv
<1>2. TypeOK /\ OneWriter /\ LandInv /\ [Next]_vars => LandInv'
  <2> SUFFICES ASSUME TypeOK, OneWriter, LandInv, [Next]_vars PROVE LandInv'
    OBVIOUS
  <2>1. CASE UNCHANGED vars
    BY <2>1 DEF vars, inputVars, turnVars, diskVars, ghostVars, LandInv, Authors, Headed, Measured,
       Unmixed, Passes, Continues, Kept, HeldBy, Unspoilt, Writing
  <2>2. ASSUME NEW k \in Gens, TurnStep(k) PROVE LandInv'
    <3>1. Authors'
      BY <2>2, AuthorsKeep DEF LandInv
    <3>2. ASSUME NEW g \in Gens
          PROVE  /\ Headed(g)' /\ Measured(g)' /\ Unmixed(g)' /\ Passes(g)'
                 /\ Unspoilt' => Continues(g)' /\ Kept(g)'
      BY <2>2, CountsKeep, UnmixedKeeps, PassesKeep, LandingsKeep
    <3> QED BY <3>1, <3>2 DEF LandInv
  <2> QED BY <2>1, <2>2, WorldKeepsLandings DEF Next
<1>3. LandInv => LandingIsKept
  BY DEF LandInv, Kept, HeldBy, Unspoilt, LandingIsKept
<1> QED BY <1>1, <1>2, <1>3, OneWriterHolds, PTL DEF Spec
=============================================================================
