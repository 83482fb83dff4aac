------------------------------- MODULE ViewDiff -------------------------------
(***************************************************************************)
(* The ops of a diff frame: what the engine computes between the window it *)
(* holds for a subscription and the one it would now send                  *)
(* (zengine/src/views/diff.rs), and what the client makes of them          *)
(* (src/shared/dataServer/viewWindow.ts), over one long subscription.      *)
(*                                                                         *)
(* The module is what World assumes when it gives a diff to a client that  *)
(* draws the window it was cut from.                                       *)
(***************************************************************************)
EXTENDS Naturals, Sequences, FiniteSets, SequencesExt

CONSTANTS
  Keys,        \* row keys
  CellStates,  \* what a row's cells may be: functions from names to values
  Null,        \* the value of a cell sent to be cleared
  None         \* no anchor, no row yet

ASSUME AnchorAssumption == None \notin Keys /\ IsFiniteSet(Keys)

ASSUME CellAssumption == \A cells \in CellStates : cells = [n \in DOMAIN cells |-> cells[n]]

Rows == [key : Keys, cells : CellStates]

\* The rows of one window have different keys.
Windows ==
  {w \in SeqOf(Rows, Cardinality(Keys)) : \A i, j \in DOMAIN w : w[i].key = w[j].key => i = j}

VARIABLES
  held,    \* Sub.held: the window the engine believes the client draws
  drawn,   \* ViewState.rows
  refused  \* an op the client could not apply as sent

vars == <<held, drawn, refused>>

\* Where a key stands in a window, or 0.
IndexOfKey(rows, key) ==
  IF \E i \in DOMAIN rows : rows[i].key = key
  THEN CHOOSE i \in DOMAIN rows : rows[i].key = key
  ELSE 0

Drop(key) == [op |-> "drop", key |-> key]
Update(key, cells) == [op |-> "update", key |-> key, cells |-> cells]
Insert(before, after, row) == [op |-> "insert", before |-> before, after |-> after, row |-> row]

-----------------------------------------------------------------------------
(* The engine: diff. *)

\* Mutant: a cell the row no longer has is not mentioned.
ChangedForgetsCleared(old, new) ==
  [n \in {n \in DOMAIN new : n \notin DOMAIN old \/ old[n] # new[n]} |-> new[n]]

\* The cells that moved; one that is gone is an explicit null.
Changed(old, new) ==
  [n \in {n \in DOMAIN new : n \notin DOMAIN old \/ old[n] # new[n]} \cup (DOMAIN old \ DOMAIN new)
     |-> IF n \in DOMAIN new THEN new[n] ELSE Null]

\* Mutant: a survivor must follow the last one immediately.
StaysOnlyAdjacent(key, next, furthest) == IndexOfKey(next, key) = furthest + 1

\* A survivor stands ahead of the last survivor.
Stays(key, next, furthest) == IndexOfKey(next, key) > furthest

\* One row of pass 1: it stays, in the working copy, or leaves.
Sift(next, acc, row) ==
  IF Stays(row.key, next, acc.furthest)
  THEN [acc EXCEPT !.work = Append(@, row), !.furthest = IndexOfKey(next, row.key)]
  ELSE [acc EXCEPT !.ops = Append(@, Drop(row.key))]

\* Pass 1: who leaves, and the working copy of those who stay.
Survivors(old, next) ==
  FoldLeft(LAMBDA acc, row : Sift(next, acc, row),
           [ops |-> <<>>, work |-> <<>>, furthest |-> 0], old)

\* The insert of row at, anchored in the working copy.
InsertOf(next, work, at) ==
  IF at = 1 THEN Insert(IF work = <<>> THEN None ELSE work[1].key, None, next[at])
  ELSE Insert(None, IF at - 1 \in DOMAIN work THEN work[at - 1].key ELSE None, next[at])

\* One row of pass 2: the working copy holds it there, or it is inserted.
Place(next, acc, at) ==
  IF at \in DOMAIN acc.work /\ acc.work[at].key = next[at].key
  THEN LET cells == Changed(acc.work[at].cells, next[at].cells)
       IN  IF cells = <<>> THEN acc
           ELSE [acc EXCEPT !.ops = Append(@, Update(next[at].key, cells))]
  ELSE [acc EXCEPT !.ops = Append(@, InsertOf(next, acc.work, at)),
                   !.work = InsertAt(@, IF at <= Len(@) THEN at ELSE Len(@) + 1, next[at])]

\* Pass 2: one walk over the next window; anchors come off the working copy.
Diff(old, next) ==
  LET kept == Survivors(old, next)
  IN  FoldLeft(LAMBDA acc, at : Place(next, acc, at), [ops |-> kept.ops, work |-> kept.work],
               [at \in DOMAIN next |-> at]).ops

-----------------------------------------------------------------------------
(* The client: applyDiff.  The accumulator is the window and whether an op *)
(* had to be refused. *)

Refuse(acc) == [acc EXCEPT !.refused = TRUE]

ApplyInsert(acc, op) ==
  LET anchor == IF op.before # None THEN op.before ELSE op.after
      at == IndexOfKey(acc.rows, anchor)
  IN  IF IndexOfKey(acc.rows, op.row.key) # 0 THEN Refuse(acc)
      ELSE IF anchor = None THEN [acc EXCEPT !.rows = Append(@, op.row)]
      ELSE IF at = 0 THEN Refuse(acc)
      ELSE [acc EXCEPT !.rows = InsertAt(@, IF op.before = None THEN at + 1 ELSE at, op.row)]

\* The cells of a row, those of an update over them.
Merged(cells, moved) ==
  [n \in DOMAIN cells \cup DOMAIN moved |-> IF n \in DOMAIN moved THEN moved[n] ELSE cells[n]]

Updated(row, moved) == [row EXCEPT !.cells = Merged(@, moved)]

ApplyUpdate(acc, op) ==
  LET at == IndexOfKey(acc.rows, op.key)
  IN  IF at = 0 THEN Refuse(acc)
      ELSE [acc EXCEPT !.rows[at] = Updated(@, op.cells)]

ApplyDrop(acc, op) ==
  LET at == IndexOfKey(acc.rows, op.key)
  IN  IF at = 0 THEN Refuse(acc) ELSE [acc EXCEPT !.rows = RemoveAt(@, at)]

ApplyOp(acc, op) ==
  CASE op.op = "insert" -> ApplyInsert(acc, op)
    [] op.op = "update" -> ApplyUpdate(acc, op)
    [] op.op = "drop" -> ApplyDrop(acc, op)

ApplyDiff(rows, ops) == FoldLeft(ApplyOp, [rows |-> rows, refused |-> FALSE], ops)

-----------------------------------------------------------------------------
Init == held = <<>> /\ drawn = <<>> /\ refused = FALSE

\* A reset frame: the window whole.
Reset(next) == held' = next /\ drawn' = next /\ UNCHANGED refused

\* A diff frame: cut against the held window, which it replaces.
Serve(next) ==
  LET applied == ApplyDiff(drawn, Diff(held, next))
  IN  /\ held' = next
      /\ drawn' = applied.rows
      /\ refused' = (refused \/ applied.refused)

Next == \E next \in Windows : Reset(next) \/ Serve(next)

Spec == Init /\ [][Next]_vars

-----------------------------------------------------------------------------
(* Properties. *)

\* A cleared cell is stored as a null: the client may hold one where the engine's
\* row has no such cell, and nothing else may differ.
Cell(row, n) == IF n \in DOMAIN row.cells THEN row.cells[n] ELSE Null

SameRow(a, b) ==
  /\ a.key = b.key
  /\ \A n \in DOMAIN a.cells \cup DOMAIN b.cells : Cell(a, n) = Cell(b, n)

\* However many frames have moved the window, every op was applicable as sent, and
\* the client draws the rows the engine believes it draws, in their order
\* (diff.rs: "every op emitted here must be applicable as sent").
DrawnIsHeld ==
  /\ ~refused
  /\ Len(drawn) = Len(held) /\ \A i \in DOMAIN held : SameRow(drawn[i], held[i])

\* Two keys both windows hold stand in the same order in both.
SameOrder(a, b) ==
  \A k, l \in Keys :
    (\A w \in {a, b} : IndexOfKey(w, k) # 0 /\ IndexOfKey(w, l) # 0)
      => (IndexOfKey(a, k) < IndexOfKey(a, l) <=> IndexOfKey(b, k) < IndexOfKey(b, l))

\* A window nobody reordered produces no move: when the rows both windows have
\* stand in the same order, none of them is dropped and inserted again
\* (diff.rs: "a window that nobody reordered produces none of them").
NoMoveUnlessReordered ==
  [][SameOrder(held, held')
     => LET ops == Diff(held, held')
        IN  \A i \in DOMAIN ops : ops[i].op = "drop" => IndexOfKey(held', ops[i].key) = 0]_vars

=============================================================================
