---------------------------- MODULE ViewDiffProofs ----------------------------
(***************************************************************************)
(* The ops of a diff frame, for any keys, cells and windows: every op is   *)
(* applicable as sent and leads the client to the window the engine holds, *)
(* and a window nobody reordered has no move.                              *)
(*                                                                         *)
(* The client is run beside the engine: after each op the engine emits,    *)
(* the rows the client draws are, row for row, the working copy and what   *)
(* the pass has yet to look at.                                            *)
(***************************************************************************)
EXTENDS ViewDiff, TLAPS, SequenceTheorems, FiniteSetTheorems

\* Applying an op depends on nothing but the window and the op.
Applies(none, acc, op) == ApplyOp(acc, op)

Sifting  == INSTANCE FoldFacts WITH Op <- Sift
Placing  == INSTANCE FoldFacts WITH Op <- Place
Applying == INSTANCE FoldFacts WITH Op <- Applies

-----------------------------------------------------------------------------
(* What the client may draw: a cleared cell stays, as a null.  *)

Names  == UNION {DOMAIN cells : cells \in CellStates}
Values == {Null} \cup UNION {{cells[n] : n \in DOMAIN cells} : cells \in CellStates}

SentCells == UNION {[D -> Values] : D \in SUBSET Names}
DrawnRows == [key : Keys, cells : SentCells]

Anchors == Keys \cup {None}

Drops   == {Drop(k) : k \in Keys}
Updates == {Update(k, cells) : k \in Keys, cells \in SentCells}
Inserts == {Insert(at[1], at[2], at[3]) : at \in Anchors \X Anchors \X Rows}

Ops == Drops \cup Updates \cup Inserts

LEMMA CellsAreSent == CellStates \subseteq SentCells
<1> SUFFICES ASSUME NEW cells \in CellStates PROVE cells \in SentCells
  OBVIOUS
<1>1. cells = [n \in DOMAIN cells |-> cells[n]]
  BY CellAssumption
<1>2. DOMAIN cells \in SUBSET Names /\ \A n \in DOMAIN cells : cells[n] \in Values
  BY DEF Names, Values
<1>3. cells \in [DOMAIN cells -> Values]
  BY <1>1, <1>2
<1> QED BY <1>2, <1>3 DEF SentCells

LEMMA RowsAreDrawn == Rows \subseteq DrawnRows
BY CellsAreSent DEF Rows, DrawnRows

LEMMA Sent ==
  ASSUME NEW cells \in SentCells
  PROVE  /\ DOMAIN cells \subseteq Names /\ \A n \in DOMAIN cells : cells[n] \in Values
         /\ cells = [n \in DOMAIN cells |-> cells[n]]
<1>1. PICK D \in SUBSET Names : cells \in [D -> Values]
  BY DEF SentCells
<1> QED BY <1>1

LEMMA MergedIsSent ==
  ASSUME NEW cells \in SentCells, NEW moved \in SentCells
  PROVE  Merged(cells, moved) \in SentCells
<1> DEFINE D == DOMAIN cells \cup DOMAIN moved
<1>1. D \in SUBSET Names
  BY Sent
<1>2. \A n \in D : (IF n \in DOMAIN moved THEN moved[n] ELSE cells[n]) \in Values
  BY Sent
<1> HIDE DEF D
<1>3. [n \in D |-> IF n \in DOMAIN moved THEN moved[n] ELSE cells[n]] \in [D -> Values]
  BY <1>2
<1> QED BY <1>1, <1>3 DEF SentCells, Merged, D

\* The names Changed sends.
Moved(old, new) ==
  {n \in DOMAIN new : n \notin DOMAIN old \/ old[n] # new[n]} \cup (DOMAIN old \ DOMAIN new)

LEMMA ChangedIs ==
  ASSUME NEW old \in SentCells, NEW new \in SentCells
  PROVE  /\ Changed(old, new) \in SentCells
         /\ DOMAIN Changed(old, new) = Moved(old, new)
         /\ \A n \in Moved(old, new) :
              Changed(old, new)[n] = IF n \in DOMAIN new THEN new[n] ELSE Null
<1> DEFINE D == Moved(old, new)
<1>1. Changed(old, new) = [n \in D |-> IF n \in DOMAIN new THEN new[n] ELSE Null]
  BY DEF Changed, Moved
<1>2. D \in SUBSET Names
  BY Sent DEF Moved
<1>3. \A n \in D : (IF n \in DOMAIN new THEN new[n] ELSE Null) \in Values
  BY Sent DEF Values
<1> HIDE DEF D
<1>4. [n \in D |-> IF n \in DOMAIN new THEN new[n] ELSE Null] \in [D -> Values]
  BY <1>3
<1> QED BY <1>1, <1>2, <1>4 DEF SentCells, D

\* An update brings a drawn row to the engine's next one; without moved cells it
\* is there already.
LEMMA UpdateMeets ==
  ASSUME NEW row \in DrawnRows, NEW old \in Rows, NEW new \in Rows,
         old.key = new.key, SameRow(row, old)
  PROVE  LET cells == Changed(old.cells, new.cells)
             after == Updated(row, cells)
         IN  /\ cells \in SentCells
             /\ cells = <<>> => SameRow(row, new)
             /\ after \in DrawnRows /\ after.key = row.key /\ SameRow(after, new)
<1> DEFINE cells == Changed(old.cells, new.cells)
           after == Updated(row, cells)
<1>1. /\ old.cells \in SentCells /\ new.cells \in SentCells /\ row.cells \in SentCells
      /\ row.key = new.key /\ row.key \in Keys
  BY RowsAreDrawn DEF DrawnRows, Rows, SameRow
<1>2. /\ cells \in SentCells /\ DOMAIN cells = Moved(old.cells, new.cells)
      /\ \A n \in DOMAIN cells : cells[n] = IF n \in DOMAIN new.cells THEN new.cells[n] ELSE Null
  BY <1>1, ChangedIs
<1>3. \A n : Cell(row, n) = Cell(old, n)
  <2> SUFFICES ASSUME NEW n PROVE Cell(row, n) = Cell(old, n)
    OBVIOUS
  <2>1. CASE n \in DOMAIN row.cells \cup DOMAIN old.cells
    BY <2>1 DEF SameRow
  <2>2. CASE n \notin DOMAIN row.cells \cup DOMAIN old.cells
    BY <2>2 DEF Cell
  <2> QED BY <2>1, <2>2
<1>4. \A n : n \notin DOMAIN cells => Cell(old, n) = Cell(new, n)
  BY <1>2 DEF Moved, Cell
<1>5. ASSUME cells = <<>> PROVE SameRow(row, new)
  <2>1. DOMAIN cells = {}
    BY <1>5
  <2> QED BY <1>1, <1>3, <1>4, <2>1 DEF SameRow
<1> HIDE DEF cells
<1>6. after = [key |-> row.key, cells |-> Merged(row.cells, cells)]
  BY DEF DrawnRows, Updated
<1>7. after \in DrawnRows
  BY <1>1, <1>2, <1>6, MergedIsSent DEF DrawnRows
<1>8. \A n : Cell(after, n) = Cell(new, n)
  <2> SUFFICES ASSUME NEW n PROVE Cell(after, n) = Cell(new, n)
    OBVIOUS
  <2>1. /\ DOMAIN after.cells = DOMAIN row.cells \cup DOMAIN cells
        /\ n \in DOMAIN after.cells =>
             after.cells[n] = IF n \in DOMAIN cells THEN cells[n] ELSE row.cells[n]
    BY <1>6 DEF Merged
  <2>2. CASE n \in DOMAIN cells
    BY <1>2, <2>1, <2>2 DEF Cell
  <2>3. CASE n \notin DOMAIN cells
    <3>1. Cell(after, n) = Cell(row, n)
      BY <2>1, <2>3 DEF Cell
    <3> QED BY <1>3, <1>4, <2>3, <3>1
  <2> QED BY <2>2, <2>3
<1>9. SameRow(after, new)
  BY <1>1, <1>6, <1>8 DEF SameRow
<1> QED BY <1>2, <1>5, <1>6, <1>7, <1>9 DEF cells

-----------------------------------------------------------------------------
(* Rows by position and by key. *)

LEMMA InsertAtIs ==
  ASSUME NEW S, NEW s, NEW e, NEW p, s \in Seq(S) /\ e \in S /\ p \in 1 .. Len(s) + 1
  PROVE  LET w == InsertAt(s, p, e)
         IN  /\ w \in Seq(S) /\ Len(w) = Len(s) + 1 /\ w[p] = e
             /\ \A j \in 1 .. p - 1 : w[j] = s[j]
             /\ \A j \in p + 1 .. Len(s) + 1 : w[j] = s[j - 1]
<1> DEFINE u == SubSeq(s, 1, p - 1)
           v == SubSeq(s, p, Len(s))
           n == Len(s)
           m == n - p + 1
<1>1. n \in Nat /\ p \in Nat /\ m \in Nat /\ p \in 1 .. n + 1 /\ \A i \in 1 .. n : s[i] \in S
  OBVIOUS
<1>2. u \in Seq(S) /\ Len(u) = p - 1 /\ \A j \in 1 .. p - 1 : u[j] = s[j]
  OBVIOUS
<1>3. v \in Seq(S) /\ Len(v) = m /\ \A j \in 1 .. m : v[j] = s[p + j - 1]
  <2> HIDE DEF n, m
  <2>1. /\ SubSeq(s, p, n) \in Seq(S)
        /\ Len(SubSeq(s, p, n)) = IF p <= n THEN n - p + 1 ELSE 0
        /\ \A j \in 1 .. n - p + 1 : SubSeq(s, p, n)[j] = s[p + j - 1]
    <3>1. \A i \in p .. n : s[i] \in S
      BY <1>1
    <3> QED BY <1>1, <3>1, SubSeqProperties
  <2>2. m = IF p <= n THEN n - p + 1 ELSE 0
    BY <1>1 DEF m
  <2> QED BY <2>1, <2>2 DEF n, m
<1> DEFINE w == u \o <<e>>
<1> HIDE DEF u, v
<1>4. w \in Seq(S) /\ Len(w) = p /\ w[p] = e /\ \A j \in 1 .. p - 1 : w[j] = s[j]
  BY <1>1, <1>2
<1> HIDE DEF w
<1>5. /\ w \o v \in Seq(S) /\ Len(w \o v) = p + m
      /\ \A j \in 1 .. p + m : (w \o v)[j] = IF j <= p THEN w[j] ELSE v[j - p]
  <2>1. /\ w \o v \in Seq(S) /\ Len(w \o v) = Len(w) + Len(v)
        /\ \A j \in 1 .. Len(w) + Len(v) : (w \o v)[j] = IF j <= Len(w) THEN w[j] ELSE v[j - Len(w)]
    BY ONLY <1>3, <1>4, ConcatProperties
  <2> QED BY <1>3, <1>4, <2>1
<1>6. InsertAt(s, p, e) = w \o v
  BY DEF InsertAt, w, u, v
<1> DEFINE r == w \o v
<1> HIDE DEF r, m
<1>7. p + m = n + 1
  BY <1>1 DEF m
<1>8. \A j \in 1 .. p - 1 : r[j] = s[j]
  BY <1>1, <1>4, <1>5, <1>7 DEF r
<1>9. r[p] = e
  BY <1>1, <1>4, <1>5, <1>7 DEF r
<1>10. \A j \in p + 1 .. n + 1 : r[j] = s[j - 1]
  <2> SUFFICES ASSUME NEW j \in p + 1 .. n + 1 PROVE r[j] = s[j - 1]
    OBVIOUS
  <2>1. j \in 1 .. p + m /\ ~ (j <= p) /\ j - p \in 1 .. m /\ p + (j - p) - 1 = j - 1
    BY <1>1, <1>7
  <2> QED BY <1>3, <1>5, <2>1 DEF r
<1> QED BY <1>5, <1>6, <1>7, <1>8, <1>9, <1>10 DEF r

LEMMA RemoveAtIs ==
  ASSUME NEW S, NEW s \in Seq(S), NEW p \in 1 .. Len(s)
  PROVE  /\ RemoveAt(s, p) \in Seq(S) /\ Len(RemoveAt(s, p)) = Len(s) - 1
         /\ \A j \in 1 .. p - 1 : RemoveAt(s, p)[j] = s[j]
         /\ \A j \in p .. Len(s) - 1 : RemoveAt(s, p)[j] = s[j + 1]
<1> DEFINE u == SubSeq(s, 1, p - 1)
           v == SubSeq(s, p + 1, Len(s))
           n == Len(s)
           m == n - p
<1>1. n \in Nat /\ p \in Nat /\ m \in Nat /\ p \in 1 .. n /\ \A i \in 1 .. n : s[i] \in S
  OBVIOUS
<1>2. u \in Seq(S) /\ Len(u) = p - 1 /\ \A j \in 1 .. p - 1 : u[j] = s[j]
  OBVIOUS
<1>3. v \in Seq(S) /\ Len(v) = m /\ \A j \in 1 .. m : v[j] = s[p + j]
  <2> HIDE DEF n, m
  <2>1. /\ SubSeq(s, p + 1, n) \in Seq(S)
        /\ Len(SubSeq(s, p + 1, n)) = IF p + 1 <= n THEN n - (p + 1) + 1 ELSE 0
        /\ \A j \in 1 .. n - (p + 1) + 1 : SubSeq(s, p + 1, n)[j] = s[(p + 1) + j - 1]
    <3>1. \A i \in p + 1 .. n : s[i] \in S
      BY <1>1
    <3> QED BY <1>1, <3>1, SubSeqProperties
  <2>2. m = (IF p + 1 <= n THEN n - (p + 1) + 1 ELSE 0) /\ n - (p + 1) + 1 = m
    BY <1>1 DEF m
  <2>3. \A j \in 1 .. m : (p + 1) + j - 1 = p + j
    BY <1>1
  <2> QED BY <2>1, <2>2, <2>3 DEF n
<1> HIDE DEF u, v
<1>4. /\ u \o v \in Seq(S) /\ Len(u \o v) = (p - 1) + m
      /\ \A j \in 1 .. (p - 1) + m : (u \o v)[j] = IF j <= p - 1 THEN u[j] ELSE v[j - (p - 1)]
  <2>1. /\ u \o v \in Seq(S) /\ Len(u \o v) = Len(u) + Len(v)
        /\ \A j \in 1 .. Len(u) + Len(v) : (u \o v)[j] = IF j <= Len(u) THEN u[j] ELSE v[j - Len(u)]
    BY ONLY <1>2, <1>3, ConcatProperties
  <2> QED BY <1>2, <1>3, <2>1
<1>5. RemoveAt(s, p) = u \o v
  BY DEF RemoveAt, u, v
<1> DEFINE r == u \o v
<1> HIDE DEF r, m
<1>6. (p - 1) + m = n - 1
  BY <1>1 DEF m
<1>7. \A j \in 1 .. p - 1 : r[j] = s[j]
  BY <1>1, <1>2, <1>4, <1>6 DEF r
<1>8. \A j \in p .. n - 1 : r[j] = s[j + 1]
  <2> SUFFICES ASSUME NEW j \in p .. n - 1 PROVE r[j] = s[j + 1]
    OBVIOUS
  <2>1. /\ j \in 1 .. (p - 1) + m /\ ~ (j <= p - 1)
        /\ j - (p - 1) \in 1 .. m /\ p + (j - (p - 1)) = j + 1
    BY <1>1, <1>6 DEF m
  <2> QED BY <1>3, <1>4, <2>1 DEF r
<1> QED BY <1>4, <1>5, <1>6, <1>7, <1>8 DEF r

LEMMA IndexIs ==
  ASSUME NEW rows, NEW k, NEW p \in DOMAIN rows, rows[p].key = k,
         \A j \in DOMAIN rows : rows[j].key = k => j = p
  PROVE  IndexOfKey(rows, k) = p
BY DEF IndexOfKey

LEMMA IndexNone ==
  ASSUME NEW rows, NEW k, \A j \in DOMAIN rows : rows[j].key # k
  PROVE  IndexOfKey(rows, k) = 0
BY DEF IndexOfKey

LEMMA IndexFound ==
  ASSUME NEW S, NEW rows \in Seq(S), NEW k
  PROVE  /\ IndexOfKey(rows, k) \in 0 .. Len(rows)
         /\ IndexOfKey(rows, k) # 0 => rows[IndexOfKey(rows, k)].key = k
<1>1. DOMAIN rows = 1 .. Len(rows) /\ Len(rows) \in Nat
  OBVIOUS
<1>2. CASE \E i \in DOMAIN rows : rows[i].key = k
  <2>1. IndexOfKey(rows, k) \in DOMAIN rows /\ rows[IndexOfKey(rows, k)].key = k
    BY <1>2 DEF IndexOfKey
  <2> QED BY <1>1, <2>1
<1>3. CASE ~ \E i \in DOMAIN rows : rows[i].key = k
  BY <1>1, <1>3 DEF IndexOfKey
<1> QED BY <1>2, <1>3

\* A window is rows with different keys: a row stands where its key does.
LEMMA WindowIs ==
  ASSUME NEW w \in Windows
  PROVE  /\ w \in Seq(Rows) /\ \A j \in 1 .. Len(w) : w[j] \in Rows
         /\ \A j \in 1 .. Len(w) : IndexOfKey(w, w[j].key) = j
         /\ \A j, l \in 1 .. Len(w) : w[j].key = w[l].key => j = l
<1>1. w \in SeqOf(Rows, Cardinality(Keys)) /\ \A i, j \in DOMAIN w : w[i].key = w[j].key => i = j
  BY DEF Windows
<1>2. Cardinality(Keys) \in Nat
  BY AnchorAssumption, FS_CardinalityType
<1>3. w \in Seq(Rows)
  <2>1. PICK m \in 0 .. Cardinality(Keys) : w \in [1 .. m -> Rows]
    BY <1>1 DEF SeqOf
  <2>2. m \in Nat
    BY <1>2
  <2> QED BY <2>1, <2>2
<1>4. DOMAIN w = 1 .. Len(w)
  BY <1>3
<1>5. ASSUME NEW j \in 1 .. Len(w) PROVE IndexOfKey(w, w[j].key) = j
  BY <1>1, <1>4, IndexIs
<1> QED BY <1>1, <1>3, <1>4, <1>5

-----------------------------------------------------------------------------
(* One op at the client. *)

Clean(r) == [rows |-> r, refused |-> FALSE]

LEMMA DropApplies ==
  ASSUME NEW r \in Seq(DrawnRows), NEW p \in 1 .. Len(r),
         \A j \in 1 .. Len(r) : r[j].key = r[p].key => j = p
  PROVE  ApplyOp(Clean(r), Drop(r[p].key)) = Clean(RemoveAt(r, p))
<1>1. IndexOfKey(r, r[p].key) = p /\ p # 0
  BY IndexIs
<1>2. ApplyOp(Clean(r), Drop(r[p].key)) = ApplyDrop(Clean(r), Drop(r[p].key))
  BY DEF ApplyOp, Drop
<1> QED BY <1>1, <1>2 DEF ApplyDrop, Drop, Clean

LEMMA UpdateApplies ==
  ASSUME NEW r \in Seq(DrawnRows), NEW p \in 1 .. Len(r), NEW cells,
         \A j \in 1 .. Len(r) : r[j].key = r[p].key => j = p
  PROVE  ApplyOp(Clean(r), Update(r[p].key, cells))
           = Clean([r EXCEPT ![p] = Updated(@, cells)])
<1>1. IndexOfKey(r, r[p].key) = p /\ p # 0
  BY IndexIs
<1>2. ApplyOp(Clean(r), Update(r[p].key, cells)) = ApplyUpdate(Clean(r), Update(r[p].key, cells))
  BY DEF ApplyOp, Update
<1> QED BY <1>1, <1>2 DEF ApplyUpdate, Update, Clean

\* An insert applied to rows with the keys of the working copy it was cut from.
LEMMA InsertApplies ==
  ASSUME NEW r \in Seq(DrawnRows), NEW work \in Seq(Rows), NEW next \in Windows,
         NEW q \in 1 .. Len(next), Len(r) = Len(work), q <= Len(work) + 1,
         \A j \in 1 .. Len(work) : r[j].key = work[j].key /\ work[j].key # next[q].key,
         \A j, l \in 1 .. Len(work) : work[j].key = work[l].key => j = l
  PROVE  ApplyOp(Clean(r), InsertOf(next, work, q)) = Clean(InsertAt(r, q, next[q]))
<1> DEFINE op == InsertOf(next, work, q)
           n == Len(work)
<1>1. n \in Nat /\ DOMAIN r = 1 .. n /\ DOMAIN work = 1 .. n
      /\ \A j \in 1 .. n : work[j].key \in Keys /\ work[j].key # None
  <2>1. n \in Nat /\ DOMAIN r = 1 .. n /\ DOMAIN work = 1 .. n
    OBVIOUS
  <2>2. \A j \in 1 .. n : work[j] \in Rows
    OBVIOUS
  <2>3. \A row \in Rows : row.key \in Keys /\ row.key # None
    BY AnchorAssumption DEF Rows
  <2> QED BY <2>1, <2>2, <2>3
<1>2. IndexOfKey(r, next[q].key) = 0
  BY <1>1, IndexNone
<1>3. \A j \in 1 .. n : IndexOfKey(r, work[j].key) = j
  <2> SUFFICES ASSUME NEW j \in 1 .. n PROVE IndexOfKey(r, work[j].key) = j
    OBVIOUS
  <2> QED BY <1>1, IndexIs
<1>4. op.op = "insert" /\ op.row = next[q]
  BY DEF InsertOf, Insert
<1>5. ApplyOp(Clean(r), op) = ApplyInsert(Clean(r), op)
  <2> HIDE DEF op
  <2> QED BY <1>4 DEF ApplyOp
<1>6. CASE q = 1 /\ work = <<>>
  <2>1. op.before = None /\ op.after = None
    BY <1>6 DEF InsertOf, Insert
  <2>2. r = <<>>
    BY <1>6
  <2>3. ApplyInsert(Clean(r), op) = Clean(Append(r, next[q]))
    <3> HIDE DEF op
    <3> QED BY <1>2, <1>4, <2>1 DEF ApplyInsert, Clean
  <2>4. Append(r, next[q]) = InsertAt(r, q, next[q])
    <3>1. next[q] \in DrawnRows
      BY WindowIs, RowsAreDrawn
    <3>2. Append(<<>>, next[q]) = <<next[q]>>
      OBVIOUS
    <3>3. SubSeq(<<>>, 1, 1 - 1) = <<>> /\ SubSeq(<<>>, 1, Len(<<>>)) = <<>>
      <4>1. \A m \in Int : m < 1 => SubSeq(<<>>, 1, m) = <<>>
        BY SubSeqEmpty
      <4>2. 1 - 1 < 1 /\ Len(<<>>) < 1 /\ 1 - 1 \in Int /\ Len(<<>>) \in Int
        OBVIOUS
      <4> QED BY <4>1, <4>2
    <3>4. InsertAt(<<>>, 1, next[q]) = (<<>> \o <<next[q]>>) \o <<>>
      BY <3>3 DEF InsertAt
    <3>5. <<next[q]>> \in Seq(DrawnRows)
      BY <3>1
    <3>6. <<>> \o <<next[q]>> = <<next[q]>> /\ <<next[q]>> \o <<>> = <<next[q]>>
      BY <3>5, ConcatEmptySeq
    <3> QED BY <1>6, <2>2, <3>2, <3>4, <3>6
  <2> QED BY <1>5, <2>3, <2>4
<1>7. CASE q = 1 /\ work # <<>>
  <2>1. 1 \in 1 .. n
    BY <1>1, <1>7
  <2>2. op.before = work[1].key /\ op.after = None
    BY <1>7 DEF InsertOf, Insert
  <2>3. IndexOfKey(r, work[1].key) = 1 /\ work[1].key # None
    BY <1>1, <1>3, <2>1
  <2>4. ApplyInsert(Clean(r), op) = Clean(InsertAt(r, 1, next[q]))
    <3> DEFINE k == work[1].key
    <3>1. op.before = k /\ k # None /\ IndexOfKey(r, k) = 1 /\ 1 # 0
      BY <2>2, <2>3
    <3> HIDE DEF op, k
    <3> QED BY <1>2, <1>4, <3>1 DEF ApplyInsert, Clean
  <2> QED BY <1>5, <1>7, <2>4
<1>8. CASE q # 1
  <2>1. q - 1 \in 1 .. n /\ (q - 1) + 1 = q
    BY <1>1, <1>8
  <2>2. op.before = None /\ op.after = work[q - 1].key
    BY <1>1, <1>8, <2>1 DEF InsertOf, Insert
  <2>3. IndexOfKey(r, work[q - 1].key) = q - 1 /\ work[q - 1].key # None /\ q - 1 # 0
    BY <1>1, <1>3, <2>1
  <2>4. ApplyInsert(Clean(r), op) = Clean(InsertAt(r, q, next[q]))
    <3> HIDE DEF op
    <3> QED BY <1>2, <1>4, <2>1, <2>2, <2>3 DEF ApplyInsert, Clean
  <2> QED BY <1>5, <2>4
<1> QED BY <1>6, <1>7, <1>8

-----------------------------------------------------------------------------
(* The ops so far, at the client. *)

LEMMA AppliedNone ==
  ASSUME NEW start
  PROVE  ApplyDiff(start, <<>>) = Clean(start)
<1>1. ApplyDiff(start, <<>>) = Applying!Fold(0, Clean(start), <<>>)
  BY DEF ApplyDiff, Clean, FoldLeft, MapThenFoldSet, Max,
         Applying!Fold, Applying!Greatest, Applies
<1>2. Applying!Fold(0, Clean(start), <<>>) = Clean(start)
  BY Applying!FoldEmpty
<1> QED BY <1>1, <1>2

LEMMA AppliedMore ==
  ASSUME NEW start, NEW ops \in Seq(Ops), NEW op \in Ops
  PROVE  ApplyDiff(start, Append(ops, op)) = ApplyOp(ApplyDiff(start, ops), op)
<1>1. \A s : ApplyDiff(start, s) = Applying!Fold(0, Clean(start), s)
  BY DEF ApplyDiff, Clean, FoldLeft, MapThenFoldSet, Max,
         Applying!Fold, Applying!Greatest, Applies
<1>2. Applying!Fold(0, Clean(start), Append(ops, op))
        = ApplyOp(Applying!Fold(0, Clean(start), ops), op)
  BY Applying!FoldAppend DEF Applies
<1> QED BY <1>1, <1>2

-----------------------------------------------------------------------------
(* Pass 1. *)

\* The working copy stands in the order of the next window.
Rising(next, work) ==
  /\ \A j \in 1 .. Len(work) : IndexOfKey(next, work[j].key) >= 1
  /\ \A j, l \in 1 .. Len(work) :
       j < l => IndexOfKey(next, work[j].key) < IndexOfKey(next, work[l].key)

\* Rows r are, row for row, the working copy and the rows of old after the i-th.
Beside(r, work, old, i) ==
  /\ Len(r) = Len(work) + (Len(old) - i)
  /\ \A j \in 1 .. Len(work) : SameRow(r[j], work[j])
  /\ \A j \in i + 1 .. Len(old) : SameRow(r[Len(work) + (j - i)], old[j])

SiftAccs == [ops : Seq(Ops), work : Seq(Rows), furthest : Nat]

Sifted(old, next, start, acc, i) ==
  /\ \E r \in Seq(DrawnRows) :
       ApplyDiff(start, acc.ops) = Clean(r) /\ Beside(r, acc.work, old, i)
  /\ \A j \in 1 .. Len(acc.work) : \E k \in 1 .. i : acc.work[j] = old[k]
  /\ Rising(next, acc.work)
  /\ \A j \in 1 .. Len(acc.work) : IndexOfKey(next, acc.work[j].key) <= acc.furthest

LEMMA SiftType ==
  ASSUME NEW next \in Windows, NEW acc \in SiftAccs, NEW row \in Rows
  PROVE  Sift(next, acc, row) \in SiftAccs
<1>1. acc.ops \in Seq(Ops) /\ acc.work \in Seq(Rows) /\ acc.furthest \in Nat
      /\ acc = [ops |-> acc.ops, work |-> acc.work, furthest |-> acc.furthest]
  BY DEF SiftAccs
<1>2. Drop(row.key) \in Ops
  BY DEF Ops, Drops, Rows
<1>3. IndexOfKey(next, row.key) \in Nat
  <2>1. next \in Seq(Rows)
    BY WindowIs
  <2>2. IndexOfKey(next, row.key) \in 0 .. Len(next) /\ Len(next) \in Nat
    BY <2>1, IndexFound
  <2> QED BY <2>2
<1>4. Append(acc.ops, Drop(row.key)) \in Seq(Ops) /\ Append(acc.work, row) \in Seq(Rows)
  BY <1>1, <1>2
<1> QED BY <1>1, <1>3, <1>4 DEF Sift, SiftAccs

LEMMA SiftStep ==
  ASSUME NEW old \in Windows, NEW next \in Windows, NEW start,
         NEW i \in 1 .. Len(old), NEW acc \in SiftAccs, Sifted(old, next, start, acc, i - 1)
  PROVE  Sifted(old, next, start, Sift(next, acc, old[i]), i)
<1> DEFINE n == Len(old)
           m == Len(acc.work)
           row == old[i]
           p == IndexOfKey(next, row.key)
           after == Sift(next, acc, row)
<1>0. /\ old \in Seq(Rows) /\ n \in Nat /\ m \in Nat /\ i \in 1 .. n /\ row \in Rows
      /\ acc.ops \in Seq(Ops) /\ acc.work \in Seq(Rows) /\ acc.furthest \in Nat
      /\ \A j, l \in 1 .. n : old[j].key = old[l].key => j = l
  BY WindowIs DEF SiftAccs
<1>p. p \in Nat
  <2>1. next \in Seq(Rows)
    BY WindowIs
  <2>2. p \in 0 .. Len(next) /\ Len(next) \in Nat
    BY <2>1, IndexFound
  <2> QED BY <2>2
<1>1. PICK r \in Seq(DrawnRows) :
        ApplyDiff(start, acc.ops) = Clean(r) /\ Beside(r, acc.work, old, i - 1)
  BY DEF Sifted
<1>2. /\ Len(r) = m + (n - (i - 1))
      /\ \A j \in 1 .. m : SameRow(r[j], acc.work[j])
      /\ \A j \in (i - 1) + 1 .. n : SameRow(r[m + (j - (i - 1))], old[j])
  BY <1>1 DEF Beside
<1>3. /\ \A j \in 1 .. m : \E k \in 1 .. i - 1 : acc.work[j] = old[k]
      /\ \A j \in 1 .. m : IndexOfKey(next, acc.work[j].key) >= 1
                           /\ IndexOfKey(next, acc.work[j].key) <= acc.furthest
      /\ \A j, l \in 1 .. m :
           j < l => IndexOfKey(next, acc.work[j].key) < IndexOfKey(next, acc.work[l].key)
  BY DEF Sifted, Rising
<1> HIDE DEF n, m, row, p, after
<1>4. CASE Stays(row.key, next, acc.furthest)
  <2> DEFINE w == Append(acc.work, row)
  <2>1. after.ops = acc.ops /\ after.work = w /\ after.furthest = p
    BY <1>4 DEF after, Sift, SiftAccs, p
  <2>2. p > acc.furthest
    BY <1>4 DEF Stays, p
  <2>3. /\ w \in Seq(Rows) /\ Len(w) = m + 1 /\ w[m + 1] = row
        /\ \A j \in 1 .. m : w[j] = acc.work[j]
    BY <1>0 DEF m
  <2> HIDE DEF w
  <2>4. Beside(r, w, old, i)
    <3>1. Len(r) = Len(w) + (n - i)
      BY <1>0, <1>2, <2>3
    <3>2. ASSUME NEW j \in 1 .. Len(w) PROVE SameRow(r[j], w[j])
      <4>1. CASE j = m + 1
        <5>1. i \in (i - 1) + 1 .. n /\ m + (i - (i - 1)) = m + 1
          BY <1>0
        <5> QED BY <1>2, <2>3, <4>1, <5>1 DEF row
      <4>2. CASE j # m + 1
        <5>1. j \in 1 .. m
          BY <1>0, <2>3, <4>2
        <5> QED BY <1>2, <2>3, <5>1
      <4> QED BY <4>1, <4>2
    <3>3. ASSUME NEW j \in i + 1 .. n PROVE SameRow(r[Len(w) + (j - i)], old[j])
      <4>1. j \in (i - 1) + 1 .. n /\ m + (j - (i - 1)) = Len(w) + (j - i)
        BY <1>0, <2>3
      <4> QED BY <1>2, <4>1
    <3> QED BY <3>1, <3>2, <3>3 DEF Beside, n
  <2>5. \A j \in 1 .. Len(w) : \E k \in 1 .. i : w[j] = old[k]
    <3>1. \A j \in 1 .. m : \E k \in 1 .. i : w[j] = old[k]
      <4>1. \A k \in 1 .. i - 1 : k \in 1 .. i
        BY <1>0
      <4> QED BY <1>3, <2>3, <4>1
    <3>2. w[m + 1] = old[i] /\ i \in 1 .. i
      BY <1>0, <2>3 DEF row
    <3>3. \A j \in 1 .. Len(w) : j \in 1 .. m \/ j = m + 1
      BY <1>0, <2>3
    <3> QED BY <3>1, <3>2, <3>3
  <2>6. /\ \A j \in 1 .. Len(w) : IndexOfKey(next, w[j].key) >= 1
                                  /\ IndexOfKey(next, w[j].key) <= p
        /\ IndexOfKey(next, w[m + 1].key) = p
        /\ \A j \in 1 .. m : IndexOfKey(next, w[j].key) < p
    <3>1. IndexOfKey(next, w[m + 1].key) = p /\ p >= 1 /\ p <= p
      BY <1>0, <1>p, <2>2, <2>3 DEF p
    <3>2. \A j \in 1 .. m : IndexOfKey(next, w[j].key) \in Nat
      <4>1. next \in Seq(Rows)
        BY WindowIs
      <4>2. \A k : IndexOfKey(next, k) \in 0 .. Len(next) /\ Len(next) \in Nat
        BY <4>1, IndexFound
      <4> QED BY <4>2
    <3>3. ASSUME NEW j \in 1 .. m
          PROVE  /\ IndexOfKey(next, w[j].key) >= 1 /\ IndexOfKey(next, w[j].key) < p
                 /\ IndexOfKey(next, w[j].key) <= p
      <4>1. /\ IndexOfKey(next, w[j].key) >= 1
            /\ IndexOfKey(next, w[j].key) <= acc.furthest
        BY <1>3, <2>3
      <4> QED BY <1>0, <1>p, <2>2, <3>2, <4>1
    <3>4. \A j \in 1 .. Len(w) : j \in 1 .. m \/ j = m + 1
      BY <1>0, <2>3
    <3> QED BY <3>1, <3>3, <3>4
  <2>7. Rising(next, w)
    <3>1. ASSUME NEW j \in 1 .. Len(w), NEW l \in 1 .. Len(w), j < l
          PROVE  IndexOfKey(next, w[j].key) < IndexOfKey(next, w[l].key)
      <4>1. j \in 1 .. m /\ (l \in 1 .. m \/ l = m + 1)
        BY <1>0, <2>3, <3>1
      <4> QED BY <1>3, <2>3, <2>6, <3>1, <4>1
    <3> QED BY <2>6, <3>1 DEF Rising
  <2> QED BY <1>1, <2>1, <2>4, <2>5, <2>6, <2>7 DEF Sifted, after, row
<1>5. CASE ~ Stays(row.key, next, acc.furthest)
  <2> DEFINE q == m + 1
  <2>1. /\ after.ops = Append(acc.ops, Drop(row.key)) /\ after.work = acc.work
        /\ after.furthest = acc.furthest
    BY <1>5 DEF after, Sift, SiftAccs
  <2>2. q \in 1 .. Len(r) /\ r[q].key = row.key
    <3>1. i \in (i - 1) + 1 .. n /\ m + (i - (i - 1)) = q /\ q \in 1 .. Len(r)
      BY <1>0, <1>2
    <3>2. SameRow(r[q], old[i])
      BY <1>2, <3>1
    <3> QED BY <3>1, <3>2 DEF SameRow, row
  <2>3. ASSUME NEW j \in 1 .. Len(r), r[j].key = row.key PROVE j = q
    <3>1. CASE j \in 1 .. m
      <4>1. PICK k \in 1 .. i - 1 : acc.work[j] = old[k]
        BY <1>3, <3>1
      <4>2. old[k].key = old[i].key
        BY <1>2, <2>3, <3>1, <4>1 DEF SameRow, row
      <4>3. k \in 1 .. n /\ k # i
        BY <1>0
      <4> QED BY <1>0, <4>2, <4>3
    <3>2. CASE j \notin 1 .. m
      <4> DEFINE k == (i - 1) + (j - m)
      <4>1. k \in (i - 1) + 1 .. n /\ m + (k - (i - 1)) = j /\ k \in 1 .. n
        <5>1. j \in Nat /\ j > m /\ j <= m + (n - (i - 1))
          BY <1>0, <1>2, <3>2
        <5> QED BY <1>0, <5>1
      <4> HIDE DEF k
      <4>2. old[k].key = old[i].key
        BY <1>2, <2>3, <4>1 DEF SameRow, row
      <4>3. k = i
        BY <1>0, <4>1, <4>2
      <4> QED BY <1>0, <4>1, <4>3
    <3> QED BY <3>1, <3>2
  <2> DEFINE s == RemoveAt(r, q)
  <2>4. ApplyDiff(start, after.ops) = Clean(s)
    <3>1. Drop(row.key) \in Ops
      BY <1>0 DEF Ops, Drops, Rows
    <3>2. ApplyDiff(start, after.ops) = ApplyOp(Clean(r), Drop(row.key))
      BY <1>0, <1>1, <2>1, <3>1, AppliedMore
    <3>3. ApplyOp(Clean(r), Drop(r[q].key)) = Clean(RemoveAt(r, q))
      <4> HIDE DEF q
      <4> QED BY <2>2, <2>3, DropApplies
    <3> QED BY <2>2, <3>2, <3>3
  <2>5. /\ s \in Seq(DrawnRows) /\ Len(s) = Len(r) - 1
        /\ \A j \in 1 .. q - 1 : s[j] = r[j]
        /\ \A j \in q .. Len(r) - 1 : s[j] = r[j + 1]
    <3> HIDE DEF q
    <3> QED BY <2>2, RemoveAtIs
  <2> HIDE DEF s
  <2>6. Beside(s, acc.work, old, i)
    <3>1. Len(s) = m + (n - i)
      BY <1>0, <1>2, <2>5
    <3>2. ASSUME NEW j \in 1 .. m PROVE SameRow(s[j], acc.work[j])
      <4>1. j \in 1 .. q - 1
        BY <1>0
      <4> QED BY <1>2, <2>5, <4>1
    <3>3. ASSUME NEW j \in i + 1 .. n PROVE SameRow(s[m + (j - i)], old[j])
      <4>1. /\ j \in (i - 1) + 1 .. n /\ (m + (j - i)) + 1 = m + (j - (i - 1))
            /\ m + (j - i) \in q .. Len(r) - 1
        BY <1>0, <1>2
      <4> QED BY <1>2, <2>5, <4>1
    <3> QED BY <3>1, <3>2, <3>3 DEF Beside, m, n
  <2>7. \A j \in 1 .. m : \E k \in 1 .. i : acc.work[j] = old[k]
    <3>1. \A k \in 1 .. i - 1 : k \in 1 .. i
      BY <1>0
    <3> QED BY <1>3, <3>1
  <2>8. /\ Rising(next, acc.work)
        /\ \A j \in 1 .. m : IndexOfKey(next, acc.work[j].key) <= acc.furthest
    BY <1>3 DEF Rising, m
  <2> QED BY <2>1, <2>4, <2>5, <2>6, <2>7, <2>8 DEF Sifted, after, row, m
<1> QED BY <1>4, <1>5

\* Every window's first pass: the client that drew the old window is left with the
\* rows that stay, in the next window's order.
LEMMA SurvivorsAre ==
  ASSUME NEW old \in Windows, NEW next \in Windows, NEW start \in Seq(DrawnRows),
         Len(start) = Len(old), \A j \in 1 .. Len(old) : SameRow(start[j], old[j])
  PROVE  /\ Survivors(old, next) \in SiftAccs
         /\ Sifted(old, next, start, Survivors(old, next), Len(old))
<1> DEFINE n == Len(old)
           base == [ops |-> <<>>, work |-> <<>>, furthest |-> 0]
           A == [i \in 0 .. n |-> {acc \in SiftAccs : Sifted(old, next, start, acc, i)}]
<1>1. Survivors(old, next) = Sifting!Fold(next, base, old)
  BY DEF Survivors, FoldLeft, MapThenFoldSet, Max, Sifting!Fold, Sifting!Greatest
<1>2. old \in Seq(Rows) /\ n \in Nat /\ DOMAIN old = 1 .. n /\ \A j \in 1 .. n : old[j] \in Rows
  BY WindowIs
<1>3. base \in A[0]
  <2>1. base \in SiftAccs
    BY DEF SiftAccs
  <2>2. ApplyDiff(start, base.ops) = Clean(start)
    BY AppliedNone
  <2>3. Len(<<>>) = 0 /\ 1 .. 0 = {}
    OBVIOUS
  <2>4. Beside(start, <<>>, old, 0)
    <3>1. Len(start) = Len(<<>>) + (n - 0)
      BY <1>2, <2>3
    <3>2. \A j \in 0 + 1 .. n : j \in 1 .. n /\ Len(<<>>) + (j - 0) = j
      BY <1>2, <2>3
    <3>3. \A j \in 1 .. Len(<<>>) : FALSE
      BY <2>3
    <3> HIDE DEF n
    <3> QED BY <3>1, <3>2, <3>3 DEF Beside, n
  <2>5. Sifted(old, next, start, base, 0)
    BY <2>2, <2>3, <2>4 DEF Sifted, Rising
  <2>6. 0 \in 0 .. n
    BY <1>2
  <2> QED BY <2>1, <2>5, <2>6
<1>4. ASSUME NEW i \in 1 .. n, NEW acc \in A[i - 1] PROVE Sift(next, acc, old[i]) \in A[i]
  <2>1. i - 1 \in 0 .. n /\ i \in 0 .. n
    BY <1>2
  <2>2. acc \in SiftAccs /\ Sifted(old, next, start, acc, i - 1)
    BY <2>1
  <2>3. Sift(next, acc, old[i]) \in SiftAccs
    BY <1>2, <2>2, SiftType
  <2>4. Sifted(old, next, start, Sift(next, acc, old[i]), i)
    BY <2>2, SiftStep
  <2> QED BY <2>1, <2>3, <2>4
<1> HIDE DEF A, base
<1>5. Sifting!Fold(next, base, old) \in A[n]
  <2> HIDE DEF n
  <2> QED BY <1>2, <1>3, <1>4, Sifting!FoldReaches
<1>6. n \in 0 .. n
  BY <1>2
<1> QED BY <1>1, <1>5, <1>6 DEF A

-----------------------------------------------------------------------------
(* Pass 2. *)

PlaceAccs == [ops : Seq(Ops), work : Seq(Rows)]

Placed(next, start, acc, at) ==
  /\ at <= Len(acc.work)
  /\ Rising(next, acc.work)
  /\ \A j \in 1 .. at : acc.work[j].key = next[j].key
  /\ \E r \in Seq(DrawnRows) :
       /\ ApplyDiff(start, acc.ops) = Clean(r) /\ Len(r) = Len(acc.work)
       /\ \A j \in 1 .. at : SameRow(r[j], next[j])
       /\ \A j \in at + 1 .. Len(acc.work) : SameRow(r[j], acc.work[j])

\* Rows in the order of the next window have different keys; past those placed
\* they stand further on.
LEMMA RisingIs ==
  ASSUME NEW next \in Windows, NEW work \in Seq(Rows), Rising(next, work),
         NEW at \in 0 .. Len(next), at <= Len(work),
         \A j \in 1 .. at : work[j].key = next[j].key
  PROVE  /\ \A j \in 1 .. Len(work) : IndexOfKey(next, work[j].key) \in 1 .. Len(next)
         /\ \A j, l \in 1 .. Len(work) : work[j].key = work[l].key => j = l
         /\ \A j \in 1 .. at : IndexOfKey(next, work[j].key) = j
         /\ \A j \in at + 1 .. Len(work) : IndexOfKey(next, work[j].key) > at
<1> DEFINE m == Len(work)
           n == Len(next)
           Ix(j) == IndexOfKey(next, work[j].key)
<1>1. m \in Nat /\ n \in Nat /\ next \in Seq(Rows) /\ at \in 0 .. n /\ at <= m
  BY WindowIs
<1>2. /\ \A j \in 1 .. m : Ix(j) >= 1
      /\ \A j, l \in 1 .. m : j < l => Ix(j) < Ix(l)
  BY DEF Rising
<1>3. \A j \in 1 .. m : Ix(j) \in 1 .. n
  <2>1. \A j : Ix(j) \in 0 .. n
    BY <1>1, IndexFound
  <2> HIDE DEF n, m, Ix
  <2>2. \A x \in 0 .. n : x >= 1 => x \in 1 .. n
    BY <1>1
  <2> QED BY <1>2, <2>1, <2>2
<1>4. ASSUME NEW j \in 1 .. m, NEW l \in 1 .. m, work[j].key = work[l].key PROVE j = l
  <2>1. Ix(j) = Ix(l)
    BY <1>4
  <2> HIDE DEF Ix
  <2>2. ~ (Ix(j) < Ix(l)) /\ ~ (Ix(l) < Ix(j))
    BY <1>1, <1>3, <2>1
  <2> HIDE DEF m
  <2> QED BY <1>1, <1>2, <2>2
<1>5. ASSUME NEW j \in 1 .. at PROVE Ix(j) = j
  <2>1. j \in 1 .. n
    BY <1>1
  <2> QED BY <2>1, WindowIs
<1>6. ASSUME NEW j \in at + 1 .. m PROVE Ix(j) > at
  <2>1. j \in 1 .. m
    BY <1>1
  <2>2. CASE at = 0
    <3> HIDE DEF Ix, m, n
    <3> QED BY <1>1, <1>3, <2>1, <2>2
  <2>3. CASE at # 0
    <3>1. at \in 1 .. at /\ at \in 1 .. m /\ at < j
      BY <1>1, <2>3
    <3>2. Ix(at) = at /\ Ix(at) < Ix(j)
      BY <1>2, <1>5, <2>1, <3>1
    <3> HIDE DEF Ix, m, n
    <3> QED BY <1>1, <1>3, <2>1, <3>2
  <2> QED BY <2>2, <2>3
<1> QED BY <1>3, <1>4, <1>5, <1>6

LEMMA PlaceStep ==
  ASSUME NEW next \in Windows, NEW start, NEW q \in 1 .. Len(next),
         NEW acc \in PlaceAccs, Placed(next, start, acc, q - 1)
  PROVE  Place(next, acc, q) \in PlaceAccs /\ Placed(next, start, Place(next, acc, q), q)
<1> DEFINE work == acc.work
           m == Len(work)
           n == Len(next)
           row == next[q]
           after == Place(next, acc, q)
<1>0. /\ next \in Seq(Rows) /\ n \in Nat /\ m \in Nat /\ q \in 1 .. n /\ row \in Rows
      /\ acc.ops \in Seq(Ops) /\ work \in Seq(Rows) /\ DOMAIN work = 1 .. m
      /\ acc = [ops |-> acc.ops, work |-> work]
      /\ \A j \in 1 .. n : next[j] \in Rows
  BY WindowIs DEF PlaceAccs
<1>1. /\ q - 1 <= m /\ Rising(next, work)
      /\ \A j \in 1 .. q - 1 : work[j].key = next[j].key
  BY DEF Placed
<1>2. PICK r \in Seq(DrawnRows) :
        /\ ApplyDiff(start, acc.ops) = Clean(r) /\ Len(r) = m
        /\ \A j \in 1 .. q - 1 : SameRow(r[j], next[j])
        /\ \A j \in (q - 1) + 1 .. m : SameRow(r[j], work[j])
  BY DEF Placed
<1>3. /\ \A j \in 1 .. m : IndexOfKey(next, work[j].key) \in 1 .. n
      /\ \A j, l \in 1 .. m : work[j].key = work[l].key => j = l
      /\ \A j \in 1 .. q - 1 : IndexOfKey(next, work[j].key) = j
      /\ \A j \in (q - 1) + 1 .. m : IndexOfKey(next, work[j].key) > q - 1
      /\ IndexOfKey(next, row.key) = q
  <2>1. q - 1 \in 0 .. Len(next)
    BY <1>0
  <2>2. IndexOfKey(next, row.key) = q
    BY <1>0, WindowIs
  <2> HIDE DEF row
  <2> QED BY <1>0, <1>1, <2>1, <2>2, RisingIs
<1>4. /\ \A j \in 1 .. m : r[j].key = work[j].key
      /\ \A j \in q .. m : SameRow(r[j], work[j])
      /\ (q - 1) + 1 = q
  <2>1. (q - 1) + 1 = q
    BY <1>0
  <2>2. \A j \in 1 .. m : j \in 1 .. q - 1 \/ j \in q .. m
    BY <1>0
  <2> QED BY <1>1, <1>2, <2>1, <2>2 DEF SameRow
<1>5. \A j, l \in 1 .. m : r[j].key = r[l].key => j = l
  BY <1>3, <1>4
<1> HIDE DEF work, m, n, row, after
<1>6. CASE q \in DOMAIN work /\ work[q].key = row.key
  <2> DEFINE cells == Changed(work[q].cells, row.cells)
             moved == Updated(r[q], cells)
  <2>1. q \in 1 .. m /\ r[q] \in DrawnRows /\ work[q] \in Rows /\ SameRow(r[q], work[q])
    <3>1. q \in 1 .. m /\ q \in q .. m
      BY <1>0, <1>6
    <3> QED BY <1>0, <1>2, <1>4, <3>1
  <2>2. /\ cells \in SentCells /\ (cells = <<>> => SameRow(r[q], row))
        /\ moved \in DrawnRows /\ moved.key = r[q].key /\ SameRow(moved, row)
    BY <1>0, <1>6, <2>1, UpdateMeets
  <2> HIDE DEF cells, moved
  <2>3. /\ \A j \in 1 .. q : work[j].key = next[j].key
        /\ q <= m
    <3>1. \A j \in 1 .. q : j \in 1 .. q - 1 \/ j = q
      BY <1>0
    <3> QED BY <1>0, <1>1, <1>6, <2>1, <3>1 DEF row
  <2>4. CASE cells = <<>>
    <3>1. after = acc
      BY <1>6, <2>4 DEF after, Place, cells, work, row
    <3>2. \A j \in 1 .. q : SameRow(r[j], next[j])
      <4>1. \A j \in 1 .. q : j \in 1 .. q - 1 \/ j = q
        BY <1>0
      <4> QED BY <1>2, <2>2, <2>4, <4>1 DEF row
    <3>3. \A j \in q + 1 .. m : SameRow(r[j], work[j])
      <4>1. \A j \in q + 1 .. m : j \in q .. m
        BY <1>0
      <4> QED BY <1>4, <4>1
    <3> QED BY <1>1, <1>2, <2>3, <3>1, <3>2, <3>3 DEF Placed, after, work, m
  <2>5. CASE cells # <<>>
    <3> DEFINE s == [r EXCEPT ![q] = moved]
    <3>1. after.ops = Append(acc.ops, Update(row.key, cells)) /\ after.work = work
          /\ after = [ops |-> after.ops, work |-> after.work]
      BY <1>0, <1>6, <2>5 DEF after, Place, cells, work, row
    <3>2. Update(row.key, cells) \in Ops
      BY <1>0, <2>2 DEF Ops, Updates, Rows
    <3>3. ApplyDiff(start, after.ops) = Clean(s)
      <4>1. ApplyDiff(start, after.ops) = ApplyOp(Clean(r), Update(row.key, cells))
        BY <1>0, <1>2, <3>1, <3>2, AppliedMore
      <4>2. \A j \in 1 .. Len(r) : r[j].key = r[q].key => j = q
        BY <1>2, <1>5, <2>1
      <4>3. ApplyOp(Clean(r), Update(r[q].key, cells))
              = Clean([r EXCEPT ![q] = Updated(@, cells)])
        BY <1>2, <2>1, <4>2, UpdateApplies
      <4>4. r[q].key = row.key
        BY <1>4, <1>6, <2>1
      <4>5. [r EXCEPT ![q] = Updated(@, cells)] = s
        BY DEF moved
      <4> QED BY <4>1, <4>3, <4>4, <4>5
    <3>4. /\ s \in Seq(DrawnRows) /\ Len(s) = m /\ s[q] = moved
          /\ \A j \in 1 .. m : j # q => s[j] = r[j]
      BY <1>2, <2>1, <2>2
    <3> HIDE DEF s
    <3>5. \A j \in 1 .. q : SameRow(s[j], next[j])
      <4>1. \A j \in 1 .. q : (j \in 1 .. q - 1 /\ j \in 1 .. m /\ j # q) \/ j = q
        BY <1>0, <2>3
      <4> QED BY <1>2, <2>2, <3>4, <4>1 DEF row
    <3>6. \A j \in q + 1 .. m : SameRow(s[j], work[j])
      <4>1. \A j \in q + 1 .. m : j \in q .. m /\ j \in 1 .. m /\ j # q
        BY <1>0
      <4> QED BY <1>4, <3>4, <4>1
    <3>7. after \in PlaceAccs
      <4>1. Append(acc.ops, Update(row.key, cells)) \in Seq(Ops)
        BY <1>0, <3>2
      <4> QED BY <1>0, <3>1, <4>1 DEF PlaceAccs
    <3>8. Placed(next, start, after, q)
      BY <1>1, <2>3, <3>1, <3>3, <3>4, <3>5, <3>6 DEF Placed, m
    <3> QED BY <3>7, <3>8 DEF after
  <2> QED BY <2>4, <2>5
<1>7. CASE ~ (q \in DOMAIN work /\ work[q].key = row.key)
  <2> DEFINE w == InsertAt(work, q, row)
             s == InsertAt(r, q, row)
             op == InsertOf(next, work, q)
  <2>1. \A j \in 1 .. m : work[j].key # row.key
    <3> SUFFICES ASSUME NEW j \in 1 .. m, work[j].key = row.key PROVE FALSE
      OBVIOUS
    <3>1. IndexOfKey(next, work[j].key) = q
      BY <1>3
    <3>2. CASE j \in 1 .. q - 1
      <4>1. j # q
        BY <1>0, <3>2
      <4> QED BY <1>3, <3>1, <3>2, <4>1
    <3>3. CASE j = q
      BY <1>0, <1>7, <3>3
    <3>4. CASE j \in q + 1 .. m
      <4>1. q \in 1 .. m /\ q < j /\ q \in (q - 1) + 1 .. m
        BY <1>0, <3>4
      <4>2. IndexOfKey(next, work[q].key) < q
        BY <1>1, <3>1, <4>1 DEF Rising, m
      <4>3. IndexOfKey(next, work[q].key) > q - 1 /\ IndexOfKey(next, work[q].key) \in 1 .. n
        BY <1>3, <4>1
      <4> QED BY <1>0, <4>2, <4>3
    <3> QED BY <1>0, <3>2, <3>3, <3>4
  <2>2. q \in 1 .. m + 1
    BY <1>0, <1>1
  <2>3. /\ after.ops = Append(acc.ops, op) /\ after.work = w
        /\ after = [ops |-> after.ops, work |-> after.work]
    <3>1. (IF q <= m THEN q ELSE m + 1) = q
      BY <1>0, <2>2
    <3> HIDE DEF op
    <3> QED BY <1>0, <1>7, <3>1 DEF after, Place, work, m, row, op
  <2>4. op \in Ops
    <3>1. \A j \in 1 .. m : work[j].key \in Keys
      <4>1. \A j \in 1 .. m : work[j] \in Rows
        BY <1>0 DEF m
      <4> QED BY <4>1 DEF Rows
    <3>2. ASSUME NEW b \in Anchors, NEW a \in Anchors PROVE Insert(b, a, row) \in Ops
      <4> DEFINE at == <<b, a, row>>
      <4>1. at \in Anchors \X Anchors \X Rows /\ at[1] = b /\ at[2] = a /\ at[3] = row
        BY <1>0
      <4> HIDE DEF at
      <4>2. Insert(at[1], at[2], at[3]) \in Inserts
        BY <4>1 DEF Inserts
      <4> QED BY <4>1, <4>2 DEF Ops
    <3>3. work # <<>> => 1 \in 1 .. m
      BY <1>0 DEF m
    <3>4. (IF work = <<>> THEN None ELSE work[1].key) \in Anchors
      BY <3>1, <3>3 DEF Anchors
    <3>5. (IF q - 1 \in DOMAIN work THEN work[q - 1].key ELSE None) \in Anchors
      BY <1>0, <3>1 DEF Anchors
    <3>6. None \in Anchors
      BY DEF Anchors
    <3>7. CASE q = 1
      BY <3>2, <3>4, <3>6, <3>7 DEF InsertOf, row
    <3>8. CASE q # 1
      BY <3>2, <3>5, <3>6, <3>8 DEF InsertOf, row
    <3> QED BY <3>7, <3>8
  <2>5. ApplyDiff(start, after.ops) = Clean(s)
    <3>1. ApplyDiff(start, after.ops) = ApplyOp(Clean(r), op)
      <4> HIDE DEF op
      <4> QED BY <1>0, <1>2, <2>3, <2>4, AppliedMore
    <3>2. ApplyOp(Clean(r), InsertOf(next, work, q)) = Clean(InsertAt(r, q, next[q]))
      <4>1. q \in 1 .. Len(next) /\ Len(r) = Len(work) /\ q <= Len(work) + 1
        BY <1>0, <1>2, <2>2 DEF m, n
      <4>2. \A j \in 1 .. Len(work) : r[j].key = work[j].key /\ work[j].key # next[q].key
        BY <1>4, <2>1 DEF m, row
      <4>3. \A j, l \in 1 .. Len(work) : work[j].key = work[l].key => j = l
        BY <1>3 DEF m
      <4> QED BY <1>0, <4>1, <4>2, <4>3, InsertApplies
    <3> QED BY <3>1, <3>2 DEF row
  <2>6. /\ w \in Seq(Rows) /\ Len(w) = m + 1 /\ w[q] = row
        /\ \A j \in 1 .. q - 1 : w[j] = work[j]
        /\ \A j \in q + 1 .. m + 1 : w[j] = work[j - 1]
    <3>1. work \in Seq(Rows) /\ row \in Rows /\ q \in 1 .. Len(work) + 1
      BY <1>0, <2>2 DEF m
    <3>2. /\ w \in Seq(Rows) /\ Len(w) = Len(work) + 1 /\ w[q] = row
          /\ \A j \in 1 .. q - 1 : w[j] = work[j]
          /\ \A j \in q + 1 .. Len(work) + 1 : w[j] = work[j - 1]
      BY ONLY <3>1, InsertAtIs
    <3> HIDE DEF w
    <3> QED BY <3>2 DEF m
  <2>7. /\ s \in Seq(DrawnRows) /\ Len(s) = m + 1 /\ s[q] = row
        /\ \A j \in 1 .. q - 1 : s[j] = r[j]
        /\ \A j \in q + 1 .. m + 1 : s[j] = r[j - 1]
    <3>1. r \in Seq(DrawnRows) /\ row \in DrawnRows /\ q \in 1 .. Len(r) + 1
      BY <1>0, <1>2, <2>2, RowsAreDrawn
    <3>2. /\ s \in Seq(DrawnRows) /\ Len(s) = Len(r) + 1 /\ s[q] = row
          /\ \A j \in 1 .. q - 1 : s[j] = r[j]
          /\ \A j \in q + 1 .. Len(r) + 1 : s[j] = r[j - 1]
      BY ONLY <3>1, InsertAtIs
    <3> HIDE DEF s
    <3> QED BY <1>2, <3>2
  <2>8. /\ \A j \in 1 .. m + 1 : j \in 1 .. q - 1 \/ j = q \/ j \in q + 1 .. m + 1
        /\ \A j \in 1 .. q - 1 : j \in 1 .. m
        /\ \A j \in q + 1 .. m + 1 : j - 1 \in q .. m /\ j - 1 \in 1 .. m
    BY <1>0, <2>2
  <2> HIDE DEF w, s, op
  <2>9. Rising(next, w)
    <3> DEFINE Ix(j) == IndexOfKey(next, w[j].key)
    <3>1. \A j \in 1 .. q - 1 : Ix(j) = j
      BY <1>3, <2>6
    <3>2. Ix(q) = q
      BY <1>3, <2>6
    <3>3. ASSUME NEW j \in q + 1 .. m + 1
          PROVE  Ix(j) = IndexOfKey(next, work[j - 1].key) /\ Ix(j) > q /\ Ix(j) \in 1 .. n
      <4>1. Ix(j) = IndexOfKey(next, work[j - 1].key)
        BY <2>6
      <4>2. j - 1 \in (q - 1) + 1 .. m /\ j - 1 \in 1 .. m
        BY <1>4, <2>8
      <4>3. Ix(j) > q - 1 /\ Ix(j) \in 1 .. n
        BY <1>3, <4>1, <4>2
      <4>4. Ix(j) # q
        <5> SUFFICES ASSUME Ix(j) = q PROVE FALSE
          OBVIOUS
        <5>1. next[q].key = work[j - 1].key
          <6>1. IndexOfKey(next, work[j - 1].key) = q /\ q # 0
            BY <1>0, <4>1
          <6> QED BY <1>0, <6>1, IndexFound
        <5> QED BY <2>1, <4>2, <5>1 DEF row
      <4> HIDE DEF Ix
      <4> QED BY <1>0, <4>1, <4>3, <4>4
    <3>4. ASSUME NEW j \in 1 .. m + 1 PROVE Ix(j) >= 1
      <4> HIDE DEF Ix
      <4>1. CASE j \in 1 .. q - 1
        BY <1>0, <3>1, <4>1
      <4>2. CASE j = q
        BY <1>0, <3>2, <4>2
      <4>3. CASE j \in q + 1 .. m + 1
        <5>1. Ix(j) \in 1 .. n
          BY <3>3, <4>3
        <5> QED BY <1>0, <5>1
      <4> QED BY <2>8, <4>1, <4>2, <4>3
    <3>5. ASSUME NEW j \in 1 .. m + 1, NEW l \in 1 .. m + 1, j < l PROVE Ix(j) < Ix(l)
      <4>1. CASE l \in 1 .. q - 1
        <5>1. j \in 1 .. q - 1
          BY <1>0, <3>5, <4>1
        <5> HIDE DEF Ix
        <5> QED BY <3>1, <3>5, <4>1, <5>1
      <4>2. CASE l = q
        <5>1. j \in 1 .. q - 1
          BY <1>0, <3>5, <4>2
        <5> HIDE DEF Ix
        <5> QED BY <3>1, <3>2, <3>5, <4>2, <5>1
      <4>3. CASE l \in q + 1 .. m + 1
        <5>1. CASE j \in 1 .. q - 1 \/ j = q
          <6> HIDE DEF Ix
          <6>1. Ix(j) = j /\ j <= q
            BY <1>0, <3>1, <3>2, <5>1
          <6>2. Ix(l) > q /\ Ix(l) \in 1 .. n
            BY <3>3, <4>3
          <6> QED BY <1>0, <6>1, <6>2
        <5>2. CASE j \in q + 1 .. m + 1
          <6>1. j - 1 \in 1 .. m /\ l - 1 \in 1 .. m /\ j - 1 < l - 1
            BY <1>0, <2>8, <3>5, <4>3, <5>2
          <6>2. IndexOfKey(next, work[j - 1].key) < IndexOfKey(next, work[l - 1].key)
            BY <1>1, <6>1 DEF Rising, m
          <6> QED BY <3>3, <4>3, <5>2, <6>2
        <5> QED BY <2>8, <5>1, <5>2
      <4> QED BY <2>8, <4>1, <4>2, <4>3
    <3> QED BY <2>6, <3>4, <3>5 DEF Rising
  <2>10. \A j \in 1 .. q : w[j].key = next[j].key /\ SameRow(s[j], next[j])
    <3>1. \A j \in 1 .. q : j \in 1 .. q - 1 \/ j = q
      BY <1>0
    <3>2. SameRow(row, row)
      BY DEF SameRow
    <3> QED BY <1>1, <1>2, <2>6, <2>7, <3>1, <3>2 DEF row
  <2>11. \A j \in q + 1 .. m + 1 : SameRow(s[j], w[j])
    BY <1>4, <2>6, <2>7, <2>8
  <2>12. after \in PlaceAccs
    <3>1. Append(acc.ops, op) \in Seq(Ops)
      BY <1>0, <2>4
    <3> QED BY <2>3, <2>6, <3>1 DEF PlaceAccs
  <2>13. Placed(next, start, after, q)
    <3>1. q <= Len(w)
      BY <1>0, <2>2, <2>6
    <3> QED BY <2>3, <2>5, <2>6, <2>7, <2>9, <2>10, <2>11, <3>1 DEF Placed
  <2> QED BY <2>12, <2>13 DEF after
<1> QED BY <1>6, <1>7

PlacedIn(next, start) ==
  [i \in 0 .. Len(next) |-> {acc \in PlaceAccs : Placed(next, start, acc, i)}]

\* The second pass is a fold from what the first left.
LEMMA DiffIs ==
  ASSUME NEW old, NEW next
  PROVE  Diff(old, next)
           = Placing!Fold(next, [ops  |-> Survivors(old, next).ops,
                                 work |-> Survivors(old, next).work],
                          [at \in DOMAIN next |-> at]).ops
BY DEF Diff, FoldLeft, MapThenFoldSet, Max, Placing!Fold, Placing!Greatest

\* What the first pass leaves is where the second starts.
LEMMA PlacingStarts ==
  ASSUME NEW old \in Windows, NEW next \in Windows, NEW start \in Seq(DrawnRows),
         Len(start) = Len(old), \A j \in 1 .. Len(old) : SameRow(start[j], old[j])
  PROVE  LET kept == Survivors(old, next)
             base == [ops |-> kept.ops, work |-> kept.work]
         IN  base \in PlaceAccs /\ Placed(next, start, base, 0)
<1> DEFINE kept == Survivors(old, next)
           base == [ops |-> kept.ops, work |-> kept.work]
<1>1. kept \in SiftAccs /\ Sifted(old, next, start, kept, Len(old))
  BY SurvivorsAre
<1>2. old \in Seq(Rows) /\ Len(old) \in Nat
  BY WindowIs
<1>3. kept.ops \in Seq(Ops) /\ kept.work \in Seq(Rows) /\ Rising(next, kept.work)
  BY <1>1 DEF SiftAccs, Sifted
<1> HIDE DEF kept
<1>4. base \in PlaceAccs /\ base.ops = kept.ops /\ base.work = kept.work
  BY <1>3 DEF PlaceAccs
<1>5. PICK r \in Seq(DrawnRows) :
        ApplyDiff(start, kept.ops) = Clean(r) /\ Beside(r, kept.work, old, Len(old))
  BY <1>1 DEF Sifted
<1>6. Len(r) = Len(kept.work) /\ \A j \in 1 .. Len(kept.work) : SameRow(r[j], kept.work[j])
  BY <1>2, <1>3, <1>5 DEF Beside
<1>7. 0 <= Len(kept.work) /\ \A j \in 1 .. 0 : FALSE
  BY <1>3
<1>8. \A j \in 0 + 1 .. Len(kept.work) : j \in 1 .. Len(kept.work)
  BY <1>3
<1>9. Placed(next, start, base, 0)
  <2> HIDE DEF base
  <2> QED BY <1>3, <1>4, <1>5, <1>6, <1>7, <1>8 DEF Placed
<1> QED BY <1>4, <1>9 DEF kept

\* A diff brings a client that drew the old window to the next one, each op applied.
LEMMA DiffApplies ==
  ASSUME NEW old \in Windows, NEW next \in Windows, NEW start \in Seq(DrawnRows),
         Len(start) = Len(old), \A j \in 1 .. Len(old) : SameRow(start[j], old[j])
  PROVE  \E r \in Seq(DrawnRows) :
           /\ ApplyDiff(start, Diff(old, next)) = Clean(r) /\ Len(r) = Len(next)
           /\ \A j \in 1 .. Len(next) : SameRow(r[j], next[j])
<1> DEFINE n == Len(next)
           kept == Survivors(old, next)
           base == [ops |-> kept.ops, work |-> kept.work]
           walk == [at \in DOMAIN next |-> at]
           A == PlacedIn(next, start)
           last == Placing!Fold(next, base, walk)
<1>1. next \in Seq(Rows) /\ n \in Nat /\ DOMAIN next = 1 .. n
  BY WindowIs
<1>2. /\ A[0] = {acc \in PlaceAccs : Placed(next, start, acc, 0)}
      /\ A[n] = {acc \in PlaceAccs : Placed(next, start, acc, n)}
      /\ \A i \in 1 .. n : /\ A[i] = {acc \in PlaceAccs : Placed(next, start, acc, i)}
                           /\ A[i - 1] = {acc \in PlaceAccs : Placed(next, start, acc, i - 1)}
  <2>1. 0 \in 0 .. n /\ n \in 0 .. n /\ \A i \in 1 .. n : i \in 0 .. n /\ i - 1 \in 0 .. n
    BY <1>1
  <2> QED BY <2>1 DEF PlacedIn
<1> HIDE DEF A
<1>3. base \in A[0]
  BY <1>2, PlacingStarts
<1> HIDE DEF base, kept
<1>4. ASSUME NEW i \in 1 .. n, NEW acc \in A[i - 1] PROVE Place(next, acc, walk[i]) \in A[i]
  <2>1. walk[i] = i /\ acc \in PlaceAccs /\ Placed(next, start, acc, i - 1)
    BY <1>1, <1>2
  <2>2. Place(next, acc, i) \in PlaceAccs /\ Placed(next, start, Place(next, acc, i), i)
    BY <2>1, PlaceStep
  <2> QED BY <1>2, <2>1, <2>2
<1>5. last \in A[n]
  <2>1. DOMAIN walk = 1 .. n
    BY <1>1
  <2> HIDE DEF walk, n
  <2> QED BY <1>1, <1>3, <1>4, <2>1, Placing!FoldReaches
<1>6. last \in PlaceAccs /\ Placed(next, start, last, n)
  BY <1>2, <1>5
<1>7. Diff(old, next) = last.ops
  BY DiffIs DEF base, kept
<1> HIDE DEF last, walk
<1> DEFINE m == Len(last.work)
<1>8. PICK r \in Seq(DrawnRows) :
        /\ ApplyDiff(start, last.ops) = Clean(r) /\ Len(r) = m
        /\ \A j \in 1 .. n : SameRow(r[j], next[j])
  BY <1>6 DEF Placed
<1>9. m = n
  <2>1. /\ last.work \in Seq(Rows) /\ Rising(next, last.work) /\ n <= m
        /\ \A j \in 1 .. n : last.work[j].key = next[j].key
    BY <1>6 DEF Placed, PlaceAccs
  <2>2. n \in 0 .. Len(next)
    BY <1>1
  <2>3. /\ \A j \in 1 .. m : IndexOfKey(next, last.work[j].key) \in 1 .. n
        /\ \A j \in n + 1 .. m : IndexOfKey(next, last.work[j].key) > n
    BY <2>1, <2>2, RisingIs
  <2>4. m \in Nat
    BY <2>1
  <2> SUFFICES ASSUME m # n PROVE FALSE
    OBVIOUS
  <2>5. n + 1 \in 1 .. m /\ n + 1 \in n + 1 .. m
    BY <1>1, <2>1, <2>4
  <2> DEFINE x == IndexOfKey(next, last.work[n + 1].key)
  <2>6. x \in 1 .. n /\ x > n
    BY <2>3, <2>5
  <2> HIDE DEF x, n
  <2> QED BY <1>1, <2>6
<1> QED BY <1>7, <1>8, <1>9

-----------------------------------------------------------------------------
Inv ==
  /\ held \in Windows
  /\ drawn \in Seq(DrawnRows)
  /\ DrawnIsHeld

LEMMA InvInit == Init => Inv
<1> SUFFICES ASSUME Init PROVE Inv
  OBVIOUS
<1>1. held = <<>> /\ drawn = <<>> /\ ~ refused
  BY DEF Init
<1>2. <<>> \in Windows
  <2>1. Cardinality(Keys) \in Nat
    BY AnchorAssumption, FS_CardinalityType
  <2>2. 0 \in 0 .. Cardinality(Keys)
    BY <2>1
  <2>3. <<>> \in [1 .. 0 -> Rows]
    OBVIOUS
  <2>4. <<>> \in SeqOf(Rows, Cardinality(Keys))
    BY <2>2, <2>3 DEF SeqOf
  <2>5. \A i, j \in DOMAIN <<>> : i = j
    OBVIOUS
  <2> QED BY <2>4, <2>5 DEF Windows
<1>3. <<>> \in Seq(DrawnRows) /\ DOMAIN <<>> = {}
  OBVIOUS
<1> QED BY <1>1, <1>2, <1>3 DEF Inv, DrawnIsHeld

LEMMA InvStep == Inv /\ [Next]_vars => Inv'
<1> SUFFICES ASSUME Inv, [Next]_vars PROVE Inv'
  OBVIOUS
<1>1. ASSUME NEW next \in Windows, Reset(next) PROVE Inv'
  <2>1. held' = next /\ drawn' = next /\ refused' = refused
    BY <1>1 DEF Reset
  <2>2. next \in Seq(Rows)
    BY WindowIs
  <2>3. next \in Seq(DrawnRows)
    BY <2>2, RowsAreDrawn
  <2>4. \A j \in DOMAIN next : SameRow(next[j], next[j])
    BY DEF SameRow
  <2> QED BY <2>1, <2>3, <2>4 DEF Inv, DrawnIsHeld
<1>2. ASSUME NEW next \in Windows, Serve(next) PROVE Inv'
  <2> DEFINE applied == ApplyDiff(drawn, Diff(held, next))
  <2>1. held' = next /\ drawn' = applied.rows /\ refused' = (refused \/ applied.refused)
    BY <1>2 DEF Serve
  <2>2. held \in Seq(Rows) /\ next \in Seq(Rows)
    BY WindowIs DEF Inv
  <2>3. /\ held \in Windows /\ drawn \in Seq(DrawnRows) /\ ~ refused /\ Len(drawn) = Len(held)
        /\ \A j \in 1 .. Len(held) : SameRow(drawn[j], held[j])
    BY <2>2 DEF Inv, DrawnIsHeld
  <2>4. PICK r \in Seq(DrawnRows) :
          /\ applied = Clean(r) /\ Len(r) = Len(next)
          /\ \A j \in 1 .. Len(next) : SameRow(r[j], next[j])
    BY <2>3, DiffApplies
  <2> HIDE DEF applied
  <2>5. applied.rows = r /\ applied.refused = FALSE
    BY <2>4 DEF Clean
  <2>6. DOMAIN next = 1 .. Len(next)
    BY <2>2
  <2>7. ~ refused'
    BY <2>1, <2>3, <2>5
  <2> QED BY <2>1, <2>4, <2>5, <2>6, <2>7 DEF Inv, DrawnIsHeld
<1>3. CASE UNCHANGED vars
  BY <1>3 DEF Inv, DrawnIsHeld, vars
<1> QED BY <1>1, <1>2, <1>3 DEF Next

LEMMA Invariance == Spec => []Inv
<1> QED BY InvInit, InvStep, PTL DEF Spec

\* However many frames have moved the window, each op of each diff was applicable
\* as sent, and the client draws the rows the engine believes it draws, in their
\* order: diff and applyDiff undo each other, whatever the keys and the cells.
THEOREM WindowsAgree == Spec => []DrawnIsHeld
<1>1. Inv => DrawnIsHeld
  BY DEF Inv
<1> QED BY <1>1, Invariance, PTL

-----------------------------------------------------------------------------
(* No move. *)

\* What the first pass has dropped of the first i rows, the next window has not.
Unmoved(old, next, acc, i) ==
  /\ acc.furthest = 0 \/ \E k \in 1 .. i : acc.furthest = IndexOfKey(next, old[k].key)
  /\ \A j \in DOMAIN acc.ops : acc.ops[j].op = "drop" => IndexOfKey(next, acc.ops[j].key) = 0

LEMMA UnmovedStep ==
  ASSUME NEW old \in Windows, NEW next \in Windows, SameOrder(old, next),
         NEW i \in 1 .. Len(old), NEW acc \in SiftAccs, Unmoved(old, next, acc, i - 1)
  PROVE  Unmoved(old, next, Sift(next, acc, old[i]), i)
<1> DEFINE n == Len(old)
           row == old[i]
           p == IndexOfKey(next, row.key)
           after == Sift(next, acc, row)
<1>1. /\ old \in Seq(Rows) /\ n \in Nat /\ i \in 1 .. n
      /\ \A k \in 1 .. n : old[k].key \in Keys /\ IndexOfKey(old, old[k].key) = k
      /\ acc.ops \in Seq(Ops) /\ acc.furthest \in Nat
  <2>1. /\ old \in Seq(Rows) /\ \A k \in 1 .. n : old[k] \in Rows
        /\ \A k \in 1 .. n : IndexOfKey(old, old[k].key) = k
    BY WindowIs
  <2>2. \A x \in Rows : x.key \in Keys
    BY DEF Rows
  <2>3. acc.ops \in Seq(Ops) /\ acc.furthest \in Nat
    BY DEF SiftAccs
  <2> QED BY <2>1, <2>2, <2>3
<1>2. \A k : IndexOfKey(next, k) \in Nat
  <2>1. next \in Seq(Rows) /\ Len(next) \in Nat
    BY WindowIs
  <2>2. \A k : IndexOfKey(next, k) \in 0 .. Len(next)
    BY <2>1, IndexFound
  <2> QED BY <2>1, <2>2
<1>3. \A k \in 1 .. i - 1 : k \in 1 .. i /\ k \in 1 .. n /\ k < i
  BY <1>1
<1>4. i \in 1 .. i
  BY <1>1
<1>5. CASE Stays(row.key, next, acc.furthest)
  <2>1. after.ops = acc.ops /\ after.furthest = p
    BY <1>5 DEF Sift, SiftAccs
  <2> QED BY <1>4, <2>1 DEF Unmoved
<1>6. CASE ~ Stays(row.key, next, acc.furthest)
  <2>1. after.ops = Append(acc.ops, Drop(row.key)) /\ after.furthest = acc.furthest
    BY <1>6 DEF Sift, SiftAccs
  <2>2. p <= acc.furthest
    BY <1>1, <1>2, <1>6 DEF Stays
  <2>3. p = 0
    <3> SUFFICES ASSUME p # 0 PROVE FALSE
      OBVIOUS
    <3>1. acc.furthest # 0
      BY <1>1, <1>2, <2>2
    <3>2. PICK k \in 1 .. i - 1 : acc.furthest = IndexOfKey(next, old[k].key)
      BY <3>1 DEF Unmoved
    <3>3. /\ old[k].key \in Keys /\ row.key \in Keys /\ k < i /\ k # 0 /\ i # 0
          /\ IndexOfKey(old, old[k].key) = k /\ IndexOfKey(old, row.key) = i
      BY <1>1, <1>3
    <3> HIDE DEF row
    <3>4. IndexOfKey(next, old[k].key) < p
      BY <3>1, <3>2, <3>3 DEF SameOrder
    <3> HIDE DEF p
    <3> QED BY <1>1, <1>2, <2>2, <3>2, <3>4 DEF p
  <2>4. \A j \in DOMAIN after.ops :
          (j \in DOMAIN acc.ops /\ after.ops[j] = acc.ops[j]) \/ after.ops[j] = Drop(row.key)
    BY <1>1, <2>1
  <2>5. Drop(row.key).key = row.key
    BY DEF Drop
  <2> HIDE DEF row, after
  <2>6. \A j \in DOMAIN after.ops :
          after.ops[j].op = "drop" => IndexOfKey(next, after.ops[j].key) = 0
    BY <2>3, <2>4, <2>5 DEF Unmoved, p
  <2>7. after.furthest = 0 \/ \E k \in 1 .. i : after.furthest = IndexOfKey(next, old[k].key)
    BY <1>3, <2>1 DEF Unmoved
  <2> QED BY <2>6, <2>7 DEF Unmoved, after, row
<1> QED BY <1>5, <1>6

\* What is dropped is not in the next window.
Dropless(next, ops) ==
  \A j \in DOMAIN ops : ops[j].op = "drop" => IndexOfKey(next, ops[j].key) = 0

LEMMA SurvivorsUnmoved ==
  ASSUME NEW old \in Windows, NEW next \in Windows, SameOrder(old, next)
  PROVE  /\ Survivors(old, next) \in SiftAccs
         /\ Dropless(next, Survivors(old, next).ops)
<1> DEFINE n == Len(old)
           base == [ops |-> <<>>, work |-> <<>>, furthest |-> 0]
           A == [i \in 0 .. n |-> {acc \in SiftAccs : Unmoved(old, next, acc, i)}]
<1>1. Survivors(old, next) = Sifting!Fold(next, base, old)
  BY DEF Survivors, FoldLeft, MapThenFoldSet, Max, Sifting!Fold, Sifting!Greatest
<1>2. old \in Seq(Rows) /\ n \in Nat /\ DOMAIN old = 1 .. n /\ \A j \in 1 .. n : old[j] \in Rows
  BY WindowIs
<1>3. base \in A[0]
  <2>1. base \in SiftAccs
    BY DEF SiftAccs
  <2>2. Unmoved(old, next, base, 0)
    BY DEF Unmoved
  <2>3. 0 \in 0 .. n
    BY <1>2
  <2> QED BY <2>1, <2>2, <2>3
<1>4. ASSUME NEW i \in 1 .. n, NEW acc \in A[i - 1] PROVE Sift(next, acc, old[i]) \in A[i]
  <2>1. i - 1 \in 0 .. n /\ i \in 0 .. n
    BY <1>2
  <2>2. acc \in SiftAccs /\ Unmoved(old, next, acc, i - 1)
    BY <2>1
  <2>3. Sift(next, acc, old[i]) \in SiftAccs
    BY <1>2, <2>2, SiftType
  <2>4. Unmoved(old, next, Sift(next, acc, old[i]), i)
    BY <2>2, UnmovedStep
  <2> QED BY <2>1, <2>3, <2>4
<1> HIDE DEF A, base
<1>5. Sifting!Fold(next, base, old) \in A[n]
  <2> HIDE DEF n
  <2> QED BY <1>2, <1>3, <1>4, Sifting!FoldReaches
<1>6. n \in 0 .. n
  BY <1>2
<1> QED BY <1>1, <1>5, <1>6 DEF A, Unmoved, Dropless

\* A second-pass step adds no drop.
LEMMA PlaceDropless ==
  ASSUME NEW next, NEW acc \in PlaceAccs, NEW at, Dropless(next, acc.ops)
  PROVE  Dropless(next, Place(next, acc, at).ops)
<1> DEFINE after == Place(next, acc, at)
<1>1. acc.ops \in Seq(Ops)
  BY DEF PlaceAccs
<1>2. \A work : InsertOf(next, work, at).op = "insert"
  BY DEF InsertOf, Insert
<1>3. \A cells : Update(next[at].key, cells).op = "update"
  BY DEF Update
<1>4. after.ops = acc.ops \/ \E op : op.op # "drop" /\ after.ops = Append(acc.ops, op)
  BY <1>2, <1>3 DEF Place, PlaceAccs
<1> HIDE DEF after
<1>5. ASSUME NEW op, op.op # "drop", after.ops = Append(acc.ops, op) PROVE Dropless(next, after.ops)
  <2>1. \A j \in DOMAIN after.ops :
          (j \in DOMAIN acc.ops /\ after.ops[j] = acc.ops[j]) \/ after.ops[j] = op
    BY <1>1, <1>5
  <2> QED BY <1>5, <2>1 DEF Dropless
<1> QED BY <1>4, <1>5 DEF after

LEMMA DiffUnmoved ==
  ASSUME NEW old \in Windows, NEW next \in Windows, SameOrder(old, next)
  PROVE  Dropless(next, Diff(old, next))
<1> DEFINE n == Len(next)
           kept == Survivors(old, next)
           base == [ops |-> kept.ops, work |-> kept.work]
           walk == [at \in DOMAIN next |-> at]
           A == [i \in 0 .. n |-> {acc \in PlaceAccs : /\ Placed(next, old, acc, i)
                                                     /\ Dropless(next, acc.ops)}]
           last == Placing!Fold(next, base, walk)
<1>1. next \in Seq(Rows) /\ n \in Nat /\ DOMAIN next = 1 .. n
  BY WindowIs
<1>2. base \in A[0]
  <2>1. old \in Seq(DrawnRows) /\ \A j \in 1 .. Len(old) : SameRow(old[j], old[j])
    BY WindowIs, RowsAreDrawn DEF SameRow
  <2>2. base \in PlaceAccs /\ Placed(next, old, base, 0)
    BY <2>1, PlacingStarts
  <2>3. Dropless(next, base.ops)
    BY SurvivorsUnmoved
  <2>4. 0 \in 0 .. n
    BY <1>1
  <2> HIDE DEF base
  <2> QED BY <2>2, <2>3, <2>4
<1> HIDE DEF base, kept
<1>3. ASSUME NEW i \in 1 .. n, NEW acc \in A[i - 1] PROVE Place(next, acc, walk[i]) \in A[i]
  <2>1. i - 1 \in 0 .. n /\ i \in 0 .. n /\ walk[i] = i
    BY <1>1
  <2>2. acc \in PlaceAccs /\ Placed(next, old, acc, i - 1) /\ Dropless(next, acc.ops)
    BY <2>1
  <2>3. Place(next, acc, i) \in PlaceAccs /\ Placed(next, old, Place(next, acc, i), i)
    BY <2>2, PlaceStep
  <2>4. Dropless(next, Place(next, acc, i).ops)
    BY <2>2, PlaceDropless
  <2> QED BY <2>1, <2>3, <2>4
<1> HIDE DEF A
<1>4. last \in A[n]
  <2>1. DOMAIN walk = 1 .. n
    BY <1>1
  <2> HIDE DEF walk, n
  <2> QED BY <1>1, <1>2, <1>3, <2>1, Placing!FoldReaches
<1>5. Diff(old, next) = last.ops
  BY DiffIs DEF base, kept
<1>6. n \in 0 .. n
  BY <1>1
<1> HIDE DEF last
<1> QED BY <1>4, <1>5, <1>6 DEF A

\* A window nobody reordered produces no move: when the rows both windows have stand
\* in the same order, diff drops none of them, whatever the windows.
THEOREM NoMove == Spec => NoMoveUnlessReordered
<1>1. ASSUME Inv, [Next]_vars
      PROVE  [SameOrder(held, held')
              => LET ops == Diff(held, held')
                 IN  \A i \in DOMAIN ops :
                       ops[i].op = "drop" => IndexOfKey(held', ops[i].key) = 0]_vars
  <2>1. CASE UNCHANGED vars
    BY <2>1
  <2>2. CASE Next
    <3>1. held \in Windows /\ held' \in Windows
      BY <1>1, <2>2 DEF Inv, Next, Reset, Serve
    <3>2. SameOrder(held, held') => Dropless(held', Diff(held, held'))
      BY <3>1, DiffUnmoved
    <3> QED BY <3>2 DEF Dropless
  <2> QED BY <1>1, <2>1, <2>2
<1> QED BY <1>1, Invariance, PTL DEF Spec, NoMoveUnlessReordered

=============================================================================
