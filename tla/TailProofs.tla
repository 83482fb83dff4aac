----------------------------- MODULE TailProofs -----------------------------
(***************************************************************************)
(* What the log's follower hands over, whatever the game does to the file, *)
(* however long the slices are and however many opens and reads fail: the  *)
(* mark law, and that poll timing never decides what comes out.            *)
(***************************************************************************)
EXTENDS Tail, TLAPS, WellFoundedInduction, SequenceTheorems, FiniteSetTheorems

\* Feeding a byte depends on nothing but the reader and the byte.
Feeds(none, acc, byte) == Feed(acc, byte)

F == INSTANCE FoldFacts WITH Op <- Feeds

-----------------------------------------------------------------------------
(* split_lines, one byte more at a time.                                   *)

\* A bounded set of numbers that holds 0 has a greatest one.
LEMMA Greatest ==
  ASSUME NEW n \in Nat, NEW S \in SUBSET (0 .. n), 0 \in S
  PROVE  \E i \in S : \A j \in S : j <= i
<1> DEFINE Below == OpToRel(<, Nat)
           T == {k \in Nat : n - k \in S}
<1>1. \A x, y \in Nat : x < y => <<x, y>> \in Below
  BY DEF OpToRel
<1>2. T \subseteq Nat /\ n \in T
  OBVIOUS
<1>3. PICK k \in T : \A y \in T : ~ (<<y, k>> \in Below)
  <2> HIDE DEF Below, T
  <2>1. IsWellFoundedOn(Below, Nat)
    BY NatLessThanWellFounded DEF Below
  <2> QED BY <1>2, <2>1, WFMin
<1>4. \A j \in S : j <= n - k
  <2> SUFFICES ASSUME NEW j \in S, n - k < j PROVE FALSE
    BY <1>2
  <2>1. n - j \in T /\ n - j < k /\ n - j \in Nat /\ k \in Nat
    OBVIOUS
  <2> HIDE DEF Below, T
  <2> QED BY <1>1, <1>3, <2>1
<1> QED BY <1>4

\* The last line end of a run of bytes, and what follows it.
LEMMA LastEndIsLast ==
  ASSUME NEW bytes \in Seq(Bytes)
  PROVE  /\ LastEnd(bytes) \in 0 .. Len(bytes)
         /\ \A j \in LineEnds(bytes) : j <= LastEnd(bytes)
         /\ LastEnd(bytes) # 0 => LastEnd(bytes) \in LineEnds(bytes)
<1> DEFINE S == {0} \cup LineEnds(bytes)
<1>1. S \in SUBSET (0 .. Len(bytes)) /\ 0 \in S
  <2>1. LineEnds(bytes) \subseteq 1 .. Len(bytes) /\ Len(bytes) \in Nat
    BY DEF LineEnds
  <2> QED BY <2>1
<1>2. PICK i \in S : \A j \in S : j <= i
  <2>1. Len(bytes) \in Nat
    OBVIOUS
  <2> HIDE DEF S
  <2> QED BY <1>1, <2>1, Greatest
<1>3. \E e \in 0 .. Len(bytes) : /\ e # 0 => e \in LineEnds(bytes)
                                 /\ \A j \in LineEnds(bytes) : j <= e
  <2>1. i \in 0 .. Len(bytes) /\ (i # 0 => i \in LineEnds(bytes))
    BY <1>1
  <2>2. \A j \in LineEnds(bytes) : j <= i
    BY <1>2
  <2> QED BY <2>1, <2>2
<1> QED BY <1>3 DEF LastEnd

LEMMA RestIsUnfinished ==
  ASSUME NEW bytes \in Seq(Bytes)
  PROVE  Rest(bytes) \in Seq(Bytes) /\ Len(Rest(bytes)) <= Len(bytes) /\ LineEnds(Rest(bytes)) = {}
<1> DEFINE e == LastEnd(bytes)
<1>1. e \in 0 .. Len(bytes) /\ \A j \in LineEnds(bytes) : j <= e
  BY LastEndIsLast
<1>2. /\ Rest(bytes) \in Seq(Bytes)
      /\ Len(Rest(bytes)) = Len(bytes) - e
      /\ \A i \in 1 .. Len(bytes) - e : Rest(bytes)[i] = bytes[e + i]
  <2> HIDE DEF e
  <2>1. SubSeq(bytes, e + 1, Len(bytes)) \in Seq(Bytes)
    BY <1>1
  <2>2. Len(SubSeq(bytes, e + 1, Len(bytes))) = Len(bytes) - e
    BY <1>1
  <2>3. \A i \in 1 .. Len(bytes) - e : SubSeq(bytes, e + 1, Len(bytes))[i] = bytes[e + i]
    BY <1>1
  <2> QED BY <2>1, <2>2, <2>3 DEF Rest, e
<1>3. LineEnds(Rest(bytes)) = {}
  <2> SUFFICES ASSUME NEW i \in LineEnds(Rest(bytes)) PROVE FALSE
    OBVIOUS
  <2> HIDE DEF e
  <2>1. i \in 1 .. Len(bytes) - e /\ Rest(bytes)[i].kind = "nl"
    BY <1>2 DEF LineEnds
  <2>2. e + i \in LineEnds(bytes)
    BY <1>1, <1>2, <2>1 DEF LineEnds
  <2> QED BY <1>1, <2>1, <2>2
<1> QED BY <1>1, <1>2, <1>3

\* One byte more.
LEMMA OneMore ==
  ASSUME NEW b \in Seq(Bytes), NEW x \in Bytes
  PROVE  /\ Append(b, x) \in Seq(Bytes) /\ Len(b) \in Nat
         /\ Len(Append(b, x)) = Len(b) + 1
         /\ Append(b, x)[Len(b) + 1] = x
         /\ \A i \in 1 .. Len(b) : Append(b, x)[i] = b[i]
         /\ \A k \in 0 .. Len(b) : SubSeq(Append(b, x), 1, k) = SubSeq(b, 1, k)
         /\ SubSeq(b, 1, Len(b)) = b
<1>1. /\ Append(b, x) \in Seq(Bytes) /\ Len(b) \in Nat
      /\ Len(Append(b, x)) = Len(b) + 1
      /\ Append(b, x)[Len(b) + 1] = x
      /\ \A i \in 1 .. Len(b) : Append(b, x)[i] = b[i]
  OBVIOUS
<1> DEFINE longer == Append(b, x)
<1>2. ASSUME NEW k \in 0 .. Len(b) PROVE SubSeq(longer, 1, k) = SubSeq(b, 1, k)
  <2>1. \A i \in 1 .. k : longer[i] \in Bytes /\ longer[i] = b[i] /\ b[i] \in Bytes
    BY <1>1
  <2> HIDE DEF longer
  <2>2. /\ SubSeq(longer, 1, k) \in Seq(Bytes) /\ Len(SubSeq(longer, 1, k)) = k
        /\ \A i \in 1 .. k : SubSeq(longer, 1, k)[i] = longer[i]
    BY <1>1, <2>1 DEF longer
  <2>3. /\ SubSeq(b, 1, k) \in Seq(Bytes) /\ Len(SubSeq(b, 1, k)) = k
        /\ \A i \in 1 .. k : SubSeq(b, 1, k)[i] = b[i]
    BY <1>1, <2>1
  <2> QED BY <2>1, <2>2, <2>3, SeqEqual
<1>3. SubSeq(b, 1, Len(b)) = b
  OBVIOUS
<1> QED BY <1>1, <1>2, <1>3

LEMMA LineEndsOneMore ==
  ASSUME NEW b \in Seq(Bytes), NEW x \in Bytes
  PROVE  LineEnds(Append(b, x)) =
           IF x.kind = "nl" THEN LineEnds(b) \cup {Len(b) + 1} ELSE LineEnds(b)
<1> DEFINE longer == Append(b, x)
           n == Len(b)
<1>1. /\ n \in Nat /\ DOMAIN longer = 1 .. n + 1 /\ DOMAIN b = 1 .. n
      /\ longer[n + 1] = x /\ \A i \in 1 .. n : longer[i] = b[i]
  BY OneMore
<1> HIDE DEF longer, n
<1>2. \A i : i \in 1 .. n + 1 <=> i \in 1 .. n \/ i = n + 1
  BY <1>1
<1>3. \A i : i \in LineEnds(longer) <=>
               \/ i \in LineEnds(b)
               \/ i = n + 1 /\ x.kind = "nl"
  BY <1>1, <1>2 DEF LineEnds
<1> QED BY <1>3 DEF longer, n

LEMMA LastEndIs ==
  ASSUME NEW b \in Seq(Bytes), NEW e \in 0 .. Len(b),
         e # 0 => e \in LineEnds(b), \A j \in LineEnds(b) : j <= e
  PROVE  LastEnd(b) = e
<1>1. \A i, j \in 0 .. Len(b) : i <= j /\ j <= i => i = j
  OBVIOUS
<1>2. \A i \in 0 .. Len(b) :
        (i # 0 => i \in LineEnds(b)) /\ (\A j \in LineEnds(b) : j <= i) => i = e
  BY <1>1
<1> QED BY <1>2 DEF LastEnd

LEMMA LastEndOneMore ==
  ASSUME NEW b \in Seq(Bytes), NEW x \in Bytes
  PROVE  LastEnd(Append(b, x)) = IF x.kind = "nl" THEN Len(b) + 1 ELSE LastEnd(b)
<1>1. /\ Append(b, x) \in Seq(Bytes) /\ Len(b) \in Nat /\ Len(Append(b, x)) = Len(b) + 1
  BY OneMore
<1>2. /\ LastEnd(b) \in 0 .. Len(b) /\ \A j \in LineEnds(b) : j <= LastEnd(b)
      /\ LastEnd(b) # 0 => LastEnd(b) \in LineEnds(b)
  BY LastEndIsLast
<1>3. LineEnds(b) \subseteq 1 .. Len(b)
  BY DEF LineEnds
<1>4. CASE x.kind = "nl"
  <2>1. LineEnds(Append(b, x)) = LineEnds(b) \cup {Len(b) + 1}
    BY <1>4, LineEndsOneMore
  <2>2. /\ Len(b) + 1 \in 0 .. Len(Append(b, x))
        /\ \A j \in LineEnds(b) \cup {Len(b) + 1} : j <= Len(b) + 1
    BY <1>1, <1>3
  <2> QED BY <1>1, <1>4, <2>1, <2>2, LastEndIs
<1>5. CASE x.kind # "nl"
  <2>1. LineEnds(Append(b, x)) = LineEnds(b)
    BY <1>5, LineEndsOneMore
  <2>2. LastEnd(b) \in 0 .. Len(Append(b, x))
    BY <1>1, <1>2
  <2> QED BY <1>1, <1>2, <1>5, <2>1, <2>2, LastEndIs
<1> QED BY <1>4, <1>5

LEMMA RestOneMore ==
  ASSUME NEW b \in Seq(Bytes), NEW x \in Bytes
  PROVE  Rest(Append(b, x)) = IF x.kind = "nl" THEN <<>> ELSE Append(Rest(b), x)
<1> DEFINE e == LastEnd(b)
           n == Len(b)
           longer == Append(b, x)
<1>1. /\ longer \in Seq(Bytes) /\ n \in Nat /\ Len(longer) = n + 1 /\ e \in 0 .. n
      /\ longer[n + 1] = x /\ \A i \in 1 .. n : longer[i] = b[i]
  BY OneMore, LastEndIsLast
<1>2. CASE x.kind = "nl"
  <2>1. Rest(longer) = SubSeq(longer, (n + 1) + 1, n + 1)
    BY <1>1, <1>2, LastEndOneMore DEF Rest
  <2> HIDE DEF longer, n
  <2>2. SubSeq(longer, (n + 1) + 1, n + 1) = <<>>
    BY <1>1
  <2> QED BY <1>2, <2>1, <2>2 DEF longer
<1>3. CASE x.kind # "nl"
  <2>1. Rest(longer) = SubSeq(longer, e + 1, n + 1)
    BY <1>1, <1>3, LastEndOneMore DEF Rest
  <2>2. Rest(b) = SubSeq(b, e + 1, n)
    BY DEF Rest
  <2> HIDE DEF longer, n, e
  <2>3. /\ SubSeq(longer, e + 1, n + 1) \in Seq(Bytes)
        /\ Len(SubSeq(longer, e + 1, n + 1)) = (n + 1) - e
        /\ \A i \in 1 .. (n + 1) - e : SubSeq(longer, e + 1, n + 1)[i] = longer[e + i]
    BY <1>1
  <2>4. /\ SubSeq(b, e + 1, n) \in Seq(Bytes)
        /\ Len(SubSeq(b, e + 1, n)) = n - e
        /\ \A i \in 1 .. n - e : SubSeq(b, e + 1, n)[i] = b[e + i]
    BY <1>1 DEF n
  <2> DEFINE u == SubSeq(longer, e + 1, n + 1)
             v == SubSeq(b, e + 1, n)
  <2> HIDE DEF u, v
  <2>5. /\ Append(v, x) \in Seq(Bytes) /\ Len(Append(v, x)) = (n - e) + 1
        /\ Append(v, x)[(n - e) + 1] = x
        /\ \A i \in 1 .. n - e : Append(v, x)[i] = v[i]
    BY <2>4 DEF v
  <2>6. \A i \in 1 .. (n + 1) - e : u[i] = Append(v, x)[i]
    <3> SUFFICES ASSUME NEW i \in 1 .. (n + 1) - e PROVE u[i] = Append(v, x)[i]
      OBVIOUS
    <3>1. u[i] = longer[e + i]
      BY <2>3 DEF u
    <3>2. CASE i = (n - e) + 1
      <4>1. e + i = n + 1
        BY <1>1, <3>2
      <4> QED BY <1>1, <2>5, <3>1, <3>2, <4>1
    <3>3. CASE i # (n - e) + 1
      <4>1. i \in 1 .. n - e /\ e + i \in 1 .. n
        BY <1>1, <3>3
      <4> QED BY <1>1, <2>4, <2>5, <3>1, <4>1 DEF v
    <3> QED BY <3>2, <3>3
  <2>7. u \in Seq(Bytes) /\ Len(u) = (n - e) + 1 /\ (n - e) + 1 = (n + 1) - e
    BY <1>1, <2>3 DEF u
  <2>8. u = Append(v, x)
    BY <2>5, <2>6, <2>7, SeqEqual
  <2> QED BY <1>3, <2>1, <2>2, <2>8 DEF u, v, longer
<1> QED BY <1>2, <1>3

LEMMA TrimKeepsType ==
  ASSUME NEW line \in Seq(Bytes)
  PROVE  Trim(line) \in Seq(Bytes)
<1>1. line # <<>> => Front(line) \in Seq(Bytes)
  BY DEF Front
<1> QED BY <1>1 DEF Trim

LEMMA NoBytes == /\ <<>> \in Seq(Bytes) /\ LineEnds(<<>>) = {} /\ Rest(<<>>) = <<>>
<1>1. <<>> \in Seq(Bytes) /\ LineEnds(<<>>) = {}
  BY DEF LineEnds
<1>2. Len(Rest(<<>>)) <= 0 /\ Rest(<<>>) \in Seq(Bytes)
  BY <1>1, RestIsUnfinished
<1> QED BY <1>1, <1>2

\* A greatest number more, and the others keep their rank.
LEMMA RankOneMore ==
  ASSUME NEW n \in Nat, NEW S \in SUBSET (1 .. n)
  PROVE  LET T == S \cup {n + 1}
         IN  /\ Cardinality(S) \in Nat
             /\ Cardinality(T) = Cardinality(S) + 1
             /\ \A k \in 1 .. Cardinality(S) : Nth(T, k) = Nth(S, k)
             /\ Nth(T, Cardinality(S) + 1) = n + 1
<1> DEFINE T == S \cup {n + 1}
           At(R, k) == {d \in R : Cardinality({c \in R : c <= d}) = k}
           m == Cardinality(S)
<1>1. IsFiniteSet(S) /\ m \in Nat
  <2>1. IsFiniteSet(1 .. n)
    BY FS_Interval
  <2> QED BY <2>1, FS_Subset, FS_CardinalityType
<1>2. IsFiniteSet(T) /\ Cardinality(T) = m + 1
  <2>1. n + 1 \notin S
    OBVIOUS
  <2> QED BY <1>1, <2>1, FS_AddElement
<1>3. ASSUME NEW d \in S
      PROVE  /\ {c \in T : c <= d} = {c \in S : c <= d}
             /\ Cardinality({c \in S : c <= d}) \in Nat
             /\ Cardinality({c \in S : c <= d}) <= m
  <2>1. {c \in T : c <= d} = {c \in S : c <= d}
    <3>1. d \in 1 .. n /\ ~ (n + 1 <= d)
      OBVIOUS
    <3> QED BY <3>1
  <2>2. {c \in S : c <= d} \in SUBSET S
    OBVIOUS
  <2>3. IsFiniteSet({c \in S : c <= d}) /\ Cardinality({c \in S : c <= d}) <= m
    BY <1>1, <2>2, FS_Subset
  <2> QED BY <2>1, <2>3, FS_CardinalityType
<1>4. {c \in T : c <= n + 1} = T
  <2>1. \A c \in T : c <= n + 1
    OBVIOUS
  <2> QED BY <2>1
<1> HIDE DEF T, m
<1>5. \A d : d \in T <=> d \in S \/ d = n + 1
  BY DEF T
<1>6. ASSUME NEW k \in 1 .. m PROVE At(T, k) = At(S, k)
  <2>1. Cardinality({c \in T : c <= n + 1}) # k
    BY <1>1, <1>2, <1>4
  <2>2. \A d : d \in At(T, k) <=> d \in At(S, k)
    BY <1>3, <1>5, <2>1
  <2> QED BY <2>2
<1>7. At(T, m + 1) = {n + 1}
  <2>1. \A d \in S : Cardinality({c \in T : c <= d}) # m + 1
    <3>1. \A i \in Nat : i <= m => i # m + 1
      BY <1>1
    <3> QED BY <1>3, <3>1
  <2>2. \A d : d \in At(T, m + 1) <=> d = n + 1
    BY <1>2, <1>4, <1>5, <2>1
  <2> QED BY <2>2
<1>8. \A R, k : Nth(R, k) = CHOOSE e \in At(R, k) : TRUE
  BY DEF Nth
<1>9. \A k \in 1 .. m : Nth(T, k) = Nth(S, k)
  BY <1>6, <1>8
<1>10. Nth(T, m + 1) = n + 1
  <2>1. (CHOOSE e \in {n + 1} : TRUE) = n + 1
    OBVIOUS
  <2> QED BY <1>7, <1>8, <2>1
<1> QED BY <1>1, <1>2, <1>9, <1>10 DEF T, m

\* A set of m numbers has a k-th one for every k up to m.
LEMMA RankIn == \A n \in Nat : \A S \in SUBSET (1 .. n) :
                  \A k \in 1 .. Cardinality(S) : Nth(S, k) \in S
<1> DEFINE P(n) == \A S \in SUBSET (1 .. n) : \A k \in 1 .. Cardinality(S) : Nth(S, k) \in S
           N == {n \in Nat : P(n)}
<1>1. 0 \in N
  <2>1. \A S \in SUBSET (1 .. 0) : S = {}
    OBVIOUS
  <2>2. Cardinality({}) = 0
    BY FS_EmptySet
  <2>3. 1 .. 0 = {}
    OBVIOUS
  <2> QED BY <2>1, <2>2, <2>3
<1>2. ASSUME NEW n \in Nat, n \in N PROVE n + 1 \in N
  <2> SUFFICES ASSUME NEW S \in SUBSET (1 .. n + 1), NEW k \in 1 .. Cardinality(S)
               PROVE  Nth(S, k) \in S
    OBVIOUS
  <2>1. CASE n + 1 \notin S
    <3>1. \A i \in 1 .. n + 1 : i # n + 1 => i \in 1 .. n
      OBVIOUS
    <3>2. S \in SUBSET (1 .. n)
      BY <2>1, <3>1
    <3> QED BY <1>2, <3>2
  <2>2. CASE n + 1 \in S
    <3> DEFINE R == S \ {n + 1}
    <3>1. \A i \in 1 .. n + 1 : i # n + 1 => i \in 1 .. n
      OBVIOUS
    <3>2. R \in SUBSET (1 .. n) /\ R \cup {n + 1} = S
      BY <2>2, <3>1
    <3> HIDE DEF R
    <3>3. /\ Cardinality(R) \in Nat /\ Cardinality(S) = Cardinality(R) + 1
          /\ \A i \in 1 .. Cardinality(R) : Nth(S, i) = Nth(R, i)
          /\ Nth(S, Cardinality(R) + 1) = n + 1
      BY <3>2, RankOneMore
    <3>4. \A i \in 1 .. Cardinality(R) : Nth(R, i) \in R
      BY <1>2, <3>2
    <3>5. k \in 1 .. Cardinality(R) \/ k = Cardinality(R) + 1
      BY <3>3
    <3> QED BY <2>2, <3>2, <3>3, <3>4, <3>5
  <2> QED BY <2>1, <2>2
<1> HIDE DEF N
<1>3. Nat \subseteq N
  BY <1>1, <1>2, F!Induction
<1> QED BY <1>3 DEF N

\* The ends of the lines that are not empty.
Full(bytes) == {e \in LineEnds(bytes) : LineTo(bytes, e) # <<>>}

LEMMA SplitIs ==
  ASSUME NEW bytes
  PROVE  SplitLines(bytes) =
           [k \in 1 .. Cardinality(Full(bytes)) |-> LineTo(bytes, Nth(Full(bytes), k))]
BY DEF SplitLines, Full

\* One byte more, in split_lines.
LEMMA SplitOneMore ==
  ASSUME NEW b \in Seq(Bytes), NEW x \in Bytes, SplitLines(b) \in Seq(Seq(Bytes))
  PROVE  SplitLines(Append(b, x)) =
           IF x.kind # "nl" \/ Trim(Rest(b)) = <<>> THEN SplitLines(b)
           ELSE Append(SplitLines(b), Trim(Rest(b)))
<1> DEFINE n == Len(b)
           longer == Append(b, x)
           S == Full(b)
           m == Cardinality(S)
           last == Trim(Rest(b))
<1>1. longer \in Seq(Bytes) /\ n \in Nat
  BY OneMore
<1>2. S \in SUBSET (1 .. n)
  BY DEF Full, LineEnds
<1>3. ASSUME NEW e \in 1 .. n PROVE LineTo(longer, e) = LineTo(b, e)
  <2>1. e - 1 \in 0 .. n
    OBVIOUS
  <2>2. SubSeq(longer, 1, e - 1) = SubSeq(b, 1, e - 1)
    BY <2>1, OneMore
  <2> HIDE DEF longer
  <2> QED BY <2>2 DEF LineTo
<1>4. LineTo(longer, n + 1) = last
  <2>1. (n + 1) - 1 = n /\ n \in 0 .. n
    BY <1>1
  <2>2. SubSeq(longer, 1, n) = b
    BY <2>1, OneMore
  <2> HIDE DEF longer, n
  <2> QED BY <2>1, <2>2 DEF LineTo
<1>5. m \in Nat /\ DOMAIN SplitLines(b) = 1 .. m /\ Len(SplitLines(b)) = m
  <2>1. IsFiniteSet(S)
    <3>1. IsFiniteSet(1 .. n)
      BY <1>1, FS_Interval
    <3> HIDE DEF S
    <3> QED BY <1>2, <3>1, FS_Subset
  <2>2. m \in Nat
    BY <2>1, FS_CardinalityType
  <2>3. DOMAIN SplitLines(b) = 1 .. m
    BY SplitIs
  <2> HIDE DEF m
  <2> QED BY <2>2, <2>3
<1>6. \A k \in 1 .. m : SplitLines(b)[k] = LineTo(b, Nth(S, k))
  BY SplitIs
<1>7. ASSUME Full(longer) = S PROVE SplitLines(longer) = SplitLines(b)
  <2>1. ASSUME NEW k \in 1 .. m PROVE LineTo(longer, Nth(S, k)) = LineTo(b, Nth(S, k))
    <3>1. Nth(S, k) \in S
      BY <1>1, <1>2, RankIn
    <3> QED BY <1>2, <1>3, <3>1
  <2>2. SplitLines(longer) = [k \in 1 .. m |-> LineTo(longer, Nth(S, k))]
    BY <1>7, SplitIs
  <2>3. SplitLines(b) = [k \in 1 .. m |-> LineTo(b, Nth(S, k))]
    BY SplitIs
  <2> HIDE DEF longer, m, S
  <2> QED BY <2>1, <2>2, <2>3
<1>8. \A e \in LineEnds(b) : e \in 1 .. n
  BY DEF LineEnds
<1>9. CASE x.kind # "nl" \/ last = <<>>
  <2>1. Full(longer) = S
    <3>1. \A e : e \in LineEnds(longer) => e \in LineEnds(b) \/ (e = n + 1 /\ x.kind = "nl")
      BY LineEndsOneMore
    <3>2. \A e : e \in LineEnds(b) => e \in LineEnds(longer)
      BY LineEndsOneMore
    <3> HIDE DEF longer, n, last
    <3>3. \A e : e \in Full(longer) <=> e \in Full(b)
      BY <1>3, <1>4, <1>8, <1>9, <3>1, <3>2 DEF Full
    <3> QED BY <3>3
  <2> QED BY <1>7, <1>9, <2>1
<1>10. CASE x.kind = "nl" /\ last # <<>>
  <2>1. Full(longer) = S \cup {n + 1}
    <3>1. LineEnds(longer) = LineEnds(b) \cup {n + 1}
      BY <1>10, LineEndsOneMore
    <3> HIDE DEF longer, n, last
    <3>2. \A e : e \in Full(longer) <=> e \in Full(b) \/ e = n + 1
      BY <1>3, <1>4, <1>8, <1>10, <3>1 DEF Full
    <3> QED BY <3>2
  <2> DEFINE T == S \cup {n + 1}
             after == Append(SplitLines(b), last)
  <2>2. /\ Cardinality(T) = m + 1
        /\ \A k \in 1 .. m : Nth(T, k) = Nth(S, k)
        /\ Nth(T, m + 1) = n + 1
    BY <1>1, <1>2, RankOneMore
  <2>3. SplitLines(longer) = [k \in 1 .. m + 1 |-> LineTo(longer, Nth(T, k))]
    BY <2>1, <2>2, SplitIs
  <2>4. last \in Seq(Bytes)
    BY RestIsUnfinished, TrimKeepsType
  <2>5. /\ after = [k \in 1 .. m + 1 |-> after[k]]
        /\ after[m + 1] = last
        /\ \A k \in 1 .. m : after[k] = SplitLines(b)[k]
    <3> HIDE DEF m, last
    <3> DEFINE lines0 == SplitLines(b)
    <3> HIDE DEF lines0
    <3>1. lines0 \in Seq(Seq(Bytes)) /\ Len(lines0) = m
      BY <1>5 DEF lines0
    <3> DEFINE longer0 == Append(lines0, last)
    <3>2. /\ Len(longer0) = m + 1 /\ longer0 \in Seq(Seq(Bytes))
          /\ longer0[m + 1] = last /\ \A k \in 1 .. m : longer0[k] = lines0[k]
      BY <1>5, <2>4, <3>1
    <3>3. longer0 = after
      BY DEF lines0
    <3> HIDE DEF longer0, after
    <3>4. longer0 = [k \in 1 .. m + 1 |-> longer0[k]]
      BY <3>2
    <3> QED BY <3>2, <3>3, <3>4 DEF lines0
  <2>6. ASSUME NEW k \in 1 .. m + 1 PROVE LineTo(longer, Nth(T, k)) = after[k]
    <3>1. CASE k = m + 1
      BY <1>4, <2>2, <2>5, <3>1
    <3>2. CASE k # m + 1
      <4>1. k \in 1 .. m
        BY <1>5, <3>2
      <4>2. Nth(S, k) \in S
        BY <1>1, <1>2, <4>1, RankIn
      <4>3. LineTo(longer, Nth(S, k)) = LineTo(b, Nth(S, k))
        BY <1>2, <1>3, <4>2
      <4>4. after[k] = LineTo(b, Nth(S, k)) /\ Nth(T, k) = Nth(S, k)
        BY <1>6, <2>2, <2>5, <4>1
      <4> QED BY <4>3, <4>4
    <3> QED BY <3>1, <3>2
  <2> HIDE DEF after, m, T, longer, last
  <2>7. SplitLines(longer) = after
    BY <2>3, <2>5, <2>6
  <2> QED BY <1>10, <2>7 DEF after, last, longer
<1> QED BY <1>9, <1>10

\* A sequence that is not empty is all but its last element and that element.
LEMMA ButLast ==
  ASSUME NEW S, NEW s \in Seq(S), NEW n \in Nat, Len(s) = n + 1
  PROVE  \E d \in Seq(S), x \in S : s = Append(d, x) /\ Len(d) = n
<1> DEFINE d == SubSeq(s, 1, n)
<1>1. d \in Seq(S) /\ Len(d) = n /\ \A i \in 1 .. n : d[i] = s[i]
  OBVIOUS
<1>2. s[n + 1] \in S
  OBVIOUS
<1> HIDE DEF d
<1>3. /\ Append(d, s[n + 1]) \in Seq(S) /\ Len(Append(d, s[n + 1])) = n + 1
      /\ \A i \in 1 .. n + 1 : Append(d, s[n + 1])[i] = s[i]
  BY <1>1, <1>2
<1>4. s = Append(d, s[n + 1])
  BY <1>3, SeqEqual
<1> QED BY <1>1, <1>2, <1>4

LEMMA AppendConcat ==
  ASSUME NEW S, NEW s \in Seq(S), NEW t \in Seq(S), NEW x \in S
  PROVE  s \o t \in Seq(S) /\ s \o Append(t, x) = Append(s \o t, x)
<1>1. s \o t \in Seq(S) /\ Append(t, x) \in Seq(S) /\ Append(s \o t, x) \in Seq(S)
  OBVIOUS
<1>2. Append(t, x) = t \o <<x>> /\ Append(s \o t, x) = (s \o t) \o <<x>>
  OBVIOUS
<1>3. <<x>> \in Seq(S)
  OBVIOUS
<1> QED BY <1>1, <1>2, <1>3, ConcatAssociative

\* Bytes without a line end are all unfinished.
LEMMA NoLineEnds ==
  ASSUME NEW b \in Seq(Bytes), LineEnds(b) = {}
  PROVE  SplitLines(b) = <<>> /\ Rest(b) = b
<1>1. LastEnd(b) = 0
  <2>1. 0 \in 0 .. Len(b)
    OBVIOUS
  <2> QED BY <2>1, LastEndIs
<1>2. Rest(b) = SubSeq(b, 1, Len(b))
  BY <1>1 DEF Rest
<1>3. SubSeq(b, 1, Len(b)) = b
  OBVIOUS
<1>4. Full(b) = {} /\ Cardinality({}) = 0 /\ 1 .. 0 = {}
  BY FS_EmptySet DEF Full
<1>5. SplitLines(b) = <<>>
  <2> DEFINE f == [k \in 1 .. 0 |-> LineTo(b, Nth({}, k))]
  <2>1. SplitLines(b) = f
    BY <1>4, SplitIs
  <2>2. f \in [1 .. 0 -> Bytes]
    BY <1>4
  <2> HIDE DEF f
  <2>3. f \in Seq(Bytes) /\ Len(f) = 0
    BY <2>2
  <2> QED BY <2>1, <2>3
<1> QED BY <1>2, <1>3, <1>5

LEMMA SplitNothing == SplitLines(<<>>) = <<>> /\ SplitLines(<<>>) \in Seq(Seq(Bytes))
<1>1. SplitLines(<<>>) = <<>>
  BY NoBytes, NoLineEnds
<1>2. <<>> \in Seq(Seq(Bytes))
  OBVIOUS
<1> QED BY <1>1, <1>2

LEMMA SplitType ==
  ASSUME NEW bytes \in Seq(Bytes)
  PROVE  SplitLines(bytes) \in Seq(Seq(Bytes))
<1> DEFINE N == {n \in Nat : \A b \in Seq(Bytes) : Len(b) = n => SplitLines(b) \in Seq(Seq(Bytes))}
<1>1. 0 \in N
  <2> SUFFICES ASSUME NEW b \in Seq(Bytes), Len(b) = 0 PROVE SplitLines(b) \in Seq(Seq(Bytes))
    OBVIOUS
  <2>1. b = <<>>
    OBVIOUS
  <2> QED BY <2>1, SplitNothing
<1>2. ASSUME NEW n \in Nat, n \in N PROVE n + 1 \in N
  <2> SUFFICES ASSUME NEW b \in Seq(Bytes), Len(b) = n + 1
               PROVE  SplitLines(b) \in Seq(Seq(Bytes))
    OBVIOUS
  <2>1. PICK d \in Seq(Bytes), x \in Bytes : b = Append(d, x) /\ Len(d) = n
    BY ButLast
  <2>2. SplitLines(d) \in Seq(Seq(Bytes))
    BY <1>2, <2>1
  <2>3. Trim(Rest(d)) \in Seq(Bytes)
    BY RestIsUnfinished, TrimKeepsType
  <2>4. Append(SplitLines(d), Trim(Rest(d))) \in Seq(Seq(Bytes))
    BY <2>2, <2>3
  <2> QED BY <2>1, <2>2, <2>4, SplitOneMore
<1> HIDE DEF N
<1>3. Nat \subseteq N
  BY <1>1, <1>2, F!Induction
<1>4. Len(bytes) \in Nat
  OBVIOUS
<1> QED BY <1>3, <1>4 DEF N

\* The reference reader, one byte at a time.
LEMMA FedIsFold ==
  ASSUME NEW b
  PROVE  Fed(b) = F!Fold(0, [done |-> <<>>, hand |-> <<>>], b)
BY DEF Fed, FoldLeft, MapThenFoldSet, Max, F!Fold, F!Greatest, Feeds

LEMMA FedNothing == Fed(<<>>) = [done |-> <<>>, hand |-> <<>>]
<1>1. F!Fold(0, [done |-> <<>>, hand |-> <<>>], <<>>) = [done |-> <<>>, hand |-> <<>>]
  BY F!FoldEmpty
<1> QED BY <1>1, FedIsFold

LEMMA FedOneMore ==
  ASSUME NEW b \in Seq(Bytes), NEW x \in Bytes
  PROVE  Fed(Append(b, x)) = Feed(Fed(b), x)
<1> DEFINE none == [done |-> <<>>, hand |-> <<>>]
<1> HIDE DEF none
<1>1. F!Fold(0, none, Append(b, x)) = Feed(F!Fold(0, none, b), x)
  BY F!FoldAppend DEF Feeds
<1> QED BY <1>1, FedIsFold DEF none

\* Reading in two pieces, the first one's unfinished line put before the second
\* piece, is reading in one: what Consume relies on.
LEMMA ReadingOn ==
  ASSUME NEW p \in Seq(Bytes), NEW done \in Seq(Seq(Bytes)),
         NEW hand \in Seq(Bytes), LineEnds(hand) = {},
         Fed(p) = [done |-> done, hand |-> hand],
         NEW chunk \in Seq(Bytes)
  PROVE  Fed(p \o chunk) =
           [done |-> done \o SplitLines(hand \o chunk), hand |-> Rest(hand \o chunk)]
<1> DEFINE After(c) == [done |-> done \o SplitLines(hand \o c), hand |-> Rest(hand \o c)]
           N == {n \in Nat : \A c \in Seq(Bytes) : Len(c) = n => Fed(p \o c) = After(c)}
<1>1. 0 \in N
  <2> SUFFICES ASSUME NEW c \in Seq(Bytes), Len(c) = 0 PROVE Fed(p \o c) = After(c)
    OBVIOUS
  <2>1. c = <<>>
    OBVIOUS
  <2>2. p \o c = p /\ hand \o c = hand /\ done \o <<>> = done
    BY <2>1, ConcatEmptySeq
  <2>3. SplitLines(hand) = <<>> /\ Rest(hand) = hand
    BY NoLineEnds
  <2> QED BY <2>2, <2>3
<1>2. ASSUME NEW n \in Nat, n \in N PROVE n + 1 \in N
  <2> SUFFICES ASSUME NEW c \in Seq(Bytes), Len(c) = n + 1 PROVE Fed(p \o c) = After(c)
    OBVIOUS
  <2>1. PICK d \in Seq(Bytes), x \in Bytes : c = Append(d, x) /\ Len(d) = n
    <3>1. c \in Seq(Bytes) /\ n \in Nat /\ Len(c) = n + 1
      OBVIOUS
    <3> QED BY ONLY <3>1, ButLast
  <2> DEFINE b == hand \o d
             q == p \o d
  <2>2. /\ b \in Seq(Bytes) /\ q \in Seq(Bytes)
        /\ hand \o c = Append(b, x) /\ p \o c = Append(q, x)
    <3>1. hand \in Seq(Bytes) /\ p \in Seq(Bytes) /\ d \in Seq(Bytes) /\ x \in Bytes
      OBVIOUS
    <3>2. hand \o d \in Seq(Bytes) /\ hand \o Append(d, x) = Append(hand \o d, x)
      BY ONLY <3>1, AppendConcat
    <3>3. p \o d \in Seq(Bytes) /\ p \o Append(d, x) = Append(p \o d, x)
      BY ONLY <3>1, AppendConcat
    <3> QED BY ONLY <2>1, <3>2, <3>3
  <2>3. Fed(q) = [done |-> done \o SplitLines(b), hand |-> Rest(b)]
    BY <1>2, <2>1
  <2> HIDE DEF b, q, N
  <2>4. Fed(p \o c) = Feed([done |-> done \o SplitLines(b), hand |-> Rest(b)], x)
    BY <2>2, <2>3, FedOneMore
  <2>5. SplitLines(b) \in Seq(Seq(Bytes)) /\ Rest(b) \in Seq(Bytes)
    BY <2>2, SplitType, RestIsUnfinished
  <2>6. Rest(hand \o c) = IF x.kind = "nl" THEN <<>> ELSE Append(Rest(b), x)
    BY <2>2, RestOneMore
  <2>7. SplitLines(hand \o c) =
          IF x.kind # "nl" \/ Trim(Rest(b)) = <<>> THEN SplitLines(b)
          ELSE Append(SplitLines(b), Trim(Rest(b)))
    BY <2>2, <2>5, SplitOneMore
  <2>8. Trim(Rest(b)) \in Seq(Bytes)
    BY <2>5, TrimKeepsType
  <2>9. done \o Append(SplitLines(b), Trim(Rest(b))) = Append(done \o SplitLines(b), Trim(Rest(b)))
    <3> DEFINE t == SplitLines(b)
               y == Trim(Rest(b))
               L == Seq(Bytes)
    <3>1. t \in Seq(L) /\ y \in L /\ done \in Seq(L)
      BY <2>5, <2>8
    <3> HIDE DEF t, y, L
    <3>2. done \o Append(t, y) = Append(done \o t, y)
      BY <3>1, AppendConcat
    <3> QED BY <3>2 DEF t, y
  <2> QED BY <2>4, <2>6, <2>7, <2>9 DEF Feed
<1> HIDE DEF N
<1>3. Nat \subseteq N
  BY <1>1, <1>2, F!Induction
<1>4. Len(chunk) \in Nat
  OBVIOUS
<1>5. Fed(p \o chunk) = After(chunk)
  BY <1>3, <1>4 DEF N
<1> QED BY <1>5

\* The handoff: the scan's lines are those of the bytes up to the last line end.
LEMMA ScanSplits ==
  ASSUME NEW b \in Seq(Bytes)
  PROVE  Fed(SubSeq(b, 1, LastEnd(b))) = [done |-> SplitLines(b), hand |-> <<>>]
<1> DEFINE e == LastEnd(b)
           p == SubSeq(b, 1, e)
<1>1. /\ e \in 0 .. Len(b) /\ (\A j \in LineEnds(b) : j <= e)
      /\ e # 0 => e \in LineEnds(b)
  BY LastEndIsLast
<1>2. /\ p \in Seq(Bytes) /\ Len(p) = e /\ \A i \in 1 .. e : p[i] = b[i]
  <2> HIDE DEF e
  <2> QED BY <1>1
<1>3. LineEnds(p) = LineEnds(b)
  <2>1. LineEnds(b) \subseteq 1 .. e
    BY <1>1 DEF LineEnds
  <2>2. DOMAIN p = 1 .. e /\ 1 .. e \subseteq DOMAIN b
    BY <1>1, <1>2
  <2> HIDE DEF p, e
  <2>3. \A i : i \in LineEnds(p) <=> i \in LineEnds(b)
    BY <1>2, <2>1, <2>2 DEF LineEnds
  <2> QED BY <2>3
<1>4. Rest(p) = <<>>
  <2> HIDE DEF p, e
  <2>1. LastEnd(p) = e
    BY <1>1, <1>2, <1>3, LastEndIs
  <2>2. Rest(p) = SubSeq(p, e + 1, e)
    BY <1>2, <2>1 DEF Rest
  <2> QED BY <1>1, <2>2
<1>5. SplitLines(p) = SplitLines(b)
  <2>1. ASSUME NEW i \in LineEnds(b) PROVE LineTo(p, i) = LineTo(b, i)
    <3>1. i \in 1 .. e
      BY <1>1 DEF LineEnds
    <3> DEFINE u == SubSeq(p, 1, i - 1)
               v == SubSeq(b, 1, i - 1)
    <3> HIDE DEF e, p
    <3>2. u \in Seq(Bytes) /\ Len(u) = i - 1 /\ \A j \in 1 .. i - 1 : u[j] = p[j]
      BY <1>1, <1>2, <3>1
    <3>3. v \in Seq(Bytes) /\ Len(v) = i - 1 /\ \A j \in 1 .. i - 1 : v[j] = b[j]
      BY <1>1, <3>1
    <3>4. \A j \in 1 .. i - 1 : p[j] = b[j]
      BY <1>1, <1>2, <3>1
    <3> HIDE DEF u, v
    <3>5. u = v
      BY <3>2, <3>3, <3>4, SeqEqual
    <3> QED BY <3>5 DEF LineTo, u, v
  <2> HIDE DEF p
  <2>2. Full(p) = Full(b)
    BY <1>3, <2>1 DEF Full
  <2>3. ASSUME NEW k \in 1 .. Cardinality(Full(b))
        PROVE  LineTo(p, Nth(Full(b), k)) = LineTo(b, Nth(Full(b), k))
    <3>1. Full(b) \in SUBSET (1 .. Len(b)) /\ Len(b) \in Nat
      BY DEF Full, LineEnds
    <3>2. Nth(Full(b), k) \in Full(b)
      BY <3>1, RankIn
    <3> QED BY <2>1, <3>2 DEF Full
  <2> QED BY <2>2, <2>3, SplitIs
<1>6. p = <<>> \o p /\ SplitLines(p) = <<>> \o SplitLines(p)
  BY <1>2, SplitType, ConcatEmptySeq
<1>7. Fed(<<>> \o p) = [done |-> <<>> \o SplitLines(<<>> \o p), hand |-> Rest(<<>> \o p)]
  <2> HIDE DEF p
  <2>1. <<>> \in Seq(Seq(Bytes))
    OBVIOUS
  <2> QED BY <1>2, <2>1, NoBytes, FedNothing, ReadingOn
<1> HIDE DEF p
<1> QED BY <1>4, <1>5, <1>6, <1>7 DEF p

\* split_lines hands over, of any bytes, the lines a reader of one byte at a time
\* would, and keeps the same unfinished one.
THEOREM SplitIsTheReference ==
  ASSUME NEW bytes \in Seq(Bytes)
  PROVE  Fed(bytes) = [done |-> SplitLines(bytes), hand |-> Rest(bytes)]
<1>1. SplitLines(bytes) \in Seq(Seq(Bytes)) /\ <<>> \in Seq(Seq(Bytes))
  BY SplitType
<1>2. Fed(<<>> \o bytes) =
        [done |-> <<>> \o SplitLines(<<>> \o bytes), hand |-> Rest(<<>> \o bytes)]
  BY ONLY <1>1, bytes \in Seq(Bytes), NoBytes, FedNothing, ReadingOn
<1>3. <<>> \o bytes = bytes /\ <<>> \o SplitLines(bytes) = SplitLines(bytes)
  BY <1>1, ConcatEmptySeq
<1> QED BY <1>2, <1>3

-----------------------------------------------------------------------------
(* The types.  What a read brings. *)

\* How far one turn of read_slices goes, and what it brings.
UpTo == LET ends == {offset + SliceBytes, size, Len(content[fh])}
        IN  CHOOSE e \in ends : \A d \in ends : e <= d

Slice == SubSeq(content[fh], offset + 1, UpTo)

LEMMA Least ==
  ASSUME NEW a \in Nat, NEW b \in Nat, NEW c \in Nat
  PROVE  \E x \in {a, b, c} : \A d \in {a, b, c} : x <= d
OBVIOUS

LEMMA UpToIs ==
  ASSUME content[fh] \in Seq(Bytes), offset \in Nat, size \in Nat
  PROVE  UpTo \in Nat /\ UpTo <= Len(content[fh])
<1> USE TailAssumption
<1> DEFINE a == offset + SliceBytes
           c == Len(content[fh])
<1>1. a \in Nat /\ size \in Nat /\ c \in Nat
  OBVIOUS
<1>2. UpTo = CHOOSE x \in {a, size, c} : \A d \in {a, size, c} : x <= d
  BY DEF UpTo
<1> HIDE DEF a, c
<1>3. \E x \in {a, size, c} : \A d \in {a, size, c} : x <= d
  BY <1>1, Least
<1>4. UpTo \in {a, size, c} /\ \A d \in {a, size, c} : UpTo <= d
  BY <1>2, <1>3
<1> QED BY <1>1, <1>4 DEF c

LEMMA Piece ==
  ASSUME NEW c \in Seq(Bytes), NEW o \in Nat, NEW u \in Nat, u <= Len(c)
  PROVE  LET k == SubSeq(c, o + 1, u)
         IN  /\ k \in Seq(Bytes)
             /\ o > Len(c) => k = <<>>
             /\ o <= Len(c) => /\ o + Len(k) \in 0 .. Len(c)
                               /\ SubSeq(c, 1, o) \o k = SubSeq(c, 1, o + Len(k))
<1> DEFINE k == SubSeq(c, o + 1, u)
<1>0. Len(c) \in Nat /\ \A i \in 1 .. Len(c) : c[i] \in Bytes
  OBVIOUS
<1>1. CASE u <= o
  <2>1. k = <<>>
    BY <1>1, SubSeqEmpty
  <2>2. o <= Len(c) => SubSeq(c, 1, o) \in Seq(Bytes)
    BY <1>0
  <2>3. o <= Len(c) => SubSeq(c, 1, o) \o <<>> = SubSeq(c, 1, o)
    BY <2>2, ConcatEmptySeq
  <2>4. Len(<<>>) = 0 /\ <<>> \in Seq(Bytes) /\ o + 0 = o
    OBVIOUS
  <2> HIDE DEF k
  <2> QED BY <1>0, <2>1, <2>3, <2>4 DEF k
<1>2. CASE o < u
  <2>1. /\ k \in Seq(Bytes) /\ Len(k) = u - o
        /\ \A i \in 1 .. u - o : k[i] = c[o + i]
    BY <1>0, <1>2
  <2> DEFINE p == SubSeq(c, 1, o)
             q == SubSeq(c, 1, u)
  <2>2. p \in Seq(Bytes) /\ Len(p) = o /\ \A i \in 1 .. o : p[i] = c[i]
    BY <1>0, <1>2
  <2>3. q \in Seq(Bytes) /\ Len(q) = u /\ \A i \in 1 .. u : q[i] = c[i]
    BY <1>0, <1>2
  <2> HIDE DEF k, p, q
  <2>4. /\ p \o k \in Seq(Bytes) /\ Len(p \o k) = o + (u - o)
        /\ \A i \in 1 .. o + (u - o) : (p \o k)[i] = IF i <= o THEN p[i] ELSE k[i - o]
    <3>1. /\ p \o k \in Seq(Bytes) /\ Len(p \o k) = Len(p) + Len(k)
          /\ \A i \in 1 .. Len(p) + Len(k) :
               (p \o k)[i] = IF i <= Len(p) THEN p[i] ELSE k[i - Len(p)]
      <4>1. p \in Seq(Bytes) /\ k \in Seq(Bytes)
        BY <2>1, <2>2
      <4> QED BY ONLY <4>1, ConcatProperties
    <3> QED BY <2>1, <2>2, <3>1
  <2>5. o + (u - o) = u
    OBVIOUS
  <2>6. ASSUME NEW i \in 1 .. u PROVE (p \o k)[i] = q[i]
    <3>1. CASE i <= o
      BY <2>2, <2>3, <2>4, <2>5, <3>1
    <3>2. CASE ~ (i <= o)
      <4>1. i - o \in 1 .. u - o /\ o + (i - o) = i
        BY <3>2
      <4> QED BY <2>1, <2>3, <2>4, <2>5, <3>2, <4>1
    <3> QED BY <3>1, <3>2
  <2>7. p \o k = q
    BY <2>3, <2>4, <2>5, <2>6, SeqEqual
  <2> QED BY <1>0, <1>2, <2>1, <2>5, <2>7 DEF k, p, q
<1> QED BY <1>1, <1>2

\* A prefix of a prefix.
LEMMA PrefixOfCut ==
  ASSUME NEW c \in Seq(Bytes), NEW n \in 0 .. Len(c), NEW o \in 0 .. n
  PROVE  /\ SubSeq(c, 1, n) \in Seq(Bytes) /\ Len(SubSeq(c, 1, n)) = n
         /\ SubSeq(SubSeq(c, 1, n), 1, o) = SubSeq(c, 1, o)
<1> DEFINE d == SubSeq(c, 1, n)
           u == SubSeq(d, 1, o)
           v == SubSeq(c, 1, o)
<1>1. d \in Seq(Bytes) /\ Len(d) = n /\ \A i \in 1 .. n : d[i] = c[i]
  OBVIOUS
<1>2. v \in Seq(Bytes) /\ Len(v) = o /\ \A i \in 1 .. o : v[i] = c[i]
  OBVIOUS
<1> HIDE DEF d
<1>3. u \in Seq(Bytes) /\ Len(u) = o /\ \A i \in 1 .. o : u[i] = d[i]
  BY <1>1
<1> HIDE DEF u, v
<1>4. u = v
  BY <1>1, <1>2, <1>3, SeqEqual
<1> QED BY <1>1, <1>4 DEF u, v, d

LEMMA GameTypes ==
  ASSUME TypeOK, Game
  PROVE  TypeOK'
<1> USE TailAssumption
<1>0. /\ content \in [Files -> Seq(Bytes)] /\ path \in Files \cup {Absent}
      /\ written \in 0 .. MaxBytes /\ rotations \in 0 .. MaxRotations
      /\ unobserved \in BOOLEAN /\ blind \in BOOLEAN
  BY DEF TypeOK
<1>1. UNCHANGED <<coreVars, tailVars, pc, size, errors>>
  BY DEF Game, GameAppends, Truncate, Unlink, Recreate
<1>2. ASSUME NEW kind \in Kinds, GameAppends(kind)
      PROVE  content' \in [Files -> Seq(Bytes)] /\ written' \in 0 .. MaxBytes
             /\ blind' \in BOOLEAN /\ UNCHANGED <<path, unobserved, rotations>>
  <2>1. [kind |-> kind, at |-> written] \in Bytes
    BY <1>0 DEF Bytes
  <2>2. path \in Files /\ content[path] \in Seq(Bytes)
    BY <1>0, <1>2 DEF GameAppends
  <2>3. Append(content[path], [kind |-> kind, at |-> written]) \in Seq(Bytes)
    BY <2>1, <2>2
  <2> QED BY <1>0, <1>2, <2>3 DEF GameAppends
<1>3. ASSUME NEW n \in 0 .. MaxBytes, Truncate(n)
      PROVE  content' \in [Files -> Seq(Bytes)] /\ rotations' \in 0 .. MaxRotations
             /\ unobserved' \in BOOLEAN /\ UNCHANGED <<path, written, blind>>
  <2>1. content[path] \in Seq(Bytes) /\ n < Len(content[path])
    BY <1>0, <1>3 DEF Truncate
  <2>2. SubSeq(content[path], 1, n) \in Seq(Bytes)
    BY <2>1
  <2> QED BY <1>0, <1>3, <2>2 DEF Truncate
<1>4. ASSUME Unlink
      PROVE  /\ path' \in Files \cup {Absent} /\ rotations' \in 0 .. MaxRotations
             /\ unobserved' \in BOOLEAN /\ UNCHANGED <<content, written, blind>>
  BY <1>0, <1>4 DEF Unlink
<1>5. ASSUME NEW f \in Files, Recreate(f)
      PROVE  content' \in [Files -> Seq(Bytes)] /\ path' \in Files /\ blind' \in BOOLEAN
             /\ UNCHANGED <<written, rotations, unobserved>>
  <2>1. <<>> \in Seq(Bytes)
    OBVIOUS
  <2> QED BY <1>0, <1>5, <2>1 DEF Recreate
<1>6. \/ \E kind \in Kinds : GameAppends(kind)
      \/ \E n \in 0 .. MaxBytes : Truncate(n)
      \/ Unlink
      \/ \E f \in Files : Recreate(f)
  BY DEF Game
<1>7. /\ content' \in [Files -> Seq(Bytes)] /\ path' \in Files \cup {Absent}
      /\ written' \in 0 .. MaxBytes /\ rotations' \in 0 .. MaxRotations
      /\ unobserved' \in BOOLEAN /\ blind' \in BOOLEAN
  BY <1>0, <1>2, <1>3, <1>4, <1>5, <1>6
<1> QED BY <1>1, <1>7 DEF TypeOK, coreVars, tailVars

LEMMA ConsumeTypes ==
  ASSUME offset \in Nat, leftover \in Seq(Bytes), lines \in Seq(Seq(Bytes)),
         NEW chunk \in Seq(Bytes), Consume(chunk)
  PROVE  offset' \in Nat /\ leftover' \in Seq(Bytes) /\ lines' \in Seq(Seq(Bytes))
<1> DEFINE buf == leftover \o chunk
<1>1. buf \in Seq(Bytes) /\ Len(chunk) \in Nat
  OBVIOUS
<1>2. offset' = offset + Len(chunk) /\ leftover' = Rest(buf) /\ lines' = lines \o SplitLines(buf)
  BY DEF Consume
<1> HIDE DEF buf
<1>3. Rest(buf) \in Seq(Bytes) /\ SplitLines(buf) \in Seq(Seq(Bytes))
  BY <1>1, RestIsUnfinished, SplitType
<1> DEFINE more == SplitLines(buf)
           L == Seq(Bytes)
<1>4. more \in Seq(L) /\ lines \in Seq(L)
  BY <1>3
<1> HIDE DEF more, L
<1>5. lines \o more \in Seq(L)
  BY <1>4
<1> QED BY <1>1, <1>2, <1>3, <1>5 DEF more, L

LEMMA FollowerTypes ==
  ASSUME TypeOK, Follower \/ OpenFails \/ ReadFails
  PROVE  TypeOK'
<1> USE TailAssumption
<1>0. /\ content \in [Files -> Seq(Bytes)] /\ path \in Files \cup {Absent}
      /\ offset \in Nat /\ leftover \in Seq(Bytes) /\ lines \in Seq(Seq(Bytes))
      /\ fh \in Files \cup {Absent} /\ reopen \in BOOLEAN /\ vanished \in BOOLEAN
      /\ size \in Nat /\ unobserved \in BOOLEAN /\ blind \in BOOLEAN
      /\ errors \in 0 .. MaxErrors /\ (pc = "read" => fh # Absent)
  BY DEF TypeOK
<1>1. path # Absent => content[path] \in Seq(Bytes) /\ Len(content[path]) \in Nat
  BY <1>0
<1>2. CASE ScanLog
  <2>1. content[path] \in Seq(Bytes)
    BY <1>1, <1>2 DEF ScanLog
  <2>2. offset' \in Nat /\ lines' \in Seq(Seq(Bytes))
    BY <1>2, <2>1, LastEndIsLast, SplitType DEF ScanLog
  <2>3. UNCHANGED <<gameVars, leftover, tailVars, size, blind, errors>> /\ pc' = "scanned"
    BY <1>2 DEF ScanLog
  <2> QED BY <2>2, <2>3 DEF TypeOK, gameVars, tailVars
<1>3. CASE OpenTail
  <2>1. offset' \in Nat /\ blind' \in BOOLEAN /\ unobserved' \in BOOLEAN
    BY <1>0, <1>1, <1>3 DEF OpenTail
  <2>2. UNCHANGED <<content, path, written, rotations, leftover, lines, tailVars, size, errors>>
        /\ pc' = "idle"
    BY <1>3 DEF OpenTail
  <2> QED BY <2>1, <2>2 DEF TypeOK, tailVars
<1>4. CASE PollMissing
  BY <1>4 DEF PollMissing, TypeOK, coreVars
<1>5. CASE PollStat
  <2>1. size' \in Nat /\ reopen' \in BOOLEAN /\ vanished' \in BOOLEAN
        /\ unobserved' \in BOOLEAN /\ blind' \in BOOLEAN /\ pc' \in {"idle", "open"}
    BY <1>0, <1>1, <1>5 DEF PollStat
  <2>2. offset' \in Nat /\ leftover' \in Seq(Bytes) /\ lines' \in Seq(Seq(Bytes))
    <3>1. CASE Restart
      <4>1. <<>> \in Seq(Bytes) /\ <<>> \in Seq(Seq(Bytes))
        OBVIOUS
      <4> QED BY <3>1, <4>1 DEF Restart
    <3>2. CASE UNCHANGED coreVars
      BY <1>0, <3>2 DEF coreVars
    <3> QED BY <1>5, <3>1, <3>2 DEF PollStat
  <2>3. UNCHANGED <<content, path, written, rotations, fh, errors>>
    BY <1>5 DEF PollStat
  <2> QED BY <2>1, <2>2, <2>3 DEF TypeOK
<1>6. CASE EnsureHandle
  <2>1. fh' \in Files \cup {Absent} /\ fh' # Absent /\ reopen' \in BOOLEAN /\ pc' = "read"
    BY <1>0, <1>6 DEF EnsureHandle
  <2>2. UNCHANGED <<gameVars, coreVars, vanished, size, blind, errors>>
    BY <1>6 DEF EnsureHandle
  <2> QED BY <2>1, <2>2 DEF TypeOK, gameVars, coreVars
<1>7. CASE OpenFails
  <2>1. errors' \in 0 .. MaxErrors /\ fh' = Absent /\ pc' = "idle"
    BY <1>0, <1>7 DEF OpenFails
  <2>2. UNCHANGED <<gameVars, coreVars, reopen, vanished, size, blind>>
    BY <1>7 DEF OpenFails
  <2> QED BY <2>1, <2>2 DEF TypeOK, gameVars, coreVars
<1>8. CASE ReadSlice
  <2>1. content[fh] \in Seq(Bytes)
    BY <1>0, <1>8 DEF ReadSlice
  <2>2. Slice \in Seq(Bytes)
    BY <1>0, <2>1, UpToIs, Piece DEF Slice
  <2>3. Consume(Slice)
    BY <1>8 DEF ReadSlice, Slice, UpTo
  <2>4. offset' \in Nat /\ leftover' \in Seq(Bytes) /\ lines' \in Seq(Seq(Bytes))
    BY <1>0, <2>2, <2>3, ConsumeTypes
  <2>5. UNCHANGED <<gameVars, tailVars, size, blind, errors>> /\ pc = "read"
        /\ pc' \in {"idle", "read"}
    BY <1>8 DEF ReadSlice
  <2> QED BY <2>4, <2>5 DEF TypeOK, gameVars, tailVars
<1>9. CASE ReadFails
  <2>1. errors' \in 0 .. MaxErrors /\ fh' = Absent /\ pc' = "idle" /\ reopen' = TRUE
    BY <1>0, <1>9 DEF ReadFails
  <2>2. UNCHANGED <<gameVars, coreVars, vanished, size, blind>>
    BY <1>9 DEF ReadFails
  <2> QED BY <2>1, <2>2 DEF TypeOK, gameVars, coreVars
<1> QED BY <1>2, <1>3, <1>4, <1>5, <1>6, <1>7, <1>8, <1>9 DEF Follower

\* Every variable keeps its type, whatever the game writes and however many polls
\* fail: a slice, a carry and every line handed over are bytes of the file.
THEOREM TypeCorrect == Spec => []TypeOK
<1>1. Init => TypeOK
  <2>1. <<>> \in Seq(Bytes) /\ <<>> \in Seq(Seq(Bytes))
    OBVIOUS
  <2>2. Init => content \in [Files -> Seq(Bytes)]
    BY <2>1 DEF Init
  <2>3. 0 \in 0 .. MaxBytes /\ 0 \in 0 .. MaxRotations /\ 0 \in 0 .. MaxErrors
    BY TailAssumption
  <2> SUFFICES ASSUME Init PROVE TypeOK
    OBVIOUS
  <2>4. /\ path \in Files \cup {Absent} /\ offset \in Nat /\ leftover \in Seq(Bytes)
        /\ lines \in Seq(Seq(Bytes)) /\ fh \in Files \cup {Absent}
        /\ reopen \in BOOLEAN /\ vanished \in BOOLEAN /\ pc = "scan" /\ size \in Nat
    BY <2>1 DEF Init
  <2>5. /\ unobserved \in BOOLEAN /\ blind \in BOOLEAN
        /\ written \in 0 .. MaxBytes /\ rotations \in 0 .. MaxRotations /\ errors \in 0 .. MaxErrors
    BY <2>3 DEF Init
  <2> QED BY <2>2, <2>4, <2>5 DEF TypeOK
<1>2. TypeOK /\ [Next]_vars => TypeOK'
  <2>1. ASSUME TypeOK, UNCHANGED vars PROVE TypeOK'
    BY <2>1 DEF TypeOK, vars, gameVars, coreVars, tailVars
  <2> QED BY <2>1, GameTypes, FollowerTypes DEF Next
<1> QED BY <1>1, <1>2, PTL DEF Spec

-----------------------------------------------------------------------------
(* The mark law. *)

Follows == MarkLaw /\ (pc \in {"scan", "scanned"} => leftover = <<>>)

LEMMA ConsumeKeepsMark ==
  ASSUME offset \in Nat, leftover \in Seq(Bytes), MarkLaw,
         NEW chunk \in Seq(Bytes), Consume(chunk)
  PROVE  offset' \in Nat /\ leftover' \in Seq(Bytes) /\ MarkLaw'
<1> DEFINE buf == leftover \o chunk
<1>1. buf \in Seq(Bytes) /\ Len(buf) = Len(leftover) + Len(chunk)
  OBVIOUS
<1>2. offset' = offset + Len(chunk) /\ leftover' = Rest(buf)
  BY DEF Consume
<1>3. Rest(buf) \in Seq(Bytes) /\ Len(Rest(buf)) <= Len(buf) /\ LineEnds(Rest(buf)) = {}
  BY <1>1, RestIsUnfinished
<1> HIDE DEF buf
<1> QED BY <1>1, <1>2, <1>3 DEF MarkLaw, Mark

LEMMA RestartKeepsMark ==
  ASSUME Restart
  PROVE  offset' \in Nat /\ leftover' \in Seq(Bytes) /\ MarkLaw'
BY DEF Restart, MarkLaw, Mark, LineEnds

\* Whatever happens to the file, no complete line is held back and no incomplete
\* one is counted under the mark (tail.rs, The mark law).
THEOREM MarkLawHolds == Spec => []MarkLaw
<1> USE TailAssumption
<1>1. Init => Follows
  BY DEF Init, Follows, MarkLaw, Mark, LineEnds
<1>2. TypeOK /\ Follows /\ [Next]_vars => Follows'
  <2> SUFFICES ASSUME TypeOK, Follows, [Next]_vars PROVE Follows'
    OBVIOUS
  <2>0. /\ content \in [Files -> Seq(Bytes)] /\ path \in Files \cup {Absent}
        /\ offset \in Nat /\ leftover \in Seq(Bytes) /\ size \in Nat /\ fh \in Files \cup {Absent}
        /\ MarkLaw /\ (pc \in {"scan", "scanned"} => leftover = <<>>)
    BY DEF TypeOK, Follows
  <2>1. CASE Game \/ UNCHANGED vars
    <3>1. UNCHANGED <<offset, leftover, pc>>
      BY <2>1 DEF Game, GameAppends, Truncate, Unlink, Recreate, vars, coreVars
    <3> QED BY <2>0, <3>1 DEF Follows, MarkLaw, Mark
  <2>2. CASE ScanLog \/ OpenTail
    <3>1. leftover' = <<>> /\ pc' \in {"scanned", "idle"}
      BY <2>0, <2>2 DEF ScanLog, OpenTail
    <3>2. offset' \in Nat
      BY <2>2, FollowerTypes DEF Follower, TypeOK
    <3>3. LineEnds(<<>>) = {} /\ offset' - Len(<<>>) >= 0
      <4>1. Len(<<>>) = 0 /\ \A o \in Nat : o - 0 >= 0
        OBVIOUS
      <4> QED BY <3>2, <4>1, NoBytes
    <3> QED BY <3>1, <3>3 DEF Follows, MarkLaw, Mark
  <2>3. CASE PollMissing \/ EnsureHandle \/ OpenFails \/ ReadFails
    <3>1. UNCHANGED <<offset, leftover>> /\ pc' \notin {"scan", "scanned"}
      BY <2>3 DEF PollMissing, EnsureHandle, OpenFails, ReadFails, coreVars
    <3> QED BY <2>0, <3>1 DEF Follows, MarkLaw, Mark
  <2>4. CASE PollStat
    <3>1. pc' \in {"idle", "open"}
      BY <2>4 DEF PollStat
    <3>2. MarkLaw'
      <4>1. CASE Restart
        BY <4>1, RestartKeepsMark
      <4>2. CASE UNCHANGED coreVars
        BY <2>0, <4>2 DEF coreVars, MarkLaw, Mark
      <4> QED BY <2>4, <4>1, <4>2 DEF PollStat
    <3> QED BY <3>1, <3>2 DEF Follows
  <2>5. CASE ReadSlice
    <3>1. pc = "read" /\ pc' \in {"idle", "read"} /\ Consume(Slice)
      BY <2>5 DEF ReadSlice, Slice, UpTo
    <3>2. content[fh] \in Seq(Bytes)
      BY <2>0, <3>1 DEF TypeOK
    <3>3. Slice \in Seq(Bytes)
      BY <2>0, <3>2, UpToIs, Piece DEF Slice
    <3>4. MarkLaw'
      BY <2>0, <3>1, <3>3, ConsumeKeepsMark
    <3> QED BY <3>1, <3>4 DEF Follows
  <2> QED BY <2>1, <2>2, <2>3, <2>4, <2>5 DEF Next, Follower
<1>3. Follows => MarkLaw
  BY DEF Follows
<1> QED BY <1>1, <1>2, <1>3, TypeCorrect, PTL DEF Spec

-----------------------------------------------------------------------------
(* Poll timing never decides what comes out. *)

\* Where the follower stands says what it holds.
Stands ==
  /\ pc \in {"scan", "scanned"} => leftover = <<>> /\ fh = Absent
  /\ pc \in {"open", "read"} => ~vanished
  /\ pc = "read" => ~reopen

\* A file removed, or cut below the cursor, is on record until a poll sees it.
Noticed ==
  /\ path = Absent /\ (fh # Absent \/ offset # 0) => unobserved \/ vanished
  /\ path # Absent /\ offset > Len(content[path]) => unobserved \/ vanished \/ blind

\* A handle no one asked to reopen is on the file the path names.
HandleIsPath ==
  path # Absent /\ ~blind /\ ~vanished /\ fh # Absent /\ ~reopen => fh = path

FreshAtZero == offset = 0 /\ ~blind => lines = <<>>

Handed == Stands /\ Noticed /\ HandleIsPath /\ FreshAtZero /\ SameLinesHoweverPolled

\* A follower at byte 0 that was not blinded has read nothing.
LEMMA ZeroIsFresh ==
  ASSUME TypeOK, MarkLaw, FreshAtZero, offset = 0, ~blind, NEW c \in Seq(Bytes)
  PROVE  Fed(SubSeq(c, 1, offset)) = [done |-> lines, hand |-> leftover]
<1>1. SubSeq(c, 1, 0) = <<>>
  OBVIOUS
<1>2. leftover = <<>>
  <2>1. leftover \in Seq(Bytes) /\ offset - Len(leftover) >= 0
    BY DEF TypeOK, MarkLaw, Mark
  <2> QED BY <2>1
<1>3. lines = <<>>
  BY DEF FreshAtZero
<1> QED BY <1>1, <1>2, <1>3, FedNothing

LEMMA GameHanded ==
  ASSUME TypeOK, MarkLaw, Handed, Game
  PROVE  Handed'
<1> USE TailAssumption
<1>0. /\ content \in [Files -> Seq(Bytes)] /\ path \in Files \cup {Absent}
      /\ offset \in Nat /\ written \in 0 .. MaxBytes
      /\ unobserved \in BOOLEAN /\ blind \in BOOLEAN /\ vanished \in BOOLEAN
  BY DEF TypeOK
<1>1. UNCHANGED <<offset, leftover, lines, fh, reopen, vanished, pc>>
  BY DEF Game, GameAppends, Truncate, Unlink, Recreate, coreVars, tailVars
<1>2. Stands'
  BY <1>1 DEF Handed, Stands
<1>3. /\ path = Absent /\ (fh # Absent \/ offset # 0) => unobserved \/ vanished
      /\ path # Absent /\ offset > Len(content[path]) => unobserved \/ vanished \/ blind
      /\ path # Absent /\ ~blind /\ ~vanished /\ fh # Absent /\ ~reopen => fh = path
      /\ offset = 0 /\ ~blind => lines = <<>>
      /\ path # Absent /\ ~blind /\ ~vanished /\ offset <= Len(content[path]) =>
           Fed(SubSeq(content[path], 1, offset)) = [done |-> lines, hand |-> leftover]
  BY DEF Handed, Noticed, HandleIsPath, FreshAtZero, SameLinesHoweverPolled
<1>4. ASSUME NEW kind \in Kinds, GameAppends(kind) PROVE Handed'
  <2> DEFINE c == content[path]
             x == [kind |-> kind, at |-> written]
  <2>1. /\ path # Absent /\ path' = path /\ unobserved' = unobserved
        /\ blind' = (blind \/ unobserved)
    BY <1>4 DEF GameAppends
  <2>2. c \in Seq(Bytes) /\ x \in Bytes
    BY <1>0, <2>1 DEF Bytes
  <2>3. content'[path'] = Append(c, x)
    BY <1>0, <1>4, <2>1 DEF GameAppends
  <2> HIDE DEF c, x
  <2>4. /\ Len(content'[path']) = Len(c) + 1 /\ Len(c) \in Nat
        /\ offset <= Len(c) => SubSeq(content'[path'], 1, offset) = SubSeq(c, 1, offset)
    <3>1. offset <= Len(c) => offset \in 0 .. Len(c)
      BY <1>0, <2>2
    <3> QED BY <2>2, <2>3, <3>1, OneMore
  <2>5. Noticed'
    <3>1. offset > Len(content'[path']) => offset > Len(c)
      BY <1>0, <2>4
    <3> QED BY <1>1, <1>3, <2>1, <3>1 DEF Noticed, c
  <2>6. HandleIsPath' /\ FreshAtZero'
    BY <1>1, <1>3, <2>1 DEF HandleIsPath, FreshAtZero
  <2>7. SameLinesHoweverPolled'
    <3> SUFFICES ASSUME ~blind', ~vanished', offset' <= Len(content'[path'])
                 PROVE  (Fed(SubSeq(content[path], 1, offset))
                           = [done |-> lines, hand |-> leftover])'
      BY DEF SameLinesHoweverPolled
    <3>1. ~blind /\ ~unobserved /\ ~vanished
      BY <1>0, <1>1, <2>1
    <3>2. offset <= Len(c)
      <4>1. ~ (offset > Len(c))
        BY <1>3, <2>1, <3>1 DEF c
      <4> QED BY <1>0, <2>4, <4>1
    <3>3. Fed(SubSeq(c, 1, offset)) = [done |-> lines, hand |-> leftover]
      BY <1>3, <2>1, <3>1, <3>2 DEF c
    <3>4. SubSeq(content'[path'], 1, offset') = SubSeq(c, 1, offset)
      BY <1>1, <2>4, <3>2
    <3> QED BY <1>1, <3>3, <3>4
  <2> QED BY <1>2, <2>5, <2>6, <2>7 DEF Handed
<1>5. ASSUME NEW n \in 0 .. MaxBytes, Truncate(n) PROVE Handed'
  <2> DEFINE c == content[path]
  <2>1. /\ path # Absent /\ path' = path /\ blind' = blind /\ n < Len(content[path])
        /\ unobserved' = (unobserved \/ n < offset)
    BY <1>5 DEF Truncate
  <2>2. c \in Seq(Bytes) /\ n \in 0 .. Len(c)
    BY <1>0, <2>1
  <2>3. content'[path'] = SubSeq(c, 1, n)
    BY <1>0, <1>5, <2>1 DEF Truncate
  <2>n. n < Len(c) /\ Len(c) \in Nat
    BY <2>1, <2>2
  <2> HIDE DEF c
  <2>4. /\ Len(content'[path']) = n
        /\ offset <= n => SubSeq(content'[path'], 1, offset) = SubSeq(c, 1, offset)
    <3>1. offset <= n => offset \in 0 .. n
      BY <1>0
    <3>2. Len(SubSeq(c, 1, n)) = n
      BY <2>2, <2>n
    <3> QED BY <2>2, <2>3, <3>1, <3>2, PrefixOfCut
  <2>5. Noticed'
    <3>1. offset > n <=> n < offset
      BY <1>0
    <3> QED BY <1>1, <1>3, <2>1, <2>4, <3>1 DEF Noticed
  <2>6. HandleIsPath' /\ FreshAtZero'
    BY <1>1, <1>3, <2>1 DEF HandleIsPath, FreshAtZero
  <2>7. SameLinesHoweverPolled'
    <3> SUFFICES ASSUME ~blind', ~vanished', offset' <= Len(content'[path'])
                 PROVE  (Fed(SubSeq(content[path], 1, offset))
                           = [done |-> lines, hand |-> leftover])'
      BY DEF SameLinesHoweverPolled
    <3>1. ~blind /\ ~vanished /\ offset <= n
      BY <1>1, <2>1, <2>4
    <3>2. offset <= Len(c)
      BY <1>0, <2>n, <3>1
    <3>3. Fed(SubSeq(c, 1, offset)) = [done |-> lines, hand |-> leftover]
      BY <1>3, <2>1, <3>1, <3>2 DEF c
    <3>4. SubSeq(content'[path'], 1, offset') = SubSeq(c, 1, offset)
      BY <1>1, <2>4, <3>1
    <3> QED BY <1>1, <3>3, <3>4
  <2> QED BY <1>2, <2>5, <2>6, <2>7 DEF Handed
<1>6. CASE Unlink
  <2>1. path' = Absent /\ blind' = blind /\ unobserved' = (unobserved \/ fh # Absent \/ offset # 0)
    BY <1>6 DEF Unlink
  <2>2. Noticed'
    BY <1>1, <2>1 DEF Noticed
  <2>3. HandleIsPath' /\ FreshAtZero' /\ SameLinesHoweverPolled'
    BY <1>1, <1>3, <2>1 DEF HandleIsPath, FreshAtZero, SameLinesHoweverPolled
  <2> QED BY <1>2, <2>2, <2>3 DEF Handed
<1>7. ASSUME NEW f \in Files, Recreate(f) PROVE Handed'
  <2>1. /\ path = Absent /\ path' = f /\ unobserved' = unobserved
        /\ blind' = (blind \/ unobserved) /\ content'[f] = <<>>
    BY <1>0, <1>7 DEF Recreate
  <2>2. path' # Absent
    BY <2>1
  <2>3. \/ vanished \/ unobserved \/ blind
        \/ fh = Absent /\ offset = 0
    BY <1>3, <2>1
  <2>4. Noticed'
    <3>1. ~ (0 > Len(<<>>))
      OBVIOUS
    <3> QED BY <1>1, <2>1, <2>2, <2>3, <3>1 DEF Noticed
  <2>5. HandleIsPath'
    BY <1>1, <2>1, <2>2, <2>3 DEF HandleIsPath
  <2>6. FreshAtZero'
    BY <1>1, <1>3, <2>1 DEF FreshAtZero
  <2>7. SameLinesHoweverPolled'
    <3> SUFFICES ASSUME ~blind', ~vanished'
                 PROVE  (Fed(SubSeq(content[path], 1, offset))
                           = [done |-> lines, hand |-> leftover])'
      BY DEF SameLinesHoweverPolled
    <3>1. ~blind /\ offset = 0
      BY <1>1, <2>1, <2>3
    <3>2. <<>> \in Seq(Bytes)
      OBVIOUS
    <3>3. Fed(SubSeq(<<>>, 1, offset)) = [done |-> lines, hand |-> leftover]
      BY <3>1, <3>2, ZeroIsFresh DEF Handed
    <3> QED BY <1>1, <2>1, <3>3
  <2> QED BY <1>2, <2>4, <2>5, <2>6, <2>7 DEF Handed
<1> QED BY <1>4, <1>5, <1>6, <1>7 DEF Game

LEMMA HandoffHanded ==
  ASSUME TypeOK, MarkLaw, Handed, ScanLog \/ OpenTail
  PROVE  Handed'
<1> USE TailAssumption
<1>0. /\ content \in [Files -> Seq(Bytes)] /\ path \in Files \cup {Absent}
      /\ offset \in Nat /\ unobserved \in BOOLEAN /\ blind \in BOOLEAN /\ vanished \in BOOLEAN
  BY DEF TypeOK
<1>1. /\ path = Absent /\ (fh # Absent \/ offset # 0) => unobserved \/ vanished
      /\ path # Absent /\ offset > Len(content[path]) => unobserved \/ vanished \/ blind
      /\ offset = 0 /\ ~blind => lines = <<>>
      /\ path # Absent /\ ~blind /\ ~vanished /\ offset <= Len(content[path]) =>
           Fed(SubSeq(content[path], 1, offset)) = [done |-> lines, hand |-> leftover]
      /\ pc \in {"scan", "scanned"} => leftover = <<>> /\ fh = Absent
  BY DEF Handed, Stands, Noticed, FreshAtZero, SameLinesHoweverPolled
<1>2. leftover = <<>> /\ fh = Absent
  BY <1>1 DEF ScanLog, OpenTail
<1>3. UNCHANGED <<content, path, leftover, fh, reopen, vanished>> /\ pc' \in {"scanned", "idle"}
  BY DEF ScanLog, OpenTail, gameVars, tailVars
<1>4. Stands' /\ HandleIsPath'
  BY <1>2, <1>3 DEF Stands, HandleIsPath
<1>5. CASE ScanLog
  <2> DEFINE c == content[path]
  <2>1. /\ path # Absent /\ UNCHANGED <<unobserved, blind>>
        /\ offset' = LastEnd(c) /\ lines' = SplitLines(c)
    BY <1>5 DEF ScanLog, gameVars
  <2>2. c \in Seq(Bytes)
    BY <1>0, <2>1
  <2> HIDE DEF c
  <2>3. offset' \in 0 .. Len(c) /\ (\A j \in LineEnds(c) : j <= offset')
    BY <2>1, <2>2, LastEndIsLast
  <2>4. Noticed'
    <3>1. ~ (offset' > Len(c))
      BY <2>2, <2>3
    <3> QED BY <1>3, <2>1, <3>1 DEF Noticed, c
  <2>5. FreshAtZero'
    <3> SUFFICES ASSUME offset' = 0 PROVE lines' = <<>>
      BY DEF FreshAtZero
    <3>1. LineEnds(c) = {}
      <4>1. \A j \in LineEnds(c) : j \in 1 .. Len(c) /\ j <= 0
        BY <2>3 DEF LineEnds
      <4>2. \A j : ~ (j \in 1 .. Len(c) /\ j <= 0)
        BY <2>2
      <4> QED BY <4>1, <4>2
    <3> QED BY <2>1, <2>2, <3>1, NoLineEnds
  <2>6. SameLinesHoweverPolled'
    <3>1. Fed(SubSeq(c, 1, offset')) = [done |-> lines', hand |-> leftover']
      BY <1>2, <1>3, <2>1, <2>2, ScanSplits
    <3> QED BY <1>3, <3>1 DEF SameLinesHoweverPolled, c
  <2> QED BY <1>4, <2>4, <2>5, <2>6 DEF Handed
<1>6. CASE OpenTail
  <2> DEFINE shrank == path # Absent /\ Len(content[path]) < offset
  <2>1. /\ offset' = IF shrank THEN Len(content[path]) ELSE offset
        /\ blind' = (blind \/ shrank) /\ lines' = lines
        /\ unobserved' = (unobserved /\ path = Absent)
    BY <1>6 DEF OpenTail
  <2>2. path # Absent => Len(content[path]) \in Nat
    BY <1>0
  <2>3. Noticed'
    <3>1. path # Absent => ~ (offset' > Len(content[path]))
      BY <1>0, <2>1, <2>2
    <3>2. path = Absent => offset' = offset
      BY <2>1
    <3> QED BY <1>1, <1>3, <2>1, <3>1, <3>2 DEF Noticed
  <2>4. FreshAtZero'
    BY <1>1, <2>1 DEF FreshAtZero
  <2>5. SameLinesHoweverPolled'
    <3>1. ~blind' => offset' = offset /\ ~blind
      BY <2>1
    <3> QED BY <1>1, <1>3, <2>1, <3>1 DEF SameLinesHoweverPolled
  <2> QED BY <1>4, <2>3, <2>4, <2>5 DEF Handed
<1> QED BY <1>5, <1>6

LEMMA PollStatHanded ==
  ASSUME TypeOK, MarkLaw, Handed, PollStat
  PROVE  Handed'
<1> USE TailAssumption
<1> DEFINE c == content[path]
           shrunk == Len(c) < offset
<1>0. /\ path # Absent /\ c \in Seq(Bytes) /\ offset \in Nat /\ Len(c) \in Nat
      /\ unobserved \in BOOLEAN /\ blind \in BOOLEAN /\ vanished \in BOOLEAN
  BY DEF TypeOK, PollStat
<1>1. /\ path # Absent /\ offset > Len(content[path]) => unobserved \/ vanished \/ blind
      /\ path # Absent /\ ~blind /\ ~vanished /\ fh # Absent /\ ~reopen => fh = path
      /\ offset = 0 /\ ~blind => lines = <<>>
      /\ path # Absent /\ ~blind /\ ~vanished /\ offset <= Len(content[path]) =>
           Fed(SubSeq(content[path], 1, offset)) = [done |-> lines, hand |-> leftover]
  BY DEF Handed, Noticed, HandleIsPath, FreshAtZero, SameLinesHoweverPolled
<1>2. /\ UNCHANGED <<content, path, fh>> /\ pc' \in {"idle", "open"}
      /\ ~vanished' /\ reopen' = (reopen \/ vanished \/ shrunk)
      /\ blind' = (~shrunk /\ (blind \/ (vanished /\ offset # 0)))
      /\ IF shrunk THEN Restart ELSE UNCHANGED coreVars
  BY DEF PollStat
<1>3. Stands'
  BY <1>2 DEF Stands
<1>4. CASE shrunk
  <2>1. offset' = 0 /\ lines' = <<>> /\ leftover' = <<>> /\ reopen' = TRUE
    BY <1>2, <1>4 DEF Restart
  <2>2. Noticed'
    <3>1. ~ (0 > Len(c))
      BY <1>0
    <3> QED BY <1>0, <1>2, <2>1, <3>1 DEF Noticed
  <2>3. HandleIsPath' /\ FreshAtZero'
    BY <2>1 DEF HandleIsPath, FreshAtZero
  <2>4. SameLinesHoweverPolled'
    <3>1. SubSeq(c, 1, 0) = <<>>
      BY <1>0
    <3> QED BY <1>2, <2>1, <3>1, FedNothing DEF SameLinesHoweverPolled
  <2> QED BY <1>3, <2>2, <2>3, <2>4 DEF Handed
<1>5. CASE ~shrunk
  <2>1. UNCHANGED <<offset, leftover, lines>>
    BY <1>2, <1>5 DEF coreVars
  <2>2. Noticed'
    <3>1. ~ (offset > Len(c))
      BY <1>0, <1>5
    <3> QED BY <1>0, <1>2, <2>1, <3>1 DEF Noticed
  <2>3. HandleIsPath'
    BY <1>1, <1>2, <1>5 DEF HandleIsPath
  <2>4. FreshAtZero'
    BY <1>1, <1>2, <1>5, <2>1 DEF FreshAtZero
  <2>5. SameLinesHoweverPolled'
    <3> SUFFICES ASSUME ~blind', offset' <= Len(content'[path'])
                 PROVE  (Fed(SubSeq(content[path], 1, offset))
                           = [done |-> lines, hand |-> leftover])'
      BY DEF SameLinesHoweverPolled
    <3>1. ~blind /\ (~vanished \/ offset = 0)
      BY <1>2, <1>5
    <3>2. CASE ~vanished
      BY <1>0, <1>1, <1>2, <2>1, <3>1, <3>2
    <3>3. CASE offset = 0
      <4>1. Fed(SubSeq(c, 1, offset)) = [done |-> lines, hand |-> leftover]
        BY <1>0, <3>1, <3>3, ZeroIsFresh DEF Handed
      <4> QED BY <1>2, <2>1, <4>1
    <3> QED BY <3>1, <3>2, <3>3
  <2> QED BY <1>3, <2>2, <2>3, <2>4, <2>5 DEF Handed
<1> QED BY <1>4, <1>5

LEMMA HandleHanded ==
  ASSUME TypeOK, MarkLaw, Handed, PollMissing \/ EnsureHandle \/ OpenFails \/ ReadFails
  PROVE  Handed'
<1>1. UNCHANGED <<content, path, offset, leftover, lines, blind>>
  BY DEF PollMissing, EnsureHandle, OpenFails, ReadFails, gameVars, coreVars
<1>2. FreshAtZero'
  BY <1>1 DEF Handed, FreshAtZero
<1>3. CASE PollMissing
  <2>1. path = Absent /\ vanished' = TRUE /\ pc' = pc /\ pc = "idle"
    BY <1>3 DEF PollMissing
  <2> QED BY <1>1, <1>2, <2>1
          DEF Handed, Stands, Noticed, HandleIsPath, SameLinesHoweverPolled
<1>4. ASSUME UNCHANGED <<unobserved, vanished>> PROVE SameLinesHoweverPolled'
  BY <1>1, <1>4 DEF Handed, SameLinesHoweverPolled
<1>5. CASE EnsureHandle
  <2>1. /\ pc = "open" /\ pc' = "read" /\ UNCHANGED <<unobserved, vanished>>
        /\ \/ fh # Absent /\ ~reopen /\ UNCHANGED <<fh, reopen>>
           \/ path # Absent /\ fh' = path /\ reopen' = FALSE
    BY <1>5 DEF EnsureHandle, gameVars
  <2>2. Stands'
    BY <2>1 DEF Handed, Stands
  <2>3. Noticed' /\ HandleIsPath'
    BY <1>1, <2>1 DEF Handed, Noticed, HandleIsPath
  <2> QED BY <1>2, <1>4, <2>1, <2>2, <2>3 DEF Handed
<1>6. CASE OpenFails \/ ReadFails
  <2>1. fh' = Absent /\ pc' = "idle" /\ UNCHANGED <<unobserved, vanished>>
    BY <1>6 DEF OpenFails, ReadFails, gameVars
  <2>2. Stands' /\ Noticed' /\ HandleIsPath'
    BY <1>1, <2>1 DEF Handed, Stands, Noticed, HandleIsPath
  <2> QED BY <1>2, <1>4, <2>1, <2>2 DEF Handed
<1> QED BY <1>3, <1>5, <1>6

LEMMA ReadSliceHanded ==
  ASSUME TypeOK, MarkLaw, Handed, ReadSlice
  PROVE  Handed'
<1> USE TailAssumption
<1> DEFINE c == content[fh]
<1>0. /\ pc = "read" /\ fh \in Files /\ fh # Absent /\ c \in Seq(Bytes) /\ offset \in Nat
      /\ leftover \in Seq(Bytes) /\ lines \in Seq(Seq(Bytes)) /\ size \in Nat
      /\ ~vanished /\ ~reopen
  <2>1. pc = "read"
    BY DEF ReadSlice
  <2> QED BY <2>1 DEF TypeOK, Handed, Stands
<1>1. /\ path = Absent => unobserved
      /\ path # Absent /\ offset > Len(content[path]) => unobserved \/ blind
      /\ path # Absent /\ ~blind => fh = path
      /\ offset = 0 /\ ~blind => lines = <<>>
      /\ path # Absent /\ ~blind /\ offset <= Len(content[path]) =>
           Fed(SubSeq(content[path], 1, offset)) = [done |-> lines, hand |-> leftover]
  BY <1>0 DEF Handed, Noticed, HandleIsPath, FreshAtZero, SameLinesHoweverPolled
<1>2. /\ UNCHANGED <<content, path, unobserved, blind, fh, reopen, vanished>>
      /\ pc' \in {"idle", "read"}
  BY DEF ReadSlice, gameVars, tailVars
<1>3. Consume(Slice)
  BY DEF ReadSlice, Slice, UpTo
<1>4. /\ offset' = offset + Len(Slice)
      /\ lines' = lines \o SplitLines(leftover \o Slice)
      /\ leftover' = Rest(leftover \o Slice)
  BY <1>3 DEF Consume
<1>5. /\ Slice \in Seq(Bytes)
      /\ offset > Len(c) => Slice = <<>>
      /\ offset <= Len(c) => /\ offset + Len(Slice) \in 0 .. Len(c)
                             /\ SubSeq(c, 1, offset) \o Slice = SubSeq(c, 1, offset + Len(Slice))
  BY <1>0, UpToIs, Piece DEF Slice
<1> HIDE DEF c
<1>6. Len(Slice) \in Nat /\ Len(c) \in Nat
  BY <1>0, <1>5
<1>7. Stands'
  BY <1>0, <1>2 DEF Stands
<1>8. HandleIsPath'
  BY <1>1, <1>2 DEF HandleIsPath
<1>9. FreshAtZero'
  <2> SUFFICES ASSUME offset' = 0, ~blind' PROVE lines' = <<>>
    BY DEF FreshAtZero
  <2>1. offset = 0 /\ Len(Slice) = 0
    BY <1>0, <1>4, <1>6
  <2>2. Slice = <<>>
    BY <1>5, <2>1
  <2>3. leftover = <<>>
    <3>1. offset - Len(leftover) >= 0
      BY DEF MarkLaw, Mark
    <3> QED BY <1>0, <2>1, <3>1
  <2>4. lines = <<>> /\ leftover \o Slice = <<>>
    <3>1. <<>> \o <<>> = <<>>
      OBVIOUS
    <3> QED BY <1>1, <1>2, <2>1, <2>2, <2>3, <3>1
  <2>5. <<>> \o SplitLines(<<>>) = <<>>
    BY SplitNothing
  <2> QED BY <1>4, <2>4, <2>5
<1>10. Noticed'
  <2> SUFFICES ASSUME path' # Absent, ~unobserved', ~blind'
               PROVE  ~ (offset' > Len(content'[path']))
    BY <1>1, <1>2 DEF Noticed
  <2>1. path # Absent /\ fh = path /\ ~ (offset > Len(content[path]))
    BY <1>1, <1>2
  <2>2. offset <= Len(c)
    BY <1>0, <1>6, <2>1 DEF c
  <2>3. offset' \in 0 .. Len(c)
    BY <1>4, <1>5, <2>2
  <2>4. content'[path'] = c
    BY <1>2, <2>1 DEF c
  <2> QED BY <1>6, <2>3, <2>4
<1>11. SameLinesHoweverPolled'
  <2> SUFFICES ASSUME path' # Absent, ~blind', offset' <= Len(content'[path'])
               PROVE  (Fed(SubSeq(content[path], 1, offset)) = [done |-> lines, hand |-> leftover])'
    BY DEF SameLinesHoweverPolled
  <2>1. path # Absent /\ ~blind /\ fh = path /\ content'[path'] = c
    BY <1>1, <1>2 DEF c
  <2>2. offset <= Len(c)
    BY <1>0, <1>4, <1>6, <2>1
  <2> DEFINE p == SubSeq(c, 1, offset)
  <2>3. Fed(p) = [done |-> lines, hand |-> leftover]
    BY <1>1, <2>1, <2>2 DEF c
  <2>4. p \in Seq(Bytes)
    BY <1>0, <1>6, <2>2 DEF c
  <2>5. LineEnds(leftover) = {}
    BY DEF MarkLaw
  <2>6. p \o Slice = SubSeq(c, 1, offset')
    BY <1>4, <1>5, <2>2
  <2> HIDE DEF p
  <2>7. Fed(p \o Slice) = [done |-> lines \o SplitLines(leftover \o Slice),
                           hand |-> Rest(leftover \o Slice)]
    <3>1. lines \in Seq(Seq(Bytes)) /\ leftover \in Seq(Bytes) /\ Slice \in Seq(Bytes)
      BY <1>0, <1>5
    <3> QED BY ONLY <3>1, <2>3, <2>4, <2>5, ReadingOn
  <2> QED BY <1>4, <2>1, <2>6, <2>7
<1> QED BY <1>7, <1>8, <1>9, <1>10, <1>11 DEF Handed

\* Unless a cut was written over before any poll could see it, what was handed
\* over is what reading the bytes under the cursor in one piece gives, whatever
\* the slices, the races with the game and the failures were (tail.rs, header).
THEOREM SameLines == Spec => []SameLinesHoweverPolled
<1>1. Init => Handed
  <2> SUFFICES ASSUME Init PROVE Handed
    OBVIOUS
  <2>1. /\ leftover = <<>> /\ lines = <<>> /\ offset = 0 /\ fh = Absent /\ pc = "scan"
        /\ path \in Files /\ path # Absent /\ content[path] = <<>>
    BY TailAssumption DEF Init
  <2>2. ~ (0 > Len(<<>>)) /\ SubSeq(<<>>, 1, 0) = <<>>
    OBVIOUS
  <2>3. Noticed
    BY <2>1, <2>2 DEF Noticed
  <2>4. SameLinesHoweverPolled
    BY <2>1, <2>2, FedNothing DEF SameLinesHoweverPolled
  <2> QED BY <2>1, <2>3, <2>4 DEF Handed, Stands, HandleIsPath, FreshAtZero
<1>2. TypeOK /\ MarkLaw /\ Handed /\ [Next]_vars => Handed'
  <2>1. ASSUME Handed, UNCHANGED vars PROVE Handed'
    BY <2>1 DEF Handed, Stands, Noticed, HandleIsPath, FreshAtZero, SameLinesHoweverPolled,
                vars, gameVars, coreVars, tailVars
  <2> QED BY <2>1, GameHanded, HandoffHanded, PollStatHanded, HandleHanded, ReadSliceHanded
          DEF Next, Follower
<1>3. Handed => SameLinesHoweverPolled
  BY DEF Handed
<1> QED BY <1>1, <1>2, <1>3, TypeCorrect, MarkLawHolds, PTL DEF Spec

=============================================================================
