------------------------------ MODULE FoldFacts ------------------------------
(***************************************************************************)
(* What a left fold computes.  The models write a run over a sequence as   *)
(* FoldLeft of the community modules, which goes through the subsets of    *)
(* the sequence's domain; the proofs need it one element at a time.  A     *)
(* proof instantiates this module with the operator it folds and shows,    *)
(* by expanding both definitions, that FoldLeft is Fold.                   *)
(***************************************************************************)
EXTENDS Naturals, Sequences, TLAPS, WellFoundedInduction

CONSTANT Op(_, _, _)  \* under a context that stays: the value so far, one element

Greatest(s) == CHOOSE x \in s : \A y \in s : x >= y

\* FoldLeft of Op under ctx, in the words of Folds.tla.
Fold(ctx, base, seq) ==
  LET iter[s \in SUBSET (DOMAIN seq)] ==
        IF s = {} THEN base ELSE Op(ctx, iter[s \ {Greatest(s)}], seq[Greatest(s)])
  IN  iter[DOMAIN seq]

\* Induction over the naturals, as a fact about sets.
LEMMA Induction ==
  ASSUME NEW S, 0 \in S, \A n \in Nat : n \in S => n + 1 \in S
  PROVE  Nat \subseteq S
<1> DEFINE Below == OpToRel(<, Nat)
           T == Nat \ S
<1> SUFFICES ASSUME T # {} PROVE FALSE
  OBVIOUS
<1>1. PICK k \in T : \A y \in T : ~ (<<y, k>> \in Below)
  <2> HIDE DEF Below
  <2>1. IsWellFoundedOn(Below, Nat)
    BY NatLessThanWellFounded DEF Below
  <2>2. T \subseteq Nat
    OBVIOUS
  <2> HIDE DEF T
  <2> QED BY <2>1, <2>2, WFMin
<1>2. \A x, y \in Nat : x < y => <<x, y>> \in Below
  BY DEF OpToRel
<1>3. k \in Nat /\ k # 0 /\ k - 1 \in Nat /\ k - 1 < k /\ (k - 1) + 1 = k
  OBVIOUS
<1>4. k - 1 \notin S
  BY <1>3
<1> HIDE DEF Below
<1> QED BY <1>1, <1>2, <1>3, <1>4

Iterates(f, ctx, base, seq, n) ==
  f = [s \in SUBSET (1 .. n) |->
         IF s = {} THEN base ELSE Op(ctx, f[s \ {Greatest(s)}], seq[Greatest(s)])]

LEMMA GreatestOfAll ==
  ASSUME NEW n \in Nat, NEW s \in SUBSET (1 .. n + 1), n + 1 \in s
  PROVE  Greatest(s) = n + 1
<1>1. \A y \in s : n + 1 >= y
  OBVIOUS
<1>2. \A x \in s : (\A y \in s : x >= y) => x = n + 1
  OBVIOUS
<1> QED BY <1>1, <1>2 DEF Greatest

LEMMA Segment ==
  ASSUME NEW k \in Nat
  PROVE  /\ (1 .. k + 1) \ {k + 1} = 1 .. k
         /\ Greatest(1 .. k + 1) = k + 1
<1>1. \A x : x \in (1 .. k + 1) \ {k + 1} <=> x \in 1 .. k
  OBVIOUS
<1>2. k + 1 \in 1 .. k + 1 /\ 1 .. k + 1 \in SUBSET (1 .. k + 1)
  OBVIOUS
<1>3. Greatest(1 .. k + 1) = k + 1
  BY <1>2, GreatestOfAll
<1> QED BY <1>1, <1>3

\* One turn of the recursion, on initial segments.
LEMMA Turn ==
  ASSUME NEW n \in Nat, NEW k \in Nat, k < n, NEW ctx, NEW base, NEW seq,
         NEW f, Iterates(f, ctx, base, seq, n)
  PROVE  f[1 .. k + 1] = Op(ctx, f[1 .. k], seq[k + 1])
<1> DEFINE s == 1 .. k + 1
<1>1. s \in SUBSET (1 .. n)
  OBVIOUS
<1>2. s # {}
  <2>1. k + 1 \in s
    OBVIOUS
  <2> QED BY <2>1
<1>3. s \ {k + 1} = 1 .. k /\ Greatest(s) = k + 1
  BY Segment
<1> HIDE DEF s
<1>4. f[s] = IF s = {} THEN base ELSE Op(ctx, f[s \ {Greatest(s)}], seq[Greatest(s)])
  BY <1>1 DEF Iterates
<1> QED BY <1>2, <1>3, <1>4 DEF s

LEMMA Start ==
  ASSUME NEW n \in Nat, NEW ctx, NEW base, NEW seq, NEW f, Iterates(f, ctx, base, seq, n)
  PROVE  f[1 .. 0] = base
<1>1. 1 .. 0 = {} /\ {} \in SUBSET (1 .. n)
  OBVIOUS
<1> QED BY <1>1 DEF Iterates

\* The recursion has a solution.
LEMMA IterationExists ==
  ASSUME NEW ctx, NEW base, NEW seq
  PROVE  \A n \in Nat : \E f : Iterates(f, ctx, base, seq, n)
<1> DEFINE S == {n \in Nat : \E f : Iterates(f, ctx, base, seq, n)}
<1>1. 0 \in S
  <2> DEFINE f == [s \in SUBSET (1 .. 0) |-> base]
  <2>1. \A s \in SUBSET (1 .. 0) : s = {}
    OBVIOUS
  <2>2. Iterates(f, ctx, base, seq, 0)
    BY <2>1 DEF Iterates
  <2> QED BY <2>2
<1>2. ASSUME NEW n \in Nat, n \in S PROVE n + 1 \in S
  <2>1. PICK f : Iterates(f, ctx, base, seq, n)
    BY <1>2
  <2> DEFINE g == [s \in SUBSET (1 .. n + 1) |->
                     IF n + 1 \in s THEN Op(ctx, f[s \ {n + 1}], seq[n + 1]) ELSE f[s]]
             G(s) == IF s = {} THEN base ELSE Op(ctx, g[s \ {Greatest(s)}], seq[Greatest(s)])
  <2>2. ASSUME NEW s \in SUBSET (1 .. n + 1) PROVE g[s] = G(s)
    <3>1. \A t \in SUBSET (1 .. n) : t \in SUBSET (1 .. n + 1) /\ n + 1 \notin t
      OBVIOUS
    <3>2. \A t \in SUBSET (1 .. n) : g[t] = f[t]
      BY <3>1
    <3>3. CASE n + 1 \in s
      <4>1. Greatest(s) = n + 1
        BY <3>3, GreatestOfAll
      <4>2. s \ {n + 1} \in SUBSET (1 .. n)
        OBVIOUS
      <4>3. g[s] = Op(ctx, f[s \ {n + 1}], seq[n + 1])
        BY <3>3
      <4>4. g[s \ {n + 1}] = f[s \ {n + 1}]
        BY <3>2, <4>2
      <4>5. s # {}
        BY <3>3
      <4> HIDE DEF g
      <4> QED BY <4>1, <4>3, <4>4, <4>5
    <3>4. CASE n + 1 \notin s
      <4>1. s \in SUBSET (1 .. n) /\ s \ {Greatest(s)} \in SUBSET (1 .. n)
        <5>1. \A i \in 1 .. n + 1 : i # n + 1 => i \in 1 .. n
          OBVIOUS
        <5>2. s \in SUBSET (1 .. n)
          BY <3>4, <5>1
        <5> QED BY <5>2
      <4>2. f[s] = IF s = {} THEN base ELSE Op(ctx, f[s \ {Greatest(s)}], seq[Greatest(s)])
        BY <2>1, <4>1 DEF Iterates
      <4>3. g[s] = f[s] /\ g[s \ {Greatest(s)}] = f[s \ {Greatest(s)}]
        BY <3>2, <4>1
      <4> HIDE DEF g
      <4> QED BY <4>2, <4>3
    <3> QED BY <3>3, <3>4
  <2>3. g = [s \in SUBSET (1 .. n + 1) |-> g[s]]
    OBVIOUS
  <2>4. Iterates(g, ctx, base, seq, n + 1)
    <3> HIDE DEF g
    <3> QED BY <2>2, <2>3 DEF Iterates
  <2> QED BY <2>4
<1> HIDE DEF S
<1>3. Nat \subseteq S
  BY <1>1, <1>2, Induction
<1> QED BY <1>3 DEF S

\* h runs from base through the elements of seq, n of them.
Runs(h, ctx, base, seq, n) ==
  /\ h[0] = base
  /\ \A i \in 1 .. n : h[i] = Op(ctx, h[i - 1], seq[i])

\* A fold is where a run from base through the elements of seq ends.
LEMMA FoldIs ==
  ASSUME NEW n \in Nat, NEW ctx, NEW base, NEW seq, DOMAIN seq = 1 .. n,
         NEW h, Runs(h, ctx, base, seq, n)
  PROVE  Fold(ctx, base, seq) = h[n]
<1> DEFINE f == CHOOSE f : Iterates(f, ctx, base, seq, n)
           S == {k \in Nat : k <= n => f[1 .. k] = h[k]}
<1>1. Fold(ctx, base, seq) = f[1 .. n]
  BY DEF Fold, Iterates
<1>2. Iterates(f, ctx, base, seq, n)
  BY IterationExists
<1> HIDE DEF f
<1>3. 0 \in S
  BY <1>2, Start DEF Runs
<1>4. ASSUME NEW k \in Nat, k \in S PROVE k + 1 \in S
  <2> SUFFICES ASSUME k + 1 <= n PROVE f[1 .. k + 1] = h[k + 1]
    OBVIOUS
  <2>1. k < n /\ k <= n
    OBVIOUS
  <2>2. f[1 .. k + 1] = Op(ctx, f[1 .. k], seq[k + 1])
    BY <1>2, <2>1, Turn
  <2>3. f[1 .. k] = h[k]
    BY <1>4, <2>1
  <2>4. k + 1 \in 1 .. n /\ (k + 1) - 1 = k
    OBVIOUS
  <2>5. h[k + 1] = Op(ctx, h[k], seq[k + 1])
    BY <2>4 DEF Runs
  <2> QED BY <2>2, <2>3, <2>5
<1> HIDE DEF S
<1>5. n \in S
  BY <1>3, <1>4, Induction
<1>6. f[1 .. n] = h[n]
  BY <1>5 DEF S
<1> QED BY <1>1, <1>6

\* Such a run exists.
LEMMA FoldRuns ==
  ASSUME NEW n \in Nat, NEW ctx, NEW base, NEW seq, DOMAIN seq = 1 .. n
  PROVE  \E h : Runs(h, ctx, base, seq, n) /\ h[n] = Fold(ctx, base, seq)
<1>1. PICK f : Iterates(f, ctx, base, seq, n)
  BY IterationExists
<1> DEFINE h == [k \in 0 .. n |-> f[1 .. k]]
<1>2. h[0] = base
  BY <1>1, Start
<1>3. ASSUME NEW i \in 1 .. n PROVE h[i] = Op(ctx, h[i - 1], seq[i])
  <2>1. i - 1 \in Nat /\ i - 1 < n /\ (i - 1) + 1 = i
    OBVIOUS
  <2>2. f[1 .. (i - 1) + 1] = Op(ctx, f[1 .. i - 1], seq[(i - 1) + 1])
    BY <1>1, <2>1, Turn
  <2>3. h[i] = f[1 .. i] /\ h[i - 1] = f[1 .. i - 1]
    BY <2>1
  <2> HIDE DEF h
  <2> QED BY <2>1, <2>2, <2>3
<1> HIDE DEF h
<1>4. Runs(h, ctx, base, seq, n)
  BY <1>2, <1>3 DEF Runs
<1>5. Fold(ctx, base, seq) = h[n]
  BY <1>4, FoldIs
<1> QED BY <1>4, <1>5

LEMMA FoldEmpty ==
  ASSUME NEW ctx, NEW base
  PROVE  Fold(ctx, base, <<>>) = base
<1>1. PICK h : Runs(h, ctx, base, <<>>, 0) /\ h[0] = Fold(ctx, base, <<>>)
  <2>1. DOMAIN <<>> = 1 .. 0
    OBVIOUS
  <2> QED BY <2>1, FoldRuns
<1> QED BY <1>1 DEF Runs

LEMMA FoldAppend ==
  ASSUME NEW S, NEW ctx, NEW base, NEW seq \in Seq(S), NEW e \in S
  PROVE  Fold(ctx, base, Append(seq, e)) = Op(ctx, Fold(ctx, base, seq), e)
<1> DEFINE n == Len(seq)
           longer == Append(seq, e)
<1>1. n \in Nat /\ n + 1 \in Nat /\ DOMAIN seq = 1 .. n /\ DOMAIN longer = 1 .. n + 1
  OBVIOUS
<1>2. longer[n + 1] = e /\ \A i \in 1 .. n : longer[i] = seq[i]
  OBVIOUS
<1> HIDE DEF n, longer
<1>3. PICK h : Runs(h, ctx, base, longer, n + 1) /\ h[n + 1] = Fold(ctx, base, longer)
  BY <1>1, FoldRuns
<1>4. Runs(h, ctx, base, seq, n)
  BY <1>1, <1>2, <1>3 DEF Runs
<1>5. Fold(ctx, base, seq) = h[n]
  BY <1>1, <1>4, FoldIs
<1>6. h[n + 1] = Op(ctx, h[n], e)
  BY <1>1, <1>2, <1>3 DEF Runs
<1> QED BY <1>3, <1>5, <1>6 DEF longer

LEMMA FoldHead ==
  ASSUME NEW S, NEW ctx, NEW base, NEW seq \in Seq(S), seq # <<>>
  PROVE  Fold(ctx, base, seq) = Fold(ctx, Op(ctx, base, Head(seq)), Tail(seq))
<1> DEFINE n == Len(seq)
           m == n - 1
<1>1. /\ n \in Nat /\ m \in Nat /\ n = m + 1
      /\ DOMAIN seq = 1 .. n /\ DOMAIN Tail(seq) = 1 .. m
  OBVIOUS
<1>2. Head(seq) = seq[1] /\ \A i \in 1 .. m : Tail(seq)[i] = seq[i + 1]
  OBVIOUS
<1> HIDE DEF n, m
<1>3. PICK h : Runs(h, ctx, base, seq, n) /\ h[n] = Fold(ctx, base, seq)
  BY <1>1, FoldRuns
<1> DEFINE k == [i \in 0 .. m |-> h[i + 1]]
<1>4. k[0] = Op(ctx, base, Head(seq))
  <2>1. 1 \in 1 .. n /\ 1 - 1 = 0 /\ 0 \in 0 .. m /\ 0 + 1 = 1
    BY <1>1
  <2>2. h[1] = Op(ctx, base, seq[1])
    BY <1>3, <2>1 DEF Runs
  <2> QED BY <1>2, <2>1, <2>2
<1>5. ASSUME NEW i \in 1 .. m PROVE k[i] = Op(ctx, k[i - 1], Tail(seq)[i])
  <2>1. /\ i + 1 \in 1 .. n /\ (i + 1) - 1 = i
        /\ i - 1 \in 0 .. m /\ (i - 1) + 1 = i /\ i \in 0 .. m
    BY <1>1
  <2>2. h[i + 1] = Op(ctx, h[i], seq[i + 1])
    BY <1>3, <2>1 DEF Runs
  <2> QED BY <1>2, <2>1, <2>2
<1>6. k[m] = h[n]
  BY <1>1
<1> HIDE DEF k
<1>7. Runs(k, ctx, Op(ctx, base, Head(seq)), Tail(seq), m)
  BY <1>4, <1>5 DEF Runs
<1>8. Fold(ctx, Op(ctx, base, Head(seq)), Tail(seq)) = k[m]
  BY <1>1, <1>7, FoldIs
<1> QED BY <1>3, <1>6, <1>8

\* What every step of a fold preserves, the fold preserves.
LEMMA FoldStays ==
  ASSUME NEW S, NEW A, NEW ctx, NEW base \in A, NEW seq \in Seq(S),
         \A a \in A, e \in S : Op(ctx, a, e) \in A
  PROVE  Fold(ctx, base, seq) \in A
<1> DEFINE n == Len(seq)
<1>1. n \in Nat /\ DOMAIN seq = 1 .. n /\ \A i \in 1 .. n : seq[i] \in S
  OBVIOUS
<1> HIDE DEF n
<1>2. PICK h : Runs(h, ctx, base, seq, n) /\ h[n] = Fold(ctx, base, seq)
  BY <1>1, FoldRuns
<1> DEFINE T == {k \in Nat : k <= n => h[k] \in A}
<1>3. 0 \in T
  BY <1>2 DEF Runs
<1>4. ASSUME NEW k \in Nat, k \in T PROVE k + 1 \in T
  <2> SUFFICES ASSUME k + 1 <= n PROVE h[k + 1] \in A
    OBVIOUS
  <2>1. k + 1 \in 1 .. n /\ (k + 1) - 1 = k /\ k <= n
    BY <1>1
  <2>2. h[k + 1] = Op(ctx, h[k], seq[k + 1])
    BY <1>2, <2>1 DEF Runs
  <2>3. h[k] \in A
    BY <1>4, <2>1
  <2> QED BY <1>1, <2>1, <2>2, <2>3
<1> HIDE DEF T
<1>5. n \in T
  BY <1>1, <1>3, <1>4, Induction
<1> QED BY <1>1, <1>2, <1>5 DEF T

\* A fold reaches the last of a row of sets when every step leads from one set to
\* the next.
LEMMA FoldReaches ==
  ASSUME NEW n \in Nat, NEW ctx, NEW base, NEW seq, DOMAIN seq = 1 .. n,
         NEW A, base \in A[0],
         \A i \in 1 .. n : \A a \in A[i - 1] : Op(ctx, a, seq[i]) \in A[i]
  PROVE  Fold(ctx, base, seq) \in A[n]
<1>1. PICK h : Runs(h, ctx, base, seq, n) /\ h[n] = Fold(ctx, base, seq)
  BY FoldRuns
<1> DEFINE T == {k \in Nat : k <= n => h[k] \in A[k]}
<1>2. 0 \in T
  BY <1>1 DEF Runs
<1>3. ASSUME NEW k \in Nat, k \in T PROVE k + 1 \in T
  <2> SUFFICES ASSUME k + 1 <= n PROVE h[k + 1] \in A[k + 1]
    OBVIOUS
  <2>1. k + 1 \in 1 .. n /\ (k + 1) - 1 = k /\ k <= n
    OBVIOUS
  <2>2. h[k + 1] = Op(ctx, h[k], seq[k + 1])
    BY <1>1, <2>1 DEF Runs
  <2>3. h[k] \in A[k]
    BY <1>3, <2>1
  <2> QED BY <2>1, <2>2, <2>3
<1> HIDE DEF T
<1>4. n \in T
  BY <1>2, <1>3, Induction
<1> QED BY <1>1, <1>4 DEF T

=============================================================================
