------------------------------- MODULE NlaFold -------------------------------
(***************************************************************************)
(* Induction, and what FoldLeft computes, one element after the other.     *)
(* The theorem modules instantiate this one with the operators that the    *)
(* specifications fold: a theorem with an operator as its parameter could  *)
(* not be cited, the theorems of an instance can.                          *)
(***************************************************************************)
EXTENDS SequencesExt, SequenceTheorems, WellFoundedInduction, TLAPS

CONSTANT op(_, _)

Fold(base, seq) == FoldLeft(op, base, seq)

-----------------------------------------------------------------------------
\* Induction over numbers, for a set in place of a predicate: a number that is
\* not in S would have to be a least one.
LEMMA Induction ==
  ASSUME NEW S, 0 \in S, \A n \in Nat : n \in S => n + 1 \in S
  PROVE  Nat \subseteq S
<1> DEFINE R == OpToRel(<, Nat)
           T == Nat \ S
<1>1. IsWellFoundedOn(R, Nat)
  BY NatLessThanWellFounded, Zenon
<1>2. \A y, x \in Nat : y < x => <<y, x>> \in R
  BY DEF OpToRel
<1> HIDE DEF R
<1>3. ASSUME T # {} PROVE FALSE
  <2>1. PICK x \in T : \A y \in T : ~(<<y, x>> \in R)
    BY <1>1, <1>3, WFMin
  <2>2. x \in Nat \ {0}
    OBVIOUS
  <2>3. x - 1 \in Nat /\ x - 1 < x /\ x = (x - 1) + 1
    BY <2>2
  <2>4. x - 1 \in S
    BY <1>2, <2>1, <2>2, <2>3
  <2> QED BY <2>2, <2>3, <2>4
<1> QED BY <1>3

\* Induction over sequences that grow at the end
LEMMA SeqInduction ==
  ASSUME NEW S, NEW P, << >> \in P,
         \A s \in Seq(S), x \in S : s \in P => Append(s, x) \in P
  PROVE  Seq(S) \subseteq P
<1> DEFINE Ok == {n \in Nat : \A s \in Seq(S) : Len(s) = n => s \in P}
<1>1. 0 \in Ok
  <2>1. \A s \in Seq(S) : Len(s) = 0 => s = << >>
    BY EmptySeq
  <2> QED
    BY <2>1
<1>2. ASSUME NEW n \in Nat, n \in Ok PROVE n + 1 \in Ok
  <2> SUFFICES ASSUME NEW s \in Seq(S), Len(s) = n + 1 PROVE s \in P
    OBVIOUS
  <2>1. s # << >>
    BY EmptySeq
  <2>2. PICK front \in Seq(S), x \in S : s = Append(front, x)
    BY <2>1, SequenceEmptyOrAppend
  <2>3. Len(front) = n
    BY <2>2, AppendProperties, LenProperties
  <2> QED
    BY <1>2, <2>2, <2>3
<1> HIDE DEF Ok
<1>3. Nat \subseteq Ok
  BY <1>1, <1>2, Induction
<1> QED
  BY <1>3, LenProperties DEF Ok

\* Every set of numbers has a least one, if it has any.
LEMMA LeastOfSome ==
  ASSUME NEW s \in SUBSET Nat, s # {}
  PROVE  \E x \in s : \A y \in s : x <= y
<1> DEFINE Ok == {k \in Nat : \A u \in SUBSET Nat :
                    (\E j \in u : j <= k) => \E x \in u : \A y \in u : x <= y}
<1>1. 0 \in Ok
  <2> SUFFICES ASSUME NEW u \in SUBSET Nat, NEW j \in u, j <= 0
               PROVE  \E x \in u : \A y \in u : x <= y
    OBVIOUS
  <2>1. j = 0
    OBVIOUS
  <2> QED
    BY <2>1
<1>2. ASSUME NEW k \in Nat, k \in Ok PROVE k + 1 \in Ok
  <2> SUFFICES ASSUME NEW u \in SUBSET Nat, NEW j \in u, j <= k + 1
               PROVE  \E x \in u : \A y \in u : x <= y
    OBVIOUS
  <2>1. CASE \E i \in u : i <= k
    BY <1>2, <2>1
  <2>2. CASE \A i \in u : ~(i <= k)
    <3>1. j = k + 1 /\ \A i \in u : j <= i
      BY <2>2
    <3> QED
      BY <3>1
  <2> QED
    BY <2>1, <2>2
<1> HIDE DEF Ok
<1>3. Nat \subseteq Ok
  BY <1>1, <1>2, Induction
<1>4. PICK k \in s : TRUE
  OBVIOUS
<1>5. k \in Ok /\ k <= k
  BY <1>3
<1> QED
  BY <1>5 DEF Ok

-----------------------------------------------------------------------------
(* FoldLeft goes through the domain of a sequence from its greatest index  *)
(* down; its recursion is over the subsets of the domain.                  *)

\* Every set of numbers up to n has a greatest one, if it has any.
LEMMA MaxOfSome ==
  ASSUME NEW n \in Nat, NEW s \in SUBSET (1..n), s # {}
  PROVE  Max(s) \in s /\ \A y \in s : y <= Max(s)
<1> DEFINE Ok == {k \in Nat : \A u \in SUBSET (1..k) : u # {} => \E x \in u : \A y \in u : x >= y}
<1>1. 0 \in Ok
  <2>1. \A u \in SUBSET (1..0) : u = {}
    OBVIOUS
  <2> QED
    BY <2>1
<1>2. ASSUME NEW k \in Nat, k \in Ok PROVE k + 1 \in Ok
  <2> SUFFICES ASSUME NEW u \in SUBSET (1..(k + 1)), u # {}
               PROVE  \E x \in u : \A y \in u : x >= y
    OBVIOUS
  <2>1. CASE k + 1 \in u
    BY <2>1
  <2>2. CASE k + 1 \notin u
    <3>1. u \in SUBSET (1..k)
      BY <2>2
    <3> QED
      BY <1>2, <3>1
  <2> QED
    BY <2>1, <2>2
<1> HIDE DEF Ok
<1>3. Nat \subseteq Ok
  BY <1>1, <1>2, Induction
<1> QED
  BY <1>3 DEF Ok, Max

\* The function that FoldLeft chooses
IterationTo(k, base, seq, g) ==
  g = [s \in SUBSET (1..k) |->
         IF s = {} THEN base ELSE op(g[s \ {Max(s)}], seq[Max(s)])]

\* It exists, so that what is chosen satisfies its equation.
LEMMA IterationExists ==
  ASSUME NEW base, NEW seq, NEW n \in Nat
  PROVE  \E g : IterationTo(n, base, seq, g)
<1> DEFINE Ok == {k \in Nat : \E g : IterationTo(k, base, seq, g)}
<1>1. 0 \in Ok
  <2> DEFINE g == [s \in SUBSET (1..0) |-> base]
  <2>1. \A s \in SUBSET (1..0) : s = {}
    OBVIOUS
  <2>2. IterationTo(0, base, seq, g)
    BY <2>1 DEF IterationTo
  <2> HIDE DEF g
  <2> QED
    BY <2>2
<1>2. ASSUME NEW k \in Nat, k \in Ok PROVE k + 1 \in Ok
  <2>1. PICK g : IterationTo(k, base, seq, g)
    BY <1>2
  <2> DEFINE h == [s \in SUBSET (1..(k + 1)) |->
                     IF k + 1 \in s THEN op(g[s \ {k + 1}], seq[k + 1]) ELSE g[s]]
             r == [s \in SUBSET (1..(k + 1)) |->
                     IF s = {} THEN base ELSE op(h[s \ {Max(s)}], seq[Max(s)])]
  <2>2. ASSUME NEW s \in SUBSET (1..(k + 1)) PROVE h[s] = r[s]
    <3>1. CASE k + 1 \in s
      <4>1. Max(s) \in s /\ \A y \in s : y <= Max(s)
        <5>1. k + 1 \in Nat /\ s # {}
          BY <3>1
        <5> QED
          BY <5>1, MaxOfSome
      <4>2. Max(s) = k + 1
        <5>1. Max(s) \in 1..(k + 1) /\ k + 1 <= Max(s)
          BY <3>1, <4>1
        <5> QED
          BY <5>1
      <4>3. s \ {k + 1} \in SUBSET (1..(k + 1)) /\ k + 1 \notin s \ {k + 1}
        OBVIOUS
      <4>4. h[s \ {k + 1}] = g[s \ {k + 1}]
        BY <4>3
      <4> QED
        BY <3>1, <4>2, <4>4
    <3>2. CASE s = {}
      <4>1. s \in SUBSET (1..k) /\ k + 1 \notin s
        BY <3>2
      <4>2. g[s] = base
        BY <2>1, <3>2, <4>1 DEF IterationTo
      <4> QED
        BY <3>2, <4>1, <4>2
    <3>3. CASE s # {} /\ k + 1 \notin s
      <4>1. s \in SUBSET (1..k)
        BY <3>3
      <4>2. s \ {Max(s)} \in SUBSET (1..(k + 1)) /\ k + 1 \notin s \ {Max(s)}
        BY <3>3
      <4>3. h[s \ {Max(s)}] = g[s \ {Max(s)}]
        BY <4>2
      <4>4. g[s] = op(g[s \ {Max(s)}], seq[Max(s)])
        BY <2>1, <3>3, <4>1 DEF IterationTo
      <4> QED
        BY <3>3, <4>3, <4>4
    <3> QED
      BY <3>1, <3>2, <3>3
  <2>3. h = r
    BY <2>2
  <2>4. IterationTo(k + 1, base, seq, h)
    BY <2>3 DEF IterationTo
  <2> HIDE DEF h
  <2> QED
    BY <2>4
<1> HIDE DEF Ok
<1>3. Nat \subseteq Ok
  BY <1>1, <1>2, Induction
<1> QED
  BY <1>3 DEF Ok

\* What g has computed after the first k elements is g[1..k].
Steps(base, seq, g) ==
  /\ g[1..0] = base
  /\ \A k \in Nat : k < Len(seq) => g[1..(k + 1)] = op(g[1..k], seq[k + 1])

\* A fold of a sequence takes these steps.
LEMMA FoldSteps ==
  ASSUME NEW base, NEW S, NEW seq \in Seq(S)
  PROVE  \E g : Steps(base, seq, g) /\ Fold(base, seq) = g[1..Len(seq)]
<1> DEFINE n == Len(seq)
           g == CHOOSE f : IterationTo(n, base, seq, f)
<1>1. n \in Nat /\ DOMAIN seq = 1..n
  BY LenProperties
<1> HIDE DEF n
<1>2. IterationTo(n, base, seq, g)
  BY <1>1, IterationExists
<1>3. Fold(base, seq) = g[1..n]
  BY <1>1 DEF Fold, FoldLeft, MapThenFoldSet, IterationTo
<1> HIDE DEF g
<1>4. g[1..0] = base
  <2>1. 1..0 = {} /\ 1..0 \in SUBSET (1..n)
    BY <1>1
  <2> QED
    BY <1>2, <2>1 DEF IterationTo
<1>5. ASSUME NEW k \in Nat, k < n PROVE g[1..(k + 1)] = op(g[1..k], seq[k + 1])
  <2>1. 1..(k + 1) \in SUBSET (1..n) /\ k + 1 \in 1..(k + 1)
    BY <1>1, <1>5
  <2>2. Max(1..(k + 1)) = k + 1
    <3>1. Max(1..(k + 1)) \in 1..(k + 1) /\ \A y \in 1..(k + 1) : y <= Max(1..(k + 1))
      <4>1. k + 1 \in Nat
        OBVIOUS
      <4>2. k + 1 \in 1..(k + 1)
        OBVIOUS
      <4>3. 1..(k + 1) # {}
        BY <4>2
      <4> QED
        BY <4>1, <4>3, MaxOfSome
    <3> QED
      BY <2>1, <3>1
  <2>3. (1..(k + 1)) \ {k + 1} = 1..k
    OBVIOUS
  <2> QED
    BY <1>2, <2>1, <2>2, <2>3 DEF IterationTo
<1> QED
  BY <1>3, <1>4, <1>5 DEF Steps, n

-----------------------------------------------------------------------------
\* The fold of nothing is the base,
LEMMA FoldEmpty ==
  ASSUME NEW base
  PROVE  Fold(base, << >>) = base
BY FoldSteps, EmptySeq DEF Steps

\* and one element more is one application of op more.
LEMMA FoldAppend ==
  ASSUME NEW base, NEW S, NEW seq \in Seq(S), NEW x \in S
  PROVE  Fold(base, Append(seq, x)) = op(Fold(base, seq), x)
<1> DEFINE n == Len(seq)
           longer == Append(seq, x)
<1>1. /\ n \in Nat /\ longer \in Seq(S) /\ Len(longer) = n + 1 /\ longer[n + 1] = x
      /\ \A i \in 1..n : longer[i] = seq[i]
  BY LenProperties, AppendProperties
<1> HIDE DEF longer, n
<1>2. PICK f : Steps(base, seq, f) /\ Fold(base, seq) = f[1..n]
  BY FoldSteps DEF n
<1>3. PICK g : Steps(base, longer, g) /\ Fold(base, longer) = g[1..(n + 1)]
  BY <1>1, FoldSteps
<1> DEFINE Ok == {k \in Nat : k <= n => g[1..k] = f[1..k]}
<1>4. 0 \in Ok
  BY <1>2, <1>3 DEF Steps
<1>5. ASSUME NEW k \in Nat, k \in Ok PROVE k + 1 \in Ok
  <2> SUFFICES ASSUME k + 1 <= n PROVE g[1..(k + 1)] = f[1..(k + 1)]
    OBVIOUS
  <2>1. k < n /\ k < n + 1 /\ k + 1 \in 1..n /\ g[1..k] = f[1..k]
    BY <1>1, <1>5
  <2> QED
    BY <1>1, <1>2, <1>3, <2>1 DEF Steps, n
<1> HIDE DEF Ok
<1>6. n \in Ok
  BY <1>1, <1>4, <1>5, Induction
<1>7. g[1..n] = f[1..n]
  BY <1>1, <1>6 DEF Ok
<1>8. g[1..(n + 1)] = op(g[1..n], x)
  BY <1>1, <1>3 DEF Steps
<1> QED
  BY <1>2, <1>3, <1>7, <1>8 DEF longer

-----------------------------------------------------------------------------
(* The same operation over and over, as a recursive function counts it.    *)

Rounds(n, base, x, f) == f = [i \in 0..n |-> IF i = 0 THEN base ELSE op(f[i - 1], x)]

\* The function exists.
LEMMA RoundsExist ==
  ASSUME NEW n \in Nat, NEW base, NEW x
  PROVE  \E f : Rounds(n, base, x, f)
<1> DEFINE Ok == {k \in Nat : \E f : Rounds(k, base, x, f)}
<1>1. 0 \in Ok
  <2> DEFINE f == [i \in 0..0 |-> base]
  <2>1. \A i \in 0..0 : i = 0
    OBVIOUS
  <2>2. Rounds(0, base, x, f)
    BY <2>1 DEF Rounds
  <2> HIDE DEF f
  <2> QED
    BY <2>2
<1>2. ASSUME NEW k \in Nat, k \in Ok PROVE k + 1 \in Ok
  <2>1. PICK f : Rounds(k, base, x, f)
    BY <1>2
  <2> DEFINE h == [i \in 0..(k + 1) |-> IF i = k + 1 THEN op(f[k], x) ELSE f[i]]
             r == [i \in 0..(k + 1) |-> IF i = 0 THEN base ELSE op(h[i - 1], x)]
  <2>2. ASSUME NEW i \in 0..(k + 1) PROVE h[i] = r[i]
    <3>1. CASE i = 0
      <4>1. 0 # k + 1 /\ 0 \in 0..k
        OBVIOUS
      <4> QED
        BY <2>1, <3>1, <4>1 DEF Rounds
    <3>2. CASE i # 0
      <4>1. i - 1 \in 0..(k + 1) /\ i - 1 # k + 1
        BY <3>2
      <4>2. h[i - 1] = f[i - 1]
        BY <4>1
      <4>3. CASE i = k + 1
        <5>1. i - 1 = k
          BY <4>3
        <5> QED
          BY <3>2, <4>2, <4>3, <5>1
      <4>4. CASE i # k + 1
        <5>1. i \in 0..k
          BY <4>4
        <5>2. f[i] = op(f[i - 1], x)
          BY <2>1, <3>2, <5>1 DEF Rounds
        <5> QED
          BY <3>2, <4>2, <4>4, <5>2
      <4> QED
        BY <4>3, <4>4
    <3> QED
      BY <3>1, <3>2
  <2>3. h = r
    BY <2>2
  <2>4. Rounds(k + 1, base, x, h)
    BY <2>3 DEF Rounds
  <2> HIDE DEF h
  <2> QED
    BY <2>4
<1> HIDE DEF Ok
<1>3. Nat \subseteq Ok
  BY <1>1, <1>2, Induction
<1> QED
  BY <1>3 DEF Ok

-----------------------------------------------------------------------------
(* FlattenSeq, the fold that sticks sequences together.                    *)

\* The function that FlattenSeq chooses
Flattening(s, f) ==
  f = [i \in 1..Len(s) |-> IF i = 1 THEN s[i] ELSE f[i - 1] \o s[i]]

\* It exists as well.
LEMMA FlatteningExists ==
  ASSUME NEW S
  PROVE  \A s \in Seq(S) : \E f : Flattening(s, f)
<1> DEFINE P == {s \in Seq(S) : \E f : Flattening(s, f)}
<1>1. << >> \in P
  <2> DEFINE f == [i \in 1..0 |-> << >>]
  <2>1. Len(<< >>) = 0 /\ \A i : i \notin 1..0
    OBVIOUS
  <2>2. Flattening(<< >>, f)
    BY <2>1 DEF Flattening
  <2> HIDE DEF f
  <2> QED
    BY <2>2
<1>2. ASSUME NEW s \in Seq(S), NEW x \in S, s \in P PROVE Append(s, x) \in P
  <2> DEFINE n == Len(s)
             t == Append(s, x)
  <2>1. /\ n \in Nat /\ t \in Seq(S) /\ Len(t) = n + 1 /\ t[n + 1] = x
        /\ \A i \in 1..n : t[i] = s[i]
    BY LenProperties, AppendProperties
  <2>2. PICK f : Flattening(s, f)
    BY <1>2
  <2> HIDE DEF n, t
  <2> DEFINE g == [i \in 1..(n + 1) |-> IF i \in 1..n THEN f[i]
                                       ELSE IF i = 1 THEN x ELSE f[i - 1] \o x]
             h == [i \in 1..(n + 1) |-> IF i = 1 THEN t[i] ELSE g[i - 1] \o t[i]]
  <2>3. ASSUME NEW i \in 1..(n + 1) PROVE g[i] = h[i]
    <3>1. i = 1 \/ i - 1 \in 1..n
      BY <2>1
    <3>2. i \in 1..n \/ i = n + 1
      BY <2>1
    <3>3. CASE i \in 1..n
      <4>1. f[i] = IF i = 1 THEN s[i] ELSE f[i - 1] \o s[i]
        BY <2>2, <3>3 DEF Flattening, n
      <4> QED
        BY <2>1, <3>1, <3>3, <4>1
    <3>4. CASE i = n + 1
      <4>1. i \notin 1..n
        BY <2>1, <3>4
      <4> QED
        BY <2>1, <3>1, <3>4, <4>1
    <3> QED
      BY <3>2, <3>3, <3>4
  <2>4. g = h
    BY <2>3
  <2>5. Flattening(t, g)
    BY <2>1, <2>4 DEF Flattening
  <2> HIDE DEF g
  <2> QED
    BY <2>1, <2>5 DEF t
<1> HIDE DEF P
<1>3. Seq(S) \subseteq P
  BY <1>1, <1>2, SeqInduction
<1> QED
  BY <1>3 DEF P

\* One sequence more comes behind what the others make.
LEMMA FlattenAppend ==
  ASSUME NEW S, NEW s \in Seq(Seq(S)), NEW x \in Seq(S)
  PROVE  FlattenSeq(Append(s, x)) = FlattenSeq(s) \o x
<1> DEFINE n == Len(s)
           t == Append(s, x)
           f == CHOOSE u : Flattening(s, u)
           g == CHOOSE u : Flattening(t, u)
<1>1. /\ n \in Nat /\ t \in Seq(Seq(S)) /\ Len(t) = n + 1 /\ t[n + 1] = x
      /\ \A i \in 1..n : t[i] = s[i]
  BY LenProperties, AppendProperties
<1>2. Flattening(s, f) /\ Flattening(t, g)
  BY <1>1, FlatteningExists
<1>3. FlattenSeq(s) = IF n = 0 THEN s ELSE f[n]
  BY DEF FlattenSeq, Flattening
<1>4. FlattenSeq(t) = IF Len(t) = 0 THEN t ELSE g[Len(t)]
  BY DEF FlattenSeq, Flattening
<1> HIDE DEF f, g, t, n
<1> DEFINE Ok == {k \in Nat : k \in 1..n => g[k] = f[k]}
<1>5. 0 \in Ok
  OBVIOUS
<1>6. ASSUME NEW k \in Nat, k \in Ok PROVE k + 1 \in Ok
  <2> SUFFICES ASSUME k + 1 \in 1..n PROVE g[k + 1] = f[k + 1]
    OBVIOUS
  <2>1. k + 1 \in 1..(n + 1) /\ (k + 1) - 1 = k /\ (k + 1 = 1 \/ k \in 1..n)
    BY <1>1
  <2>2. f[k + 1] = IF k + 1 = 1 THEN s[k + 1] ELSE f[(k + 1) - 1] \o s[k + 1]
    BY <1>2 DEF Flattening, n
  <2>3. g[k + 1] = IF k + 1 = 1 THEN t[k + 1] ELSE g[(k + 1) - 1] \o t[k + 1]
    BY <1>1, <1>2, <2>1 DEF Flattening
  <2> QED
    BY <1>1, <1>6, <2>1, <2>2, <2>3
<1> HIDE DEF Ok
<1>7. n \in Ok
  BY <1>1, <1>5, <1>6, Induction
<1>8. g[n + 1] = IF n + 1 = 1 THEN x ELSE g[(n + 1) - 1] \o x
  <2>1. n + 1 \in 1..Len(t)
    BY <1>1
  <2>2. g[n + 1] = IF n + 1 = 1 THEN t[n + 1] ELSE g[(n + 1) - 1] \o t[n + 1]
    BY <1>2, <2>1 DEF Flattening
  <2> QED
    BY <1>1, <2>2
<1>9. CASE n = 0
  <2>1. s = << >>
    BY <1>9, EmptySeq DEF n
  <2>2. FlattenSeq(t) = x /\ FlattenSeq(s) = << >>
    BY <1>1, <1>3, <1>4, <1>8, <1>9, <2>1
  <2> QED
    BY <2>2, ConcatEmptySeq DEF t
<1>10. CASE n # 0
  <2>1. g[n] = f[n] /\ n + 1 # 1 /\ (n + 1) - 1 = n
    BY <1>1, <1>7, <1>10 DEF Ok
  <2>2. FlattenSeq(t) = g[n + 1] /\ g[n + 1] = g[n] \o x
    <3>1. n + 1 # 0
      BY <1>1
    <3> QED
      BY <1>1, <1>4, <1>8, <2>1, <3>1
  <2>3. FlattenSeq(s) = f[n]
    BY <1>3, <1>10
  <2> QED
    BY <2>1, <2>2, <2>3 DEF t
<1> QED
  BY <1>9, <1>10

\* What is made of sequences over S is one,
LEMMA FlattenSeqType ==
  ASSUME NEW S, NEW s \in Seq(Seq(S))
  PROVE  FlattenSeq(s) \in Seq(S)
<1> DEFINE P == {t \in Seq(Seq(S)) : FlattenSeq(t) \in Seq(S)}
<1>1. << >> \in P
  BY DEF FlattenSeq
<1>2. ASSUME NEW t \in Seq(Seq(S)), NEW x \in Seq(S), t \in P PROVE Append(t, x) \in P
  BY <1>2, FlattenAppend, ConcatProperties, AppendProperties
<1> HIDE DEF P
<1>3. s \in P
  BY <1>1, <1>2, SeqInduction
<1> QED
  BY <1>3 DEF P

\* and begins with the first of them.
LEMMA FlattenFacts ==
  ASSUME NEW S, NEW s \in Seq(Seq(S))
  PROVE  /\ FlattenSeq(<< >>) = << >>
         /\ FlattenSeq(s) \in Seq(S)
         /\ s # << >> => FlattenSeq(s) = Head(s) \o FlattenSeq(Tail(s))
<1> DEFINE P == {t \in Seq(Seq(S)) :
                   /\ FlattenSeq(t) \in Seq(S)
                   /\ t # << >> => FlattenSeq(t) = Head(t) \o FlattenSeq(Tail(t))}
<1>1. FlattenSeq(<< >>) = << >>
  BY DEF FlattenSeq
<1>2. << >> \in P
  <2>1. << >> \in Seq(S) /\ << >> \in Seq(Seq(S))
    OBVIOUS
  <2> QED
    BY <1>1, <2>1
<1>3. ASSUME NEW t \in Seq(Seq(S)), NEW x \in Seq(S), t \in P PROVE Append(t, x) \in P
  <2>1. FlattenSeq(Append(t, x)) = FlattenSeq(t) \o x
    BY FlattenAppend
  <2>2. FlattenSeq(t) \in Seq(S)
    BY <1>3
  <2>3. FlattenSeq(Append(t, x)) \in Seq(S) /\ Append(t, x) \in Seq(Seq(S))
    BY <2>1, <2>2, ConcatProperties, AppendProperties
  <2>4. CASE t = << >>
    <3>1. Head(Append(t, x)) = x /\ Tail(Append(t, x)) = << >>
      BY <2>4, HeadTailAppend
    <3>2. FlattenSeq(Append(t, x)) = x /\ x \o << >> = x
      BY <1>1, <2>1, <2>4, ConcatEmptySeq
    <3> QED
      BY <1>1, <2>3, <3>1, <3>2
  <2>5. CASE t # << >>
    <3>1. Head(Append(t, x)) = Head(t) /\ Tail(Append(t, x)) = Append(Tail(t), x)
      BY <2>5, HeadTailAppend
    <3>2. Head(t) \in Seq(S) /\ Tail(t) \in Seq(Seq(S))
      BY <2>5, HeadTailProperties
    <3>3. FlattenSeq(Append(Tail(t), x)) = FlattenSeq(Tail(t)) \o x
      BY <3>2, FlattenAppend
    <3>4. FlattenSeq(t) = Head(t) \o FlattenSeq(Tail(t))
      BY <1>3, <2>5
    <3>5. FlattenSeq(Tail(t)) \in Seq(S)
      BY <2>2, <3>2, <3>4, FlattenSeqType
    <3>6. (Head(t) \o FlattenSeq(Tail(t))) \o x = Head(t) \o (FlattenSeq(Tail(t)) \o x)
      <4> DEFINE a == Head(t)
                 b == FlattenSeq(Tail(t))
      <4>1. a \in Seq(S) /\ b \in Seq(S)
        BY <3>2, <3>5
      <4> HIDE DEF P, a, b
      <4>2. (a \o b) \o x = a \o (b \o x)
        BY <4>1, ConcatAssociative, SMTT(30)
      <4> QED
        BY <4>2 DEF a, b
    <3> QED
      BY <2>1, <2>3, <3>1, <3>3, <3>4, <3>6
  <2> QED
    BY <2>4, <2>5
<1> HIDE DEF P
<1>4. s \in P
  BY <1>2, <1>3, SeqInduction
<1> QED
  BY <1>1, <1>4 DEF P

-----------------------------------------------------------------------------
\* A sequence that grows at the end of another
LEMMA ConcatAppend ==
  ASSUME NEW S, NEW s \in Seq(S), NEW t \in Seq(S), NEW x \in S
  PROVE  /\ s \o << >> = s
         /\ s \o t \in Seq(S)
         /\ s \o Append(t, x) = Append(s \o t, x)
<1>1. <<x>> \in Seq(S) /\ s \o t \in Seq(S)
  BY ConcatProperties
<1>2. s \o Append(t, x) = Append(s \o t, x)
  BY <1>1, AppendIsConcat, ConcatAssociative
<1> QED
  BY <1>1, <1>2, ConcatEmptySeq

\* A fold goes on where the fold of the first part ends.
LEMMA FoldConcat ==
  ASSUME NEW base, NEW S, NEW s \in Seq(S), NEW t \in Seq(S)
  PROVE  Fold(base, s \o t) = Fold(Fold(base, s), t)
<1> DEFINE P == {u \in Seq(S) : Fold(base, s \o u) = Fold(Fold(base, s), u)}
<1>1. << >> \in P
  <2>1. << >> \in Seq(S) /\ s \o << >> = s
    BY ConcatEmptySeq
  <2> QED
    BY <2>1, FoldEmpty
<1>2. ASSUME NEW u \in Seq(S), NEW x \in S, u \in P PROVE Append(u, x) \in P
  <2>1. s \o u \in Seq(S) /\ s \o Append(u, x) = Append(s \o u, x) /\ Append(u, x) \in Seq(S)
    BY ConcatAppend, AppendProperties
  <2> HIDE DEF P
  <2>2. Fold(base, Append(s \o u, x)) = op(Fold(base, s \o u), x)
    <3> DEFINE long == s \o u
    <3>1. long \in Seq(S)
      BY <2>1
    <3> HIDE DEF long
    <3>2. Fold(base, Append(long, x)) = op(Fold(base, long), x)
      BY <3>1, FoldAppend
    <3> QED
      BY <3>2 DEF long
  <2>3. Fold(Fold(base, s), Append(u, x)) = op(Fold(Fold(base, s), u), x)
    <3> DEFINE mid == Fold(base, s)
    <3> HIDE DEF mid
    <3>1. Fold(mid, Append(u, x)) = op(Fold(mid, u), x)
      BY FoldAppend
    <3> QED
      BY <3>1 DEF mid
  <2> QED
    BY <1>2, <2>1, <2>2, <2>3 DEF P
<1> HIDE DEF P
<1>3. t \in P
  BY <1>1, <1>2, SeqInduction
<1> QED
  BY <1>3 DEF P

\* The elements of a sequence that grows at the end
LEMMA ToSetAppend ==
  ASSUME NEW S, NEW s \in Seq(S), NEW x \in S
  PROVE  ToSet(<< >>) = {} /\ ToSet(Append(s, x)) = ToSet(s) \cup {x}
<1> DEFINE t == Append(s, x)
<1>1. /\ Len(t) = Len(s) + 1 /\ t[Len(s) + 1] = x
      /\ \A i \in 1..Len(s) : t[i] = s[i]
      /\ Len(s) \in Nat /\ t \in Seq(S)
  BY AppendProperties, LenProperties
<1>2. /\ DOMAIN s = 1..Len(s) /\ DOMAIN t = 1..(Len(s) + 1)
      /\ 1..(Len(s) + 1) = (1..Len(s)) \cup {Len(s) + 1}
  BY <1>1, LenProperties
<1> HIDE DEF t
<1>3. ToSet(t) = ToSet(s) \cup {x}
  <2>1. ToSet(t) = {t[i] : i \in 1..(Len(s) + 1)} /\ ToSet(s) = {s[i] : i \in 1..Len(s)}
    BY <1>2 DEF ToSet
  <2>2. ASSUME NEW i \in 1..(Len(s) + 1) PROVE t[i] \in {s[j] : j \in 1..Len(s)} \cup {x}
    <3>1. CASE i = Len(s) + 1
      BY <1>1, <3>1
    <3>2. CASE i \in 1..Len(s)
      BY <1>1, <3>2
    <3> QED
      BY <1>2, <3>1, <3>2
  <2>3. ASSUME NEW i \in 1..Len(s) PROVE s[i] \in {t[j] : j \in 1..(Len(s) + 1)}
    <3>1. i \in 1..(Len(s) + 1) /\ t[i] = s[i]
      BY <1>1, <1>2
    <3> QED
      BY <3>1
  <2>4. x \in {t[j] : j \in 1..(Len(s) + 1)}
    <3>1. Len(s) + 1 \in 1..(Len(s) + 1)
      BY <1>2
    <3> QED
      BY <1>1, <3>1
  <2> QED
    BY <2>1, <2>2, <2>3, <2>4
<1>4. ToSet(<< >>) = {}
  BY DEF ToSet
<1> QED
  BY <1>3, <1>4 DEF t

\* What op makes of the elements, one behind the other
Mapped(a, seq) == FlattenSeq([i \in DOMAIN seq |-> op(a, seq[i])])

\* One element more adds what op makes of it.
LEMMA MappedAppend ==
  ASSUME NEW a, NEW S, NEW T, \A x \in S : op(a, x) \in Seq(T)
  PROVE  /\ Mapped(a, << >>) = << >>
         /\ \A s \in Seq(S) : Mapped(a, s) \in Seq(T)
         /\ \A s \in Seq(S), x \in S : Mapped(a, Append(s, x)) = Mapped(a, s) \o op(a, x)
<1> DEFINE parts(s) == [i \in 1..Len(s) |-> op(a, s[i])]
<1>1. ASSUME NEW s \in Seq(S)
      PROVE  /\ Mapped(a, s) = FlattenSeq(parts(s))
             /\ parts(s) \in Seq(Seq(T)) /\ Len(parts(s)) = Len(s)
  <2>1. Len(s) \in Nat /\ DOMAIN s = 1..Len(s) /\ \A i \in 1..Len(s) : s[i] \in S
    BY LenProperties, ElementOfSeq
  <2>2. \A i \in 1..Len(s) : op(a, s[i]) \in Seq(T)
    BY <2>1
  <2>3. parts(s) \in Seq(Seq(T)) /\ Len(parts(s)) = Len(s)
    BY <2>1, <2>2
  <2> QED
    BY <2>1, <2>3 DEF Mapped
<1>2. Mapped(a, << >>) = << >>
  <2>1. << >> \in Seq(S) /\ parts(<< >>) = << >> /\ << >> \in Seq(Seq(T))
    OBVIOUS
  <2> QED
    BY <1>1, <2>1, FlattenFacts
<1>3. ASSUME NEW s \in Seq(S) PROVE Mapped(a, s) \in Seq(T)
  BY <1>1, FlattenSeqType
<1>4. ASSUME NEW s \in Seq(S), NEW x \in S
      PROVE  Mapped(a, Append(s, x)) = Mapped(a, s) \o op(a, x)
  <2> DEFINE t == Append(s, x)
             n == Len(s)
             y == op(a, x)
             u == Append(parts(s), y)
             longer == parts(t)
  <2>1. /\ t \in Seq(S) /\ Len(t) = n + 1 /\ t[n + 1] = x /\ n \in Nat
        /\ \A i \in 1..n : t[i] = s[i]
    BY AppendProperties, LenProperties
  <2>2. y \in Seq(T) /\ parts(s) \in Seq(Seq(T)) /\ Len(parts(s)) = n
    BY <1>1
  <2>3. \A i \in 1..n : parts(s)[i] = op(a, s[i])
    OBVIOUS
  <2>4. longer \in Seq(Seq(T)) /\ Len(longer) = n + 1
    BY <1>1, <2>1
  <2>5. \A i \in 1..(n + 1) : longer[i] = op(a, t[i])
    BY <2>1
  <2> HIDE DEF parts, t, n, y, longer
  <2>6. /\ u \in Seq(Seq(T)) /\ Len(u) = n + 1 /\ u[n + 1] = y
        /\ \A i \in 1..n : u[i] = parts(s)[i]
    BY <2>2, AppendProperties
  <2> HIDE DEF u
  <2>7. \A i \in 1..(n + 1) : longer[i] = u[i]
    <3>1. \A i \in 1..(n + 1) : i = n + 1 \/ i \in 1..n
      BY <2>1
    <3> QED
      BY <2>1, <2>3, <2>5, <2>6, <3>1 DEF y
  <2>8. longer = u
    BY <2>4, <2>6, <2>7, SeqEqual
  <2>9. FlattenSeq(u) = FlattenSeq(parts(s)) \o y
    BY <2>2, FlattenAppend DEF u
  <2> QED
    BY <1>1, <2>1, <2>8, <2>9 DEF longer, t, y
<1> HIDE DEF parts
<1> QED
  BY <1>2, <1>3, <1>4

=============================================================================
