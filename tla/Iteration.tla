----------------------------- MODULE Iteration -----------------------------
(***************************************************************************)
(* What FoldLeft computes, as a sequence of values: the first is the base, *)
(* each next one is that of Op and one more element.  The parser goes      *)
(* through the words of a line, and the signs of a bar, with FoldLeft; its *)
(* definition, a recursive function on sets of indexes, is unfolded here   *)
(* once, for any operator.                                                 *)
(***************************************************************************)
EXTENDS Integers, Sequences, SequencesExt, WellFoundedInduction, FiniteSetTheorems, TLAPS

(* The first three arguments are what stays the same during a fold. *)
CONSTANT Op(_, _, _, _, _)

Iterated(b, c, d, base, seq) == FoldLeft(LAMBDA a, e : Op(b, c, d, a, e), base, seq)
-----------------------------------------------------------------------------
(* Induction, for a set of numbers instead of a predicate: the parser goes *)
(* through the words of a line one by one.                                 *)
LEMMA SetInduction ==
  ASSUME NEW T \in SUBSET Nat, 0 \in T, \A n \in T : n + 1 \in T
  PROVE  T = Nat
<1> DEFINE R == OpToRel(<, Nat)
<1>1. IsWellFoundedOn(R, Nat)
  BY NatLessThanWellFounded DEF OpToRel
<1>2. SUFFICES ASSUME Nat \ T # {} PROVE FALSE
  OBVIOUS
<1>3. PICK x \in Nat \ T : \A y \in Nat \ T : <<y, x>> \notin R
  <2> HIDE DEF R
  <2> QED BY <1>1, <1>2, WFMin
<1>4. \A y \in Nat \ T : ~(y < x)
  BY <1>3 DEF OpToRel
<1>5. x # 0 
  OBVIOUS
<1> QED
  BY <1>4, <1>5

(* The index that is added last is the one FoldLeft takes off first.       *)
LEMMA TopOf ==
  ASSUME NEW n \in Nat, NEW s \in SUBSET (1 .. n + 1), n + 1 \in s
  PROVE  Max(s) = n + 1
<1>1. n + 1 \in s /\ \A y \in s : n + 1 >= y
  OBVIOUS
<1>2. \A x \in s : (\A y \in s : x >= y) => x = n + 1
  BY <1>1
<1> QED
  BY <1>1, <1>2 DEF Max

(* A set of indexes has a largest one.                                     *)
LEMMA MaxIsIn ==
  ASSUME NEW n \in Nat, NEW s \in SUBSET (1 .. n), s # {}
  PROVE  Max(s) \in s /\ s \ {Max(s)} \in SUBSET (1 .. n)
<1>2. \E x \in s : \A y \in s : x >= y
  <2> DEFINE T == {k \in Nat : s \cap (1 .. k) # {} => \E x \in s \cap (1 .. k) : \A y \in s \cap (1 .. k) : x >= y}
  <2>1. 0 \in T
    OBVIOUS
  <2>2. ASSUME NEW k \in T PROVE k + 1 \in T
    <3>1. CASE k + 1 \in s
      BY <3>1
    <3>2. CASE k + 1 \notin s
      <4>1. s \cap (1 .. k + 1) = s \cap (1 .. k)
        BY <3>2
      <4> QED BY <4>1
    <3> QED BY <3>1, <3>2
  <2>0. T \in SUBSET Nat
    OBVIOUS
  <2>3. T = Nat
    <3> HIDE DEF T
    <3> QED BY <2>0, <2>1, <2>2, SetInduction
  <2>4. n \in T
    BY <2>3
  <2>5. s \cap (1 .. n) = s
    OBVIOUS
  <2> QED BY <2>4, <2>5
<1> QED
  BY <1>2 DEF Max

(* The sets of indexes that FoldLeft comes through are 1 .. i.             *)
LEMMA FirstNumbers ==
  ASSUME NEW i \in Nat, i # 0
  PROVE  /\ Max(1 .. i) = i
         /\ (1 .. i) \ {i} = 1 .. (i - 1)
         /\ 1 .. i # {}
<1>1. i - 1 \in Nat /\ (i - 1) + 1 = i /\ i \in 1 .. i /\ 1 .. i \in SUBSET (1 .. i)
  OBVIOUS
<1>2. Max(1 .. i) = i
  <2> DEFINE n == i - 1
             s == 1 .. i
  <2>1. n \in Nat /\ s \in SUBSET (1 .. n + 1) /\ n + 1 \in s /\ n + 1 = i
    BY <1>1
  <2> HIDE DEF n, s
  <2>2. Max(s) = n + 1
    BY <2>1, TopOf
  <2> QED
    BY <2>1, <2>2 DEF s
<1>3. (1 .. i) \ {i} = 1 .. (i - 1)
  <2>1. \A x : x \in (1 .. i) \ {i} <=> x \in 1 .. (i - 1)
    OBVIOUS
  <2> QED
    BY <2>1
<1> QED
  BY <1>1, <1>2, <1>3

(* The fold of the words or signs of a line, step by step.                 *)
LEMMA FoldUnfolds ==
  ASSUME NEW b, NEW c, NEW d, NEW base, NEW seq, DOMAIN seq = 1 .. Len(seq), Len(seq) \in Nat
  PROVE  \E f : /\ f[0] = base
                /\ \A i \in 1 .. Len(seq) : f[i] = Op(b, c, d, f[i-1], seq[i])
                /\ Iterated(b, c, d, base, seq) = f[Len(seq)]
<1> DEFINE N == Len(seq)
           Step(g, s) == IF s = {} THEN base ELSE Op(b, c, d, g[s \ {Max(s)}], seq[Max(s)])
           Good(n, g) == g = [s \in SUBSET (1 .. n) |-> Step(g, s)]
           iter == CHOOSE g : Good(N, g)
<1>1. Iterated(b, c, d, base, seq) = iter[1 .. N]
  BY DEF Iterated, FoldLeft, MapThenFoldSet
<1>2. \E g : Good(0, g)
  <2> DEFINE g == [s \in SUBSET (1 .. 0) |-> base]
  <2>1. \A s \in SUBSET (1 .. 0) : s = {}
    OBVIOUS
  <2>2. g = [s \in SUBSET (1 .. 0) |-> Step(g, s)]
    BY <2>1
  <2> QED BY <2>2
<1>3. ASSUME NEW n \in Nat, NEW g, Good(n, g)
      PROVE  \E h : Good(n + 1, h)
  <2> DEFINE Old(s) == IF n + 1 \in s THEN Op(b, c, d, g[s \ {n + 1}], seq[n + 1]) ELSE g[s]
             h == [s \in SUBSET (1 .. n + 1) |-> Old(s)]
  <2>1. ASSUME NEW s \in SUBSET (1 .. n + 1) PROVE h[s] = Step(h, s)
    <3>0. h[s] = Old(s)
      OBVIOUS
    <3>1. CASE n + 1 \in s
      <4>1. Max(s) = n + 1
        BY <3>1, TopOf
      <4>2. s \ {n + 1} \in SUBSET (1 .. n + 1) /\ n + 1 \notin s \ {n + 1}
        OBVIOUS
      <4>3. h[s \ {n + 1}] = g[s \ {n + 1}]
        BY <4>2
      <4>4. s # {}
        BY <3>1
      <4> QED BY <3>0, <3>1, <4>1, <4>3, <4>4
    <3>2. CASE n + 1 \notin s
      <4>1. s \in SUBSET (1 .. n)
        BY <3>2
      <4>2. g[s] = Step(g, s)
        BY <4>1, <1>3
      <4>3. CASE s = {}
        BY <4>2, <4>3, <3>0, <3>2
      <4>4. CASE s # {}
        <5>1. s \ {Max(s)} \in SUBSET (1 .. n)
          BY <4>1, <4>4, MaxIsIn
        <5>2. s \ {Max(s)} \in SUBSET (1 .. n + 1) /\ n + 1 \notin s \ {Max(s)}
          BY <5>1
        <5>3. h[s \ {Max(s)}] = g[s \ {Max(s)}]
          BY <5>2
        <5> QED BY <4>2, <4>4, <5>3, <3>0, <3>2
      <4> QED BY <4>3, <4>4
    <3> QED BY <3>1, <3>2
  <2>2. h = [s \in SUBSET (1 .. n + 1) |-> h[s]]
    OBVIOUS
  <2>3. Good(n + 1, h)
    <3> HIDE DEF h, Step
    <3> QED BY <2>1, <2>2
  <2> QED BY <2>3
<1>4. \E g : Good(N, g)
  <2> DEFINE T == {n \in Nat : \E g : Good(n, g)}
  <2> HIDE DEF Good
  <2>1. 0 \in T
    BY <1>2
  <2>2. \A n \in T : n + 1 \in T
    BY <1>3
  <2>0. T \in SUBSET Nat
    OBVIOUS
  <2>3. T = Nat
    <3> HIDE DEF T
    <3> QED BY <2>0, <2>1, <2>2, SetInduction
  <2> QED BY <2>3
<1>5. Good(N, iter)
  <2> HIDE DEF Good
  <2> QED BY <1>4
<1> DEFINE f == [i \in 0 .. N |-> iter[1 .. i]]
<1>6. f[0] = base
  <2>1. 1 .. 0 = {}
    OBVIOUS
  <2>2. {} \in SUBSET (1 .. N)
    OBVIOUS
  <2>3. iter[{}] = Step(iter, {})
    BY <1>5, <2>2
  <2> HIDE DEF iter
  <2> QED BY <2>1, <2>3
<1>7. ASSUME NEW i \in 1 .. N PROVE f[i] = Op(b, c, d, f[i - 1], seq[i])
  <2>1. 1 .. i \in SUBSET (1 .. N)
    OBVIOUS
  <2>2. iter[1 .. i] = Step(iter, 1 .. i)
    BY <1>5, <2>1
  <2>3. Max(1 .. i) = i
    BY FirstNumbers, i \in Nat, i # 0
  <2>4. /\ (1 .. i) \ {i} = 1 .. (i - 1)
        /\ 1 .. i # {}
    BY FirstNumbers, i \in Nat, i # 0
  <2>5. iter[1 .. i] = Op(b, c, d, iter[1 .. (i - 1)], seq[i])
    BY <2>2, <2>3, <2>4
  <2>6. i \in 0 .. N /\ i - 1 \in 0 .. N
    OBVIOUS
  <2> HIDE DEF iter, N
  <2> QED BY <2>5, <2>6
<1>8. N \in 0 .. N
  OBVIOUS
<1>9. Iterated(b, c, d, base, seq) = f[N]
  <2> HIDE DEF iter
  <2> QED BY <1>1, <1>8
<1> HIDE DEF f
<1> QED
  BY <1>6, <1>7, <1>9

(* The same for all arguments at once, as an instance of this module names *)
(* it: what a line of the song does is the sequence of what its words do.  *)
THEOREM Unfolds ==
  \A b, c, d, base, seq :
    DOMAIN seq = 1 .. Len(seq) /\ Len(seq) \in Nat =>
      \E f : /\ f[0] = base
             /\ \A i \in 1 .. Len(seq) : f[i] = Op(b, c, d, f[i - 1], seq[i])
             /\ Iterated(b, c, d, base, seq) = f[Len(seq)]
BY FoldUnfolds
=============================================================================
