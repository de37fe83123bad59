---------------------------- MODULE SequenceFolds ----------------------------
(***************************************************************************)
(* Induction along a fold.  FoldLeft is defined by a function on all sets  *)
(* of positions, chosen as the one that satisfies a recursive equation; it *)
(* is shown here that there is one, for any operation, and what a property *)
(* that each step keeps says of the result.  The operation and the         *)
(* property are constants of this module, to be given by INSTANCE.  It     *)
(* models no code.                                                         *)
(***************************************************************************)
EXTENDS Integers, Sequences, SequencesExt, WellFoundedInduction, TLAPS

CONSTANTS
    Op(_, _),       \* what the fold does with a result and the next element
    Inv(_, _, _)    \* of the sequence, how far it has been folded, and the result

\* What is said of FoldLeft() is said of this, for the sake of the provers,
\* which have no notion of an operator that is an argument.
Result(base, s) == FoldLeft(Op, base, s)

-----------------------------------------------------------------------------
(* Induction over the natural numbers, with sets in place of predicates. *)

\* A set of numbers that is not empty has a least one.
LEMMA LeastNumber ==
    ASSUME NEW T \in SUBSET Nat, T # {}
    PROVE  \E x \in T : \A y \in T : x <= y
<1>1. IsWellFoundedOn(OpToRel(<, Nat), Nat)
  BY NatLessThanWellFounded
<1>2. PICK x \in T : \A y \in T : ~ (<<y, x>> \in OpToRel(<, Nat))
  BY <1>1, WFMin
<1>3. \A y \in Nat : <<y, x>> \in OpToRel(<, Nat) <=> y < x
  BY DEF OpToRel
<1>4. \A y \in T : ~(y < x)
  BY <1>2, <1>3
<1>5. \A y \in T : x <= y
  BY <1>4
<1>. QED
  BY <1>5

\* A set that has zero, and with a number its successor, has all of them.
LEMMA InductiveSet ==
    ASSUME NEW T, 0 \in T, \A n \in Nat : n \in T => n + 1 \in T
    PROVE  \A n \in Nat : n \in T
<1>1. SUFFICES ASSUME Nat \ T # {} PROVE FALSE
  OBVIOUS
<1>2. PICK x \in Nat \ T : \A y \in Nat \ T : x <= y
  BY <1>1, LeastNumber, Nat \ T \subseteq Nat
<1>3. x # 0 /\ x - 1 \in Nat
  OBVIOUS
<1>4. x - 1 \in T
  BY <1>2, <1>3
<1>. QED
  BY <1>4, <1>3

\* A set of positions that is not empty has a greatest one.
LEMMA GreatestPosition ==
    ASSUME NEW m \in Nat, NEW t \in SUBSET (1 .. m), t # {}
    PROVE  Max(t) \in t /\ \A y \in t : y <= Max(t)
<1>. DEFINE T == {m - x : x \in t}
<1>1. T \in SUBSET Nat /\ T # {}
  <2>1. \A x \in t : m - x \in Nat
    OBVIOUS
  <2>2. T \subseteq Nat
    BY <2>1
  <2>. QED
    BY <2>2
<1>2. PICK d \in T : \A e \in T : d <= e
  BY <1>1, LeastNumber
<1>3. PICK x \in t : d = m - x
  OBVIOUS
<1>4. \A y \in t : x >= y
  BY <1>2, <1>3
<1>. QED
  BY <1>4 DEF Max

-----------------------------------------------------------------------------
(* The function that FoldLeft chooses *)

IsFold(g, m, base, s) ==
    g = [t \in SUBSET (1 .. m) |->
            IF t = {} THEN base ELSE Op(g[t \ {Max(t)}], s[Max(t)])]

\* There is one for any number of positions.
LEMMA FoldExists ==
    ASSUME NEW base, NEW s
    PROVE  \A m \in Nat : \E g : IsFold(g, m, base, s)
<1>. DEFINE T == {m \in Nat : \E g : IsFold(g, m, base, s)}
<1>1. 0 \in T
  <2>. DEFINE g == [t \in SUBSET (1 .. 0) |-> base]
  <2>1. \A t \in SUBSET (1 .. 0) : t = {}
    OBVIOUS
  <2>2. IsFold(g, 0, base, s)
    BY <2>1 DEF IsFold
  <2>. QED
    BY <2>2
<1>2. ASSUME NEW m \in Nat, m \in T PROVE m + 1 \in T
  <2>1. PICK g : IsFold(g, m, base, s)
    BY <1>2
  <2>. DEFINE h == [t \in SUBSET (1 .. m + 1) |->
                IF m + 1 \in t THEN Op(g[t \ {m + 1}], s[m + 1]) ELSE g[t]]
  <2>2. ASSUME NEW t \in SUBSET (1 .. m + 1)
        PROVE  h[t] = IF t = {} THEN base ELSE Op(h[t \ {Max(t)}], s[Max(t)])
    <3>1. CASE t = {}
      <4>1. t \in SUBSET (1 .. m)
        BY <3>1
      <4>2. g[t] = base
        BY <2>1, <3>1, <4>1 DEF IsFold
      <4>3. h[t] = g[t]
        BY <3>1
      <4>. QED
        BY <3>1, <4>2, <4>3
    <3>2. CASE m + 1 \in t
      <4>1. Max(t) = m + 1
        <5>1. Max(t) \in t /\ m + 1 <= Max(t)
          BY <3>2, GreatestPosition, m + 1 \in Nat
        <5>2. Max(t) \in 1 .. m + 1
          BY <5>1
        <5>. QED
          BY <5>1, <5>2
      <4>2. t \ {m + 1} \in SUBSET (1 .. m + 1) /\ m + 1 \notin t \ {m + 1}
        OBVIOUS
      <4>3. h[t \ {m + 1}] = g[t \ {m + 1}]
        BY <4>2
      <4>. QED
        BY <3>2, <4>1, <4>3
    <3>3. CASE t # {} /\ m + 1 \notin t
      <4>1. t \in SUBSET (1 .. m)
        BY <3>3
      <4>2. Max(t) \in t /\ t \ {Max(t)} \in SUBSET (1 .. m)
        BY <3>3, <4>1, GreatestPosition
      <4>3. g[t] = Op(g[t \ {Max(t)}], s[Max(t)])
        BY <2>1, <3>3, <4>1 DEF IsFold
      <4>4. h[t] = g[t] /\ h[t \ {Max(t)}] = g[t \ {Max(t)}]
        BY <3>3, <4>1, <4>2
      <4>. QED
        BY <3>3, <4>3, <4>4
    <3>. QED
      BY <3>1, <3>2, <3>3
  <2>3. IsFold(h, m + 1, base, s)
    <3>1. h = [t \in SUBSET (1 .. m + 1) |-> h[t]]
      OBVIOUS
    <3>2. h = [t \in SUBSET (1 .. m + 1) |->
                IF t = {} THEN base ELSE Op(h[t \ {Max(t)}], s[Max(t)])]
      <4>. HIDE DEF h
      <4>. QED
        BY <2>2, <3>1
    <3>. HIDE DEF h
    <3>. QED
      BY <3>2 DEF IsFold
  <2>. HIDE DEF h
  <2>. QED
    BY <2>3
<1>. HIDE DEF T
<1>3. \A m \in Nat : m \in T
  BY <1>1, <1>2, InductiveSet
<1>. QED
  BY <1>3 DEF T

\* FoldLeft takes its result from such a function.
LEMMA FoldLeftIsFold ==
    ASSUME NEW base, NEW n \in Nat, NEW s, DOMAIN s = 1 .. n
    PROVE  \E g : IsFold(g, n, base, s) /\ Result(base, s) = g[1 .. n]
<1>. DEFINE c == CHOOSE g : IsFold(g, n, base, s)
<1>1. IsFold(c, n, base, s)
  BY FoldExists
<1>2. Result(base, s) =
        (CHOOSE g : g = [t \in SUBSET (1 .. n) |->
            IF t = {} THEN base ELSE Op(g[t \ {Max(t)}], s[Max(t)])])[1 .. n]
  BY DEF Result, FoldLeft, MapThenFoldSet
<1>3. Result(base, s) = c[1 .. n]
  BY <1>2 DEF IsFold
<1>. HIDE DEF c
<1>. QED
  BY <1>1, <1>3

\* What such a function says of the first k positions, one after the other.
LEMMA FoldSteps ==
    ASSUME NEW base, NEW n \in Nat, NEW s, NEW g, IsFold(g, n, base, s)
    PROVE  /\ g[{}] = base
           /\ \A k \in 0 .. n - 1 : g[1 .. k + 1] = Op(g[1 .. k], s[k + 1])
<1>1. g[{}] = base
  BY {} \in SUBSET (1 .. n) DEF IsFold
<1>2. ASSUME NEW k \in 0 .. n - 1 PROVE g[1 .. k + 1] = Op(g[1 .. k], s[k + 1])
  <2>1. 1 .. k + 1 \in SUBSET (1 .. n) /\ 1 .. k + 1 # {} /\ k + 1 \in 1 .. k + 1
    OBVIOUS
  <2>2. Max(1 .. k + 1) = k + 1
    <3>1. Max(1 .. k + 1) \in 1 .. k + 1 /\ k + 1 <= Max(1 .. k + 1)
      BY <2>1, GreatestPosition
    <3>. QED
      BY <3>1
  <2>3. (1 .. k + 1) \ {k + 1} = 1 .. k
    OBVIOUS
  <2>. QED
    BY <2>1, <2>2, <2>3 DEF IsFold
<1>. QED
  BY <1>1, <1>2

\* What holds of the base and is kept by each step holds of the result.
LEMMA FoldLeftInduction ==
    ASSUME NEW base, NEW n \in Nat, NEW s, DOMAIN s = 1 .. n,
           Inv(s, 0, base),
           \A k \in 0 .. n - 1 : \A r : Inv(s, k, r) => Inv(s, k + 1, Op(r, s[k + 1]))
    PROVE  Inv(s, n, Result(base, s))
<1>1. PICK g : IsFold(g, n, base, s) /\ Result(base, s) = g[1 .. n]
  BY FoldLeftIsFold
<1>. DEFINE T == {k \in Nat : k <= n => Inv(s, k, g[1 .. k])}
<1>2. 0 \in T
  <2>1. 1 .. 0 = {}
    OBVIOUS
  <2>2. g[1 .. 0] = base
    BY <1>1, <2>1, FoldSteps
  <2>. QED
    BY <2>2
<1>3. ASSUME NEW k \in Nat, k \in T PROVE k + 1 \in T
  <2>1. SUFFICES ASSUME k + 1 <= n PROVE Inv(s, k + 1, g[1 .. k + 1])
    OBVIOUS
  <2>2. k \in 0 .. n - 1 /\ Inv(s, k, g[1 .. k])
    BY <1>3, <2>1
  <2>3. g[1 .. k + 1] = Op(g[1 .. k], s[k + 1])
    BY <1>1, <2>2, FoldSteps
  <2>. QED
    BY <2>2, <2>3
<1>. HIDE DEF T
<1>4. n \in T
  BY <1>2, <1>3, InductiveSet
<1>. QED
  BY <1>1, <1>4 DEF T

\* The results along the way.
States(h, base, n, s) ==
    /\ h[0] = base /\ h[n] = Result(base, s)
    /\ \A k \in 0 .. n - 1 : h[k + 1] = Op(h[k], s[k + 1])

LEMMA FoldStates ==
    ASSUME NEW base, NEW n \in Nat, NEW s, DOMAIN s = 1 .. n
    PROVE  \E h : States(h, base, n, s)
<1>1. PICK g : IsFold(g, n, base, s) /\ Result(base, s) = g[1 .. n]
  BY FoldLeftIsFold
<1>. DEFINE h == [k \in 0 .. n |-> g[1 .. k]]
<1>2. h[0] = base
  <2>1. 1 .. 0 = {}
    OBVIOUS
  <2>. QED
    BY <1>1, <2>1, FoldSteps
<1>3. ASSUME NEW k \in 0 .. n - 1 PROVE h[k + 1] = Op(h[k], s[k + 1])
  <2>1. k \in 0 .. n /\ k + 1 \in 0 .. n
    OBVIOUS
  <2>2. h[k] = g[1 .. k] /\ h[k + 1] = g[1 .. k + 1]
    BY <2>1
  <2>3. g[1 .. k + 1] = Op(g[1 .. k], s[k + 1])
    BY <1>1, FoldSteps
  <2>. QED
    BY <2>2, <2>3
<1>4. h[n] = Result(base, s)
  BY <1>1
<1>. HIDE DEF h
<1>. QED
  BY <1>2, <1>3, <1>4 DEF States

\* A sequence in two parts is folded one part after the other.
InParts(u, m, s, n, t) ==
    /\ m \in Nat /\ DOMAIN s = 1 .. m
    /\ n \in Nat /\ DOMAIN t = 1 .. n
    /\ DOMAIN u = 1 .. m + n
    /\ \A i \in 1 .. m : u[i] = s[i]
    /\ \A i \in 1 .. n : u[m + i] = t[i]

LEMMA FoldParts ==
    ASSUME NEW base, NEW m, NEW n, NEW s, NEW t, NEW u, InParts(u, m, s, n, t)
    PROVE  Result(base, u) = Result(Result(base, s), t)
<1>. USE DEF InParts
<1>. DEFINE middle == Result(base, s)
<1>1. PICK f : States(f, base, m, s)
  BY FoldStates
<1>. HIDE DEF middle
<1>2. PICK g : States(g, middle, n, t)
  BY FoldStates
<1>3. PICK h : States(h, base, m + n, u)
  <2>1. m + n \in Nat
    OBVIOUS
  <2>. QED
    BY <2>1, FoldStates
<1>. USE DEF States
<1>4. h[m] = middle
  <2>. DEFINE T == {k \in Nat : k <= m => h[k] = f[k]}
  <2>1. 0 \in T
    BY <1>1, <1>3
  <2>2. ASSUME NEW k \in Nat, k \in T PROVE k + 1 \in T
    <3>1. SUFFICES ASSUME k + 1 <= m PROVE h[k + 1] = f[k + 1]
      OBVIOUS
    <3>2. k \in 0 .. m - 1 /\ k \in 0 .. m + n - 1 /\ k + 1 \in 1 .. m
      BY <3>1
    <3>. QED
      BY <1>1, <1>3, <2>2, <3>2
  <2>. HIDE DEF T
  <2>3. m \in T
    BY <2>1, <2>2, InductiveSet
  <2>4. h[m] = f[m] /\ f[m] = middle
    BY <1>1, <2>3 DEF T, middle
  <2>. QED
    BY <2>4
<1>5. h[m + n] = g[n]
  <2>. DEFINE T == {k \in Nat : k <= n => h[m + k] = g[k]}
  <2>1. 0 \in T
    BY <1>1, <1>2, <1>4, m + 0 = m
  <2>2. ASSUME NEW k \in Nat, k \in T PROVE k + 1 \in T
    <3>1. SUFFICES ASSUME k + 1 <= n PROVE h[m + (k + 1)] = g[k + 1]
      OBVIOUS
    <3>2. k \in 0 .. n - 1 /\ m + k \in 0 .. m + n - 1 /\ k + 1 \in 1 .. n /\ (m + k) + 1 = m + (k + 1)
      BY <3>1
    <3>3. h[(m + k) + 1] = Op(h[m + k], u[(m + k) + 1]) /\ g[k + 1] = Op(g[k], t[k + 1])
      BY <1>2, <1>3, <3>2
    <3>. QED
      BY <2>2, <3>1, <3>2, <3>3
  <2>. HIDE DEF T
  <2>3. n \in T
    BY <2>1, <2>2, InductiveSet
  <2>. QED
    BY <2>3 DEF T
<1>6. Result(base, u) = Result(middle, t)
  BY <1>2, <1>3, <1>5
<1>. QED
  BY <1>6 DEF middle
=============================================================================
