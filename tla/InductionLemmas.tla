---------------------------- MODULE InductionLemmas ---------------------------
(***************************************************************************)
(* Induction over the numbers, for a set of them: what a recursive         *)
(* function or a fold computes for every input is proved with the set of   *)
(* the lengths for which it holds.  It follows from the fact that strict   *)
(* inclusion of finite sets is well-founded.                               *)
(***************************************************************************)
EXTENDS Integers, FiniteSets, FiniteSetTheorems, WellFoundedInduction, TLAPS

\* A set that has 0, and with each number the next one, has every number.
LEMMA SetInduction ==
    ASSUME NEW T, 0 \in T, \A n \in Nat : n \in T => n + 1 \in T
    PROVE  Nat \subseteq T
<1> SUFFICES ASSUME NEW m \in Nat, m \notin T PROVE FALSE
  OBVIOUS
<1> DEFINE Bad == {1 .. n : n \in Nat \ T}
<1>1. Bad \subseteq FiniteSubsetsOf(Nat) /\ Bad # {}
  <2>1. ASSUME NEW n \in Nat PROVE 1 .. n \in FiniteSubsetsOf(Nat)
    BY FS_Interval DEF FiniteSubsetsOf
  <2>2. 1 .. m \in Bad
    OBVIOUS
  <2> QED BY <2>1, <2>2
<1> HIDE DEF Bad
<1>2. PICK X \in Bad : \A Y \in Bad : ~ (<<Y, X>> \in StrictSubsetOrdering(Nat))
  BY <1>1, FS_StrictSubsetOrderingWellFounded, WFMin
<1>3. PICK n \in Nat \ T : X = 1 .. n
  BY <1>2 DEF Bad
<1>4. n # 0 /\ n - 1 \in Nat \ T
  BY <1>3
<1>5. 1 .. n - 1 \in Bad
  BY <1>4 DEF Bad
<1>6. /\ 1 .. n - 1 \in SUBSET Nat /\ 1 .. n \in SUBSET Nat
      /\ 1 .. n - 1 \subseteq 1 .. n /\ n \in 1 .. n /\ n \notin 1 .. n - 1
  BY <1>3, <1>4
<1>7. <<1 .. n - 1, 1 .. n>> \in StrictSubsetOrdering(Nat)
  BY <1>6 DEF StrictSubsetOrdering
<1> QED BY <1>2, <1>3, <1>5, <1>7

\* What holds of 0, and of the next number up to a bound, holds up to that bound.
LEMMA Induction ==
    ASSUME NEW T, NEW m \in Nat, 0 \in T, \A n \in 0 .. m - 1 : n \in T => n + 1 \in T
    PROVE  \A n \in 0 .. m : n \in T
<1> DEFINE U == {n \in Nat : n <= m => n \in T}
<1>1. 0 \in U /\ \A n \in Nat : n \in U => n + 1 \in U
  OBVIOUS
<1>2. Nat \subseteq U
  <2> HIDE DEF U
  <2> QED BY <1>1, SetInduction
<1> QED BY <1>2

\* A non-empty set of numbers up to a bound has a greatest and a least.
LEMMA Extremes ==
    ASSUME NEW n \in Nat, NEW s \in SUBSET (1 .. n), s # {}
    PROVE  (\E x \in s : \A y \in s : x >= y) /\ (\E x \in s : \A y \in s : x <= y)
<1> DEFINE T == {m \in Nat : \A t \in SUBSET (1 .. m) : t # {} =>
                    (\E x \in t : \A y \in t : x >= y) /\ (\E x \in t : \A y \in t : x <= y)}
<1>1. 0 \in T
  <2>1. 1 .. 0 = {}
    OBVIOUS
  <2> QED BY <2>1
<1>2. ASSUME NEW m \in Nat, m \in T PROVE m + 1 \in T
  <2> SUFFICES ASSUME NEW t \in SUBSET (1 .. m + 1), t # {}
               PROVE  (\E x \in t : \A y \in t : x >= y) /\ (\E x \in t : \A y \in t : x <= y)
    OBVIOUS
  <2>1. CASE t \ {m + 1} = {}
    <3>1. m + 1 \in Nat /\ \A y \in t : y = m + 1
      BY <2>1
    <3>2. m + 1 \in t
      BY <3>1
    <3> QED BY <3>1, <3>2
  <2>2. CASE t \ {m + 1} # {}
    <3> DEFINE r == t \ {m + 1}
    <3>1. r \in SUBSET (1 .. m) /\ r # {}
      BY <2>2
    <3>2. PICK x \in r : \A y \in r : x >= y
      BY <1>2, <3>1
    <3>3. PICK z \in r : \A y \in r : z <= y
      BY <1>2, <3>1
    <3>4. \A y \in t : y \in r \/ y = m + 1
      OBVIOUS
    <3>5. \E v \in t : \A y \in t : v >= y
      <4>1. CASE m + 1 \in t
        BY <4>1
      <4>2. CASE m + 1 \notin t
        BY <4>2, <3>2, <3>4
      <4> QED BY <4>1, <4>2
    <3>6. z \in t /\ \A y \in t : z <= y
      BY <3>1, <3>3, <3>4
    <3> QED BY <3>5, <3>6
  <2> QED BY <2>1, <2>2
<1>3. n \in T
  <2> HIDE DEF T
  <2> QED BY <1>1, <1>2, SetInduction
<1> QED BY <1>3

\* What holds of the empty set, and of each other one when it holds of the set without
\* one of its elements, holds of every subset.
LEMMA SubsetInduction ==
    ASSUME NEW S, IsFiniteSet(S), NEW T, {} \in T,
           \A s \in SUBSET S : s # {} => \E x \in s : s \ {x} \in T => s \in T
    PROVE  SUBSET S \subseteq T
<1> DEFINE U == {n \in Nat : \A s \in SUBSET S : Cardinality(s) = n => s \in T}
<1>1. \A s \in SUBSET S : /\ IsFiniteSet(s) /\ Cardinality(s) \in Nat
                          /\ Cardinality(s) = 0 <=> s = {}
  BY FS_Subset, FS_CardinalityType, FS_EmptySet
<1>2. 0 \in U
  BY <1>1
<1>3. ASSUME NEW n \in Nat, n \in U PROVE n + 1 \in U
  <2> SUFFICES ASSUME NEW s \in SUBSET S, Cardinality(s) = n + 1 PROVE s \in T
    OBVIOUS
  <2>1. s # {}
    BY <1>1
  <2>2. PICK x \in s : s \ {x} \in T => s \in T
    BY <2>1
  <2>3. Cardinality(s \ {x}) = n
    <3>1. IsFiniteSet(s) /\ x \in s
      BY <1>1
    <3>2. Cardinality(s \ {x}) = Cardinality(s) - 1
      BY <3>1, FS_RemoveElement
    <3> QED BY <3>2
  <2>4. s \ {x} \in T
    BY <1>3, <2>3
  <2> QED BY <2>2, <2>4
<1>4. Nat \subseteq U
  <2> HIDE DEF U
  <2> QED BY <1>2, <1>3, SetInduction
<1> QED BY <1>1, <1>4

\* The function that folds the subsets of S: it takes out, one after the other, the
\* elements that next chooses.
IsFold(f, S, V, base, step, next) ==
    /\ f \in [SUBSET S -> V]
    /\ \A s \in SUBSET S :
          f[s] = IF s = {} THEN base ELSE step[<<next[s], f[s \ {next[s]}]>>]

\* A finite set can be folded.
LEMMA FoldExists ==
    ASSUME NEW S, IsFiniteSet(S), NEW V, NEW base \in V, NEW step \in [S \X V -> V],
           NEW next, \A s \in SUBSET S : s # {} => next[s] \in s
    PROVE  \E f : IsFold(f, S, V, base, step, next)
<1> DEFINE Holds(f, m) == \A s \in SUBSET S : Cardinality(s) <= m =>
               f[s] = IF s = {} THEN base ELSE step[<<next[s], f[s \ {next[s]}]>>]
           T == {m \in Nat : \E f \in [SUBSET S -> V] : Holds(f, m)}
<1>1. \A s \in SUBSET S : /\ IsFiniteSet(s) /\ Cardinality(s) \in Nat
                          /\ Cardinality(s) = 0 <=> s = {}
  BY FS_Subset, FS_CardinalityType, FS_EmptySet
<1>2. 0 \in T
  <2> DEFINE f == [s \in SUBSET S |-> base]
  <2>1. f \in [SUBSET S -> V] /\ Holds(f, 0)
    BY <1>1
  <2> QED BY <2>1
<1>3. ASSUME NEW m \in Nat, m \in T PROVE m + 1 \in T
  <2>1. PICK f \in [SUBSET S -> V] : Holds(f, m)
    BY <1>3
  <2> DEFINE g == [s \in SUBSET S |-> IF s = {} THEN base
                                      ELSE step[<<next[s], f[s \ {next[s]}]>>]]
  <2>2. g \in [SUBSET S -> V]
    OBVIOUS
  <2>3. ASSUME NEW s \in SUBSET S, Cardinality(s) <= m PROVE g[s] = f[s]
    BY <2>1, <2>3
  <2>4. ASSUME NEW s \in SUBSET S, Cardinality(s) <= m + 1
        PROVE  g[s] = IF s = {} THEN base ELSE step[<<next[s], g[s \ {next[s]}]>>]
    <3>1. CASE s = {}
      BY <3>1
    <3>2. CASE s # {}
      <4>1. next[s] \in s /\ s \ {next[s]} \in SUBSET S
        BY <3>2
      <4>2. Cardinality(s \ {next[s]}) = Cardinality(s) - 1
        BY <1>1, <4>1, FS_RemoveElement
      <4>3. g[s \ {next[s]}] = f[s \ {next[s]}]
        <5>1. Cardinality(s \ {next[s]}) <= m
          BY <1>1, <2>4, <4>2
        <5> HIDE DEF g
        <5> QED BY <2>3, <4>1, <5>1
      <4> QED BY <3>2, <4>3
    <3> QED BY <3>1, <3>2
  <2> HIDE DEF g
  <2>5. Holds(g, m + 1)
    BY <2>4
  <2> HIDE DEF Holds
  <2> QED BY <2>2, <2>5
<1>4. PICK f \in [SUBSET S -> V] : Holds(f, Cardinality(S))
  <2>1. Cardinality(S) \in T
    <3>1. Cardinality(S) \in Nat
      BY FS_CardinalityType
    <3> HIDE DEF T
    <3> QED BY <1>2, <1>3, <3>1, SetInduction
  <2> QED BY <2>1
<1>5. \A s \in SUBSET S : Cardinality(s) <= Cardinality(S)
  BY FS_Subset
<1> QED BY <1>4, <1>5 DEF IsFold

===============================================================================
