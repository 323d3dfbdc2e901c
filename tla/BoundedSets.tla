----------------------------- MODULE BoundedSets -----------------------------
(***************************************************************************)
(* Facts about sets of positions and turns: numbers up to a bound.         *)
(***************************************************************************)
EXTENDS Integers, FiniteSets, FiniteSetTheorems, TLAPS

(* A set of numbers with a bound has a last one.                           *)
LEMMA HasLast ==
  ASSUME NEW n \in Nat, NEW S \in SUBSET (1..n), S # {}
  PROVE  \E p \in S : \A q \in S : q <= p
  <1> DEFINE Above(p) == {q \in S : q > p}
  <1> DEFINE T == {Above(p) : p \in S}
  <1>1. T \subseteq SUBSET S /\ T # {}
    OBVIOUS
  <1>2. IsFiniteSet(S)
    <2>1. IsFiniteSet(1..n)
      BY FS_Interval
    <2> QED BY <2>1, FS_Subset
  <1>3. IsWellFoundedOn(StrictSubsetOrdering(S), FiniteSubsetsOf(S))
    BY FS_StrictSubsetOrderingWellFounded
  <1>4. T \subseteq FiniteSubsetsOf(S)
    BY <1>1, <1>2, FS_Subset DEF FiniteSubsetsOf
  <1>5. PICK x \in T : \A y \in T : ~(<<y, x>> \in StrictSubsetOrdering(S))
    BY <1>1, <1>3, <1>4, WFMin
  <1>6. PICK p \in S : x = Above(p)
    BY <1>5
  <1>7. ASSUME NEW q \in S, q > p PROVE FALSE
    <2>1. p \in Int /\ q \in Int /\ S \subseteq Int
      OBVIOUS
    <2>2. Above(q) \in T
      OBVIOUS
    <2>3. ASSUME NEW r \in Above(q) PROVE r \in Above(p)
      <3>1. r \in S /\ r \in Int /\ r > q
        BY <2>1
      <3> QED BY <3>1, <2>1, <1>7
    <2>4. q \in Above(p) /\ q \notin Above(q)
      BY <2>1, <1>7
    <2>5. <<Above(q), x>> \in StrictSubsetOrdering(S)
      BY <2>3, <2>4, <1>6 DEF StrictSubsetOrdering
    <2> QED BY <2>2, <2>5, <1>5
  <1> QED BY <1>7

(* A bounded set that is contained in another one has no more elements.    *)
LEMMA FewerElements ==
  ASSUME NEW n \in Nat, NEW S \in SUBSET (1..n), NEW T \in SUBSET S
  PROVE  /\ Cardinality(T) \in Nat /\ Cardinality(S) \in Nat
         /\ Cardinality(T) <= Cardinality(S)
  <1>1. IsFiniteSet(1..n)
    BY FS_Interval
  <1>2. IsFiniteSet(S)
    BY <1>1, FS_Subset
  <1>3. IsFiniteSet(T)
    BY <1>2, FS_Subset
  <1> QED BY <1>2, <1>3, FS_Subset, FS_CardinalityType
=============================================================================
