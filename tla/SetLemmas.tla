------------------------------ MODULE SetLemmas ------------------------------
(***************************************************************************)
(* Facts about finite sets, their enumeration by SetToSeq, and least       *)
(* natural numbers, that the proofs about several components need.         *)
(*                                                                         *)
(* Least is how these proofs do induction: a property that fails fails for *)
(* a least number.                                                         *)
(***************************************************************************)
EXTENDS Naturals, Sequences, FiniteSets, SequencesExt, FiniteSetTheorems, SequenceTheorems, TLAPS

\* The elements of a finite set, as a sequence.
LEMMA SeqOfSet ==
  ASSUME NEW S, IsFiniteSet(S)
  PROVE  /\ SetToSeq(S) \in Seq(S) /\ Len(SetToSeq(S)) = Cardinality(S)
         /\ DOMAIN SetToSeq(S) = 1..Cardinality(S)
         /\ \A x \in S : \E i \in 1..Cardinality(S) : SetToSeq(S)[i] = x
<1> DEFINE n == Cardinality(S)
<1>1. n \in Nat /\ \E f : f \in Bijection(1..n, S)
  BY FS_CardinalityType DEF ExistsBijection
<1>2. \E f \in [1..n -> S] : IsInjective(f)
  BY <1>1 DEF Bijection, Injection
<1>3. SetToSeq(S) \in [1..n -> S] /\ IsInjective(SetToSeq(S))
  BY <1>2 DEF SetToSeq
<1>4. SetToSeq(S) \in Injection(1..n, S)
  BY <1>3 DEF Injection
<1>5. IsFiniteSet(1..n) /\ Cardinality(1..n) = n
  BY <1>1, FS_Interval
<1>6. SetToSeq(S) \in Surjection(1..n, S)
  BY <1>4, <1>5, FS_Injection
<1>7. \A x \in S : \E i \in 1..n : SetToSeq(S)[i] = x
  BY <1>6 DEF Surjection
<1>8. SetToSeq(S) \in Seq(S) /\ DOMAIN SetToSeq(S) = 1..n
  BY <1>1, <1>3, SeqDef
<1>9. Len(SetToSeq(S)) = n
  BY <1>1, <1>8, LenProperties
<1> QED BY <1>7, <1>8, <1>9

\* The first of the enumeration of a finite set is in it, if anything is.
LEMMA FirstOfSet ==
  ASSUME NEW S, IsFiniteSet(S), S # {}
  PROVE  SetToSeq(S)[1] \in S
<1>1. PICK x \in S : TRUE
  OBVIOUS
<1>2. Cardinality(S) \in Nat /\ \E i \in 1..Cardinality(S) : SetToSeq(S)[i] = x
  BY SeqOfSet, FS_CardinalityType
<1>3. 1 \in 1..Len(SetToSeq(S))
  BY <1>2, SeqOfSet
<1> QED BY <1>3, SeqOfSet, ElementOfSeq

\* A set of numbers has a least one: sets 0..n are well-founded by inclusion.
LEMMA Least ==
  ASSUME NEW T \in SUBSET Nat, T # {}
  PROVE  \E x \in T : \A y \in T : x <= y
<1> DEFINE Upto == {0..n : n \in T}
<1>1. \A n \in T : IsFiniteSet(0..n)
  BY FS_Interval
<1>2. Upto \subseteq FiniteSubsetsOf(Nat) /\ Upto # {}
  <2>1. \A n \in T : 0..n \in SUBSET Nat
    OBVIOUS
  <2> QED BY <1>1, <2>1 DEF FiniteSubsetsOf
<1>3. \E s \in Upto : \A r \in Upto : ~ (<<r, s>> \in StrictSubsetOrdering(Nat))
  BY <1>2, FS_StrictSubsetOrderingWellFounded, WFMin
<1>4. PICK x \in T : \A y \in T : ~ (<<0..y, 0..x>> \in StrictSubsetOrdering(Nat))
  BY <1>3
<1>5. ASSUME NEW y \in T, y < x
      PROVE  <<0..y, 0..x>> \in StrictSubsetOrdering(Nat)
  <2>1. 0..y \subseteq 0..x /\ 0..y \in SUBSET Nat /\ 0..x \in SUBSET Nat
    BY <1>5
  <2>2. x \in 0..x /\ x \notin 0..y
    BY <1>5
  <2> QED BY <2>1, <2>2 DEF StrictSubsetOrdering
<1>6. \A y \in T : ~ (y < x)
  BY <1>4, <1>5
<1>7. \A y \in T : x <= y
  BY <1>6
<1> QED BY <1>7
=============================================================================
