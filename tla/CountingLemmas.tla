--------------------------- MODULE CountingLemmas ---------------------------
(***************************************************************************)
(* Facts about numbers that several proofs rest on: the smallest one of a  *)
(* set, and the places of the elements that Selected keeps.                *)
(***************************************************************************)
EXTENDS Selections, FiniteSetTheorems, TLAPS

\* A set of natural numbers has a smallest one: the first entry that raises
\* (contract.py), the first contract that is left (verifier.py:113).
LEMMA SmallestExists ==
    ASSUME NEW S, S \subseteq Nat, S # {}
    PROVE  \E p \in S : \A q \in S : p <= q
  <1> DEFINE less == OpToRel(<, Nat)
  <1>1. IsWellFoundedOn(less, Nat)
    BY NatLessThanWellFounded
  <1>2. \A q, p \in Nat : q < p => <<q, p>> \in less
    BY DEF OpToRel
  <1> HIDE DEF less
  <1>3. PICK p \in S : \A q \in S : ~(<<q, p>> \in less)
    BY <1>1, WFMin
  <1>4. \A q \in S : ~(q < p)
    BY <1>2, <1>3
  <1> QED
    BY <1>4

-----------------------------------------------------------------------------
(* The k-th of a set of places. *)

\* How many places there are up to i.
UpTo(S, i) == {j \in S : j <= i}

LEMMA UpToCounts ==
    ASSUME NEW n \in Nat, NEW S \in SUBSET (1..n)
    PROVE  /\ \A i \in 0..n : IsFiniteSet(UpTo(S, i)) /\ Cardinality(UpTo(S, i)) \in Nat
           /\ UpTo(S, 0) = {} /\ UpTo(S, n) = S
           /\ \A i \in S : Cardinality(UpTo(S, i)) = Cardinality(UpTo(S, i - 1)) + 1
           /\ \A i \in (1..n) \ S : Cardinality(UpTo(S, i)) = Cardinality(UpTo(S, i - 1))
  <1>1. ASSUME NEW i \in 0..n
        PROVE  IsFiniteSet(UpTo(S, i)) /\ Cardinality(UpTo(S, i)) \in Nat
    <2>1. IsFiniteSet(1..n)
      BY FS_Interval
    <2>2. UpTo(S, i) \in SUBSET (1..n)
      BY DEF UpTo
    <2>3. IsFiniteSet(UpTo(S, i))
      BY <2>1, <2>2, FS_Subset
    <2> QED
      BY <2>3, FS_CardinalityType
  <1>0. \A j \in S : j \in Nat /\ 1 <= j /\ j <= n
    OBVIOUS
  <1>2. UpTo(S, 0) = {} /\ UpTo(S, n) = S
    <2>1. \A j \in S : ~(j <= 0)
      BY <1>0
    <2> QED
      BY <1>0, <2>1 DEF UpTo
  <1>3. ASSUME NEW i \in 1..n
        PROVE  /\ i \in S => Cardinality(UpTo(S, i)) = Cardinality(UpTo(S, i - 1)) + 1
               /\ i \notin S => Cardinality(UpTo(S, i)) = Cardinality(UpTo(S, i - 1))
    <2>1. i - 1 \in 0..n /\ i \notin UpTo(S, i - 1)
      BY DEF UpTo
    <2>2. IsFiniteSet(UpTo(S, i - 1))
      BY <1>1, <2>1
    <2>3. CASE i \in S
      <3>1. UpTo(S, i) = UpTo(S, i - 1) \cup {i}
        <4>1. \A j \in S : j <= i <=> j <= i - 1 \/ j = i
          BY <1>0
        <4> QED
          BY <2>3, <4>1 DEF UpTo
      <3>2. Cardinality(UpTo(S, i - 1) \cup {i}) = Cardinality(UpTo(S, i - 1)) + 1
        BY <2>1, <2>2, FS_AddElement
      <3> QED
        BY <2>3, <3>1, <3>2
    <2>4. CASE i \notin S
      <3>1. UpTo(S, i) = UpTo(S, i - 1)
        <4>1. \A j \in S : j <= i <=> j <= i - 1
          BY <1>0, <2>4
        <4> QED
          BY <4>1 DEF UpTo
      <3> QED
        BY <2>4, <3>1
    <2> QED
      BY <2>3, <2>4
  <1> QED
    BY <1>1, <1>2, <1>3

\* The k-th place is one of the places.
LEMMA NthIsMember ==
    ASSUME NEW n \in Nat, NEW S \in SUBSET (1..n)
    PROVE  /\ Cardinality(S) \in Nat
           /\ \A k \in 1..Cardinality(S) :
                 Nth(S, k) \in S /\ Cardinality(UpTo(S, Nth(S, k))) = k
  <1>0. /\ \A i \in 0..n : IsFiniteSet(UpTo(S, i)) /\ Cardinality(UpTo(S, i)) \in Nat
        /\ UpTo(S, 0) = {} /\ UpTo(S, n) = S
        /\ \A i \in S : Cardinality(UpTo(S, i)) = Cardinality(UpTo(S, i - 1)) + 1
        /\ \A i \in (1..n) \ S : Cardinality(UpTo(S, i)) = Cardinality(UpTo(S, i - 1))
    BY UpToCounts
  <1>1. Cardinality(S) \in Nat /\ Cardinality(UpTo(S, n)) = Cardinality(S)
    BY <1>0
  <1>2. Cardinality(UpTo(S, 0)) = 0
    BY <1>0, FS_EmptySet
  <1>3. ASSUME NEW k \in 1..Cardinality(S)
        PROVE  \E i \in S : Cardinality(UpTo(S, i)) = k
    <2> DEFINE reached == {i \in 0..n : Cardinality(UpTo(S, i)) >= k}
    <2>1. n \in reached
      BY <1>1
    <2>2. PICK i \in reached : \A q \in reached : i <= q
      <3> HIDE DEF reached
      <3>1. reached \subseteq Nat
        BY DEF reached
      <3> QED
        BY <2>1, <3>1, SmallestExists
    <2>3. i # 0
      BY <1>2
    <2>4. i \in 1..n /\ i - 1 \in 0..n /\ i - 1 \notin reached
      BY <2>2, <2>3
    <2>5. Cardinality(UpTo(S, i - 1)) \in Nat /\ Cardinality(UpTo(S, i)) \in Nat
      BY <2>4, <1>0
    <2>6. Cardinality(UpTo(S, i - 1)) < k /\ Cardinality(UpTo(S, i)) >= k
      BY <2>4, <2>5
    <2> HIDE DEF reached
    <2>7. i \in S
      <3>1. SUFFICES ASSUME i \notin S
                     PROVE  FALSE
        OBVIOUS
      <3>2. Cardinality(UpTo(S, i)) = Cardinality(UpTo(S, i - 1))
        BY <1>0, <2>4, <3>1
      <3> QED
        BY <2>5, <2>6, <3>2
    <2>8. Cardinality(UpTo(S, i)) = Cardinality(UpTo(S, i - 1)) + 1
      BY <1>0, <2>7
    <2>9. k \in Nat
      BY <1>1
    <2> QED
      BY <2>5, <2>6, <2>7, <2>8, <2>9
  <1>4. ASSUME NEW k \in 1..Cardinality(S)
        PROVE  Nth(S, k) \in S /\ Cardinality(UpTo(S, Nth(S, k))) = k
    <2>1. Nth(S, k) = CHOOSE i \in S : Cardinality(UpTo(S, i)) = k
      BY DEF Nth, UpTo
    <2> QED
      BY <1>3, <2>1
  <1> QED
    BY <1>1, <1>4

\* Of all places the k-th is k.
LEMMA NthOfAll ==
    ASSUME NEW n \in Nat
    PROVE  Cardinality(1..n) = n /\ \A k \in 1..n : Nth(1..n, k) = k
  <1>1. Cardinality(1..n) = n
    BY FS_Interval
  <1>2. ASSUME NEW i \in 1..n
        PROVE  Cardinality(UpTo(1..n, i)) = i
    <2>1. UpTo(1..n, i) = 1..i
      BY DEF UpTo
    <2> QED
      BY <2>1, FS_Interval
  <1>3. ASSUME NEW k \in 1..n
        PROVE  Nth(1..n, k) = k
    <2>1. Nth(1..n, k) \in 1..n /\ Cardinality(UpTo(1..n, Nth(1..n, k))) = k
      BY <1>1, NthIsMember
    <2> QED
      BY <1>2, <2>1
  <1> QED
    BY <1>1, <1>3
=============================================================================
