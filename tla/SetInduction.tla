------------------------------ MODULE SetInduction ------------------------------
(***************************************************************************)
(* Induction over the natural numbers, stated with sets: what holds of the *)
(* members of a set of numbers is proved for the set.  The positions of    *)
(* sequences and the values of recursive functions are reasoned about with *)
(* these lemmas.                                                           *)
(***************************************************************************)
EXTENDS Naturals, FiniteSets, FiniteSetTheorems, WellFoundedInduction, TLAPS

\* A non-empty set of positions of a sequence has a last one.
LEMMA LastPosition ==
    ASSUME NEW n \in Nat, NEW S \in SUBSET (1..n), S # {}
    PROVE  \E i \in S : \A j \in S : j <= i
<1> DEFINE After(i) == {j \in S : j > i}
           Afters == {After(i) : i \in S}
<1>1. IsFiniteSet(S)
  <2>1. IsFiniteSet(1..n)
    BY FS_Interval
  <2> QED
    BY <2>1, FS_Subset
<1>2. IsWellFoundedOn(StrictSubsetOrdering(S), SUBSET S)
  BY <1>1, FS_StrictSubsetOrderingWellFounded, FS_FiniteSubsetsOfFinite
<1>3. PICK a \in Afters : \A b \in Afters : <<b, a>> \notin StrictSubsetOrdering(S)
  <2>1. Afters \subseteq SUBSET S /\ Afters # {}
    OBVIOUS
  <2> HIDE DEF Afters
  <2> QED
    BY <1>2, <2>1, WFMin
<1>4. PICK i \in S : a = After(i)
  BY <1>3
<1>5. ASSUME NEW j \in S, ~(j <= i)
      PROVE  FALSE
  <2>1. i \in Nat /\ j \in Nat /\ S \subseteq Nat
    OBVIOUS
  <2>2. After(j) \subseteq After(i) /\ j \in After(i) /\ j \notin After(j)
    <3>1. j > i /\ ~(j > j)
      BY <1>5, <2>1
    <3>2. \A k \in S : k > j => k > i
      BY <2>1, <3>1
    <3> QED
      BY <3>1, <3>2
  <2>3. <<After(j), After(i)>> \in StrictSubsetOrdering(S)
    BY <2>2 DEF StrictSubsetOrdering
  <2> QED
    BY <1>3, <1>4, <2>3
<1> QED
  BY <1>5

\* A non-empty set of natural numbers has a least one.
LEMMA LeastNumber ==
    ASSUME NEW S \in SUBSET Nat, S # {}
    PROVE  \E i \in S : \A j \in S : i <= j
<1>1. PICK k \in S : TRUE
  OBVIOUS
<1> DEFINE Mirror == {i \in 1..(k + 1) : (k + 1) - i \in S}
<1>2. k \in Nat /\ 1 \in Mirror
  <2>1. k \in Nat /\ (k + 1) - 1 = k /\ 1 \in 1..(k + 1)
    OBVIOUS
  <2> QED
    BY <2>1
<1>3. PICK i \in Mirror : \A j \in Mirror : j <= i
  <2>1. Mirror \in SUBSET (1..(k + 1)) /\ k + 1 \in Nat
    BY <1>2
  <2> HIDE DEF Mirror
  <2> QED
    BY <1>2, <2>1, LastPosition
<1>4. ASSUME NEW j \in S
      PROVE  (k + 1) - i <= j
  <2>1. i \in 1..(k + 1) /\ j \in Nat
    BY <1>3
  <2>2. CASE j <= k
    <3>1. (k + 1) - j \in 1..(k + 1) /\ (k + 1) - ((k + 1) - j) = j
      BY <1>2, <2>1, <2>2
    <3>2. (k + 1) - j \in Mirror
      BY <3>1
    <3>3. (k + 1) - j <= i
      BY <1>3, <3>2
    <3> QED
      BY <1>2, <2>1, <3>3
  <2>3. CASE ~(j <= k)
    BY <1>2, <2>1, <2>3
  <2> QED
    BY <2>2, <2>3
<1> QED
  BY <1>3, <1>4

\* A set of numbers that has 0 and with every number the next one has them all.
LEMMA SetInduction ==
    ASSUME NEW S \in SUBSET Nat, 0 \in S, \A i \in S : i + 1 \in S
    PROVE  S = Nat
<1>1. SUFFICES ASSUME Nat \ S # {}
               PROVE  FALSE
  OBVIOUS
<1>2. PICK i \in Nat \ S : \A j \in Nat \ S : i <= j
  BY <1>1, LeastNumber
<1>3. i # 0 /\ i - 1 \in Nat /\ ~(i <= i - 1)
  BY <1>2
<1>4. i - 1 \in S
  BY <1>2, <1>3
<1>5. (i - 1) + 1 = i
  BY <1>2
<1> QED
  BY <1>2, <1>4, <1>5

=============================================================================
