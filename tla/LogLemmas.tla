------------------------------- MODULE LogLemmas -------------------------------
(* Facts about Logs that the proofs about the ledgers share. *)
EXTENDS Logs, Integers, Sequences, WellFoundedInduction, TLAPS

\* A non-empty set of indices has a last one.
LEMMA LastOfProperties ==
  ASSUME NEW n \in Nat, NEW S \in SUBSET (1 .. n), S # {}
  PROVE  LastOf(S) \in S /\ \A j \in S : j <= LastOf(S)
<1> DEFINE T == {n - i : i \in S}
           R == {ss \in Nat \X Nat : ss[1] < ss[2]}
<1>1. T \subseteq Nat /\ T # {}
  <2>1. \A i \in S : i \in 1 .. n  OBVIOUS
  <2>2. \A i \in 1 .. n : n - i \in Nat  OBVIOUS
  <2>3. \A x \in T : x \in Nat  BY <2>1, <2>2
  <2>4. PICK i \in S : TRUE  OBVIOUS
  <2>5. n - i \in T  OBVIOUS
  <2> QED  BY <2>3, <2>5
<1>2. IsWellFoundedOn(R, Nat)  BY NatLessThanWellFounded DEF OpToRel
<1>3. \E x \in T : \A y \in T : ~(<<y, x>> \in R)
  <2> HIDE DEF T, R
  <2> QED  BY <1>1, <1>2, WFMin
<1>4. PICK x \in T : \A y \in T : ~(y < x)
  BY <1>1, <1>3
<1>5. PICK i \in S : x = n - i  OBVIOUS
<1>6. \A j \in S : j <= i
  <2> TAKE j \in S
  <2>1. n - j \in T  OBVIOUS
  <2>2. ~(n - j < n - i)  BY <2>1, <1>4, <1>5
  <2> QED  BY <2>2
<1> QED  BY <1>6 DEF LastOf

\* A set of indices has one last element, however it was found.
LEMMA LastOfUnique ==
  ASSUME NEW n \in Nat, NEW S \in SUBSET (1 .. n), NEW i \in S,
         \A j \in S : j <= i
  PROVE  LastOf(S) = i
<1>1. LastOf(S) \in S /\ \A j \in S : j <= LastOf(S)
  BY LastOfProperties
<1>2. \A j \in S : j \in Int  OBVIOUS
<1>3. LastOf(S) \in Int /\ i \in Int  BY <1>1, <1>2
<1>4. LastOf(S) <= i /\ i <= LastOf(S)  BY <1>1
<1> QED  BY <1>3, <1>4
=============================================================================
