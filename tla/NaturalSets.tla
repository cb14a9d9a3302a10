------------------------------ MODULE NaturalSets ------------------------------
(***************************************************************************)
(* Facts about the greatest element of a bounded set of numbers, for the   *)
(* proofs: batches end at the greatest event that fits, acknowledgements   *)
(* keep the greater of two positions, and the operations safe on disk are  *)
(* counted up to the greatest without a gap.                               *)
(***************************************************************************)
EXTENDS Naturals, FiniteSets, FiniteSetsExt, FiniteSetTheorems, TLAPS

\* A bounded set of numbers has a greatest one: the largest of the sets of those
\* above one of them is minimal for it.
LEMMA GreatestExists ==
  ASSUME NEW n \in Nat, NEW S \in SUBSET (0..n), S # {}
  PROVE  Max(S) \in S /\ \A m \in S : m <= Max(S)
<1> DEFINE Above(k) == {m \in S : m > k}
           Family   == {Above(k) : k \in S}
<1>1. IsFiniteSet(S)
  BY FS_BoundedSetOfNaturals
<1>2. Family \subseteq FiniteSubsetsOf(S)
  BY <1>1, FS_Subset DEF FiniteSubsetsOf
<1>3. PICK U \in Family : \A V \in Family : <<V, U>> \notin StrictSubsetOrdering(S)
  <2>1. Family # {}
    OBVIOUS
  <2> HIDE DEF Family
  <2>2. IsWellFoundedOn(StrictSubsetOrdering(S), FiniteSubsetsOf(S))
    BY FS_StrictSubsetOrderingWellFounded
  <2> QED
    BY ONLY <1>2, <2>1, <2>2, WFMin
<1>4. PICK k \in S : U = Above(k)
  BY <1>3
<1>5. \A m \in S : m <= k
  <2> SUFFICES ASSUME NEW m \in S, ~(m <= k) PROVE FALSE
    OBVIOUS
  <2>1. m > k /\ k \in Nat /\ m \in Nat
    OBVIOUS
  <2>2. Above(m) \subseteq Above(k) /\ m \in Above(k) /\ m \notin Above(m)
    <3>1. \A j \in S : j > m => j > k
      BY <2>1
    <3>2. ~(m > m)
      BY <2>1
    <3> QED
      BY <2>1, <3>1, <3>2
  <2>3. Above(m) \in Family
    OBVIOUS
  <2>4. <<Above(m), U>> \in StrictSubsetOrdering(S)
    BY <1>4, <2>2 DEF StrictSubsetOrdering
  <2> QED
    BY <1>3, <2>3, <2>4
<1>6. \A m \in S : m \in Nat
  OBVIOUS
<1> HIDE DEF Above, Family
<1>7. \E x \in S : \A y \in S : x >= y
  BY <1>5, <1>6
<1> QED
  BY <1>6, <1>7 DEF Max

\* The greater of two numbers.
LEMMA MaxOfTwo ==
  ASSUME NEW a \in Nat, NEW b \in Nat
  PROVE  Max({a, b}) \in {a, b} /\ a <= Max({a, b}) /\ b <= Max({a, b})
<1>1. \E x \in {a, b} : \A y \in {a, b} : x >= y
  OBVIOUS
<1> QED
  BY <1>1 DEF Max

=============================================================================
