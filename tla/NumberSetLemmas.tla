--------------------------- MODULE NumberSetLemmas ---------------------------
(***************************************************************************)
(* What Min and Max of FiniteSetsExt, which choose an element, are.        *)
(***************************************************************************)
EXTENDS Integers, FiniteSets, FiniteSetsExt, FiniteSetTheorems, WellFoundedInduction, TLAPS

(* A finite set of numbers has a least and a greatest element, so Min and  *)
(* Max of FiniteSetsExt are what their names say.                          *)
LEMMA MinFacts ==
    ASSUME NEW S \in SUBSET Int, IsFiniteSet(S), S # {}
    PROVE  Min(S) \in S /\ \A y \in S : Min(S) <= y
<1> DEFINE Below(x) == {y \in S : y < x}
           T == {Below(x) : x \in S}
<1>1. T \subseteq SUBSET S /\ T # {}
    OBVIOUS
<1>2. PICK A \in T : \A B \in T : ~(<<B, A>> \in StrictSubsetOrdering(S))
    <2>1. IsWellFoundedOn(StrictSubsetOrdering(S), SUBSET S)
        BY FS_StrictSubsetOrderingWellFounded, FS_FiniteSubsetsOfFinite, Zenon
    <2> HIDE DEF T
    <2> QED  BY <1>1, <2>1, WFMin
<1>3. PICK x \in S : A = Below(x)
    OBVIOUS
<1>4. ASSUME NEW y \in S, y < x PROVE FALSE
    <2>0. Below(y) \subseteq Below(x)
        <3>1. y \in Int /\ x \in Int /\ \A z \in S : z \in Int
            OBVIOUS
        <3>2. \A z \in S : z < y => z < x
            BY <1>4, <3>1
        <3> QED  BY <3>2
    <2>1. Below(y) \in T /\ Below(y) \subseteq Below(x)
        BY <2>0
    <2>2. y \in Below(x) /\ y \notin Below(y)
        BY <1>4
    <2> HIDE DEF T, Below
    <2>3. <<Below(y), A>> \in StrictSubsetOrdering(S)
        BY <1>1, <1>3, <2>1, <2>2 DEF StrictSubsetOrdering
    <2> QED  BY <1>2, <2>1, <2>3
<1>5. \A y \in S : x <= y
    BY <1>4
<1> QED  BY <1>5 DEF Min

LEMMA MaxFacts ==
    ASSUME NEW S \in SUBSET Int, IsFiniteSet(S), S # {}
    PROVE  Max(S) \in S /\ \A y \in S : y <= Max(S)
<1> DEFINE Above(x) == {y \in S : y > x}
           T == {Above(x) : x \in S}
<1>1. T \subseteq SUBSET S /\ T # {}
    OBVIOUS
<1>2. PICK A \in T : \A B \in T : ~(<<B, A>> \in StrictSubsetOrdering(S))
    <2>1. IsWellFoundedOn(StrictSubsetOrdering(S), SUBSET S)
        BY FS_StrictSubsetOrderingWellFounded, FS_FiniteSubsetsOfFinite, Zenon
    <2> HIDE DEF T
    <2> QED  BY <1>1, <2>1, WFMin
<1>3. PICK x \in S : A = Above(x)
    OBVIOUS
<1>4. ASSUME NEW y \in S, y > x PROVE FALSE
    <2>0. Above(y) \subseteq Above(x)
        <3>1. y \in Int /\ x \in Int /\ \A z \in S : z \in Int
            OBVIOUS
        <3>2. \A z \in S : z > y => z > x
            BY <1>4, <3>1
        <3> QED  BY <3>2
    <2>1. Above(y) \in T /\ Above(y) \subseteq Above(x)
        BY <2>0
    <2>2. y \in Above(x) /\ y \notin Above(y)
        BY <1>4
    <2> HIDE DEF T, Above
    <2>3. <<Above(y), A>> \in StrictSubsetOrdering(S)
        BY <1>1, <1>3, <2>1, <2>2 DEF StrictSubsetOrdering
    <2> QED  BY <1>2, <2>1, <2>3
<1>5. \A y \in S : y <= x
    BY <1>4
<1> QED  BY <1>5 DEF Max

(* So has a set of indexes: an induction is the absence of a least         *)
(* counterexample.                                                         *)
LEMMA LeastNumber ==
    ASSUME NEW N \in Nat, NEW S \in SUBSET (0 .. N), S # {}
    PROVE  \E m \in S : \A y \in S : m <= y
<1>1. IsFiniteSet(0 .. N)
    BY FS_Interval
<1>2. IsFiniteSet(S)
    BY <1>1, FS_Subset
<1>3. S \in SUBSET Int
    OBVIOUS
<1> QED  BY <1>2, <1>3, MinFacts
==============================================================================
