----------------------------- MODULE OrderLemmas -----------------------------
(* Facts about numbers, finite sets and sequences that the proofs of several components use.      *)
EXTENDS Integers, Sequences, SequencesExt, FiniteSetTheorems, WellFoundedInduction, TLAPS

LEMMA LeastNatural ==
    ASSUME NEW T \in SUBSET Nat, T # {}
    PROVE  \E n \in T : \A m \in T : n <= m
<1> DEFINE Less == {ss \in Nat \X Nat : ss[1] < ss[2]}
<1>1. IsWellFoundedOn(Less, Nat)
    BY NatLessThanWellFounded DEF OpToRel
<1>2. PICK n \in T : \A m \in T : <<m, n>> \notin Less
    <2> HIDE DEF Less
    <2> QED BY <1>1, WFMin
<1>3. ASSUME NEW m \in T, m < n PROVE FALSE
    <2>1. <<m, n>> \in Nat \X Nat /\ <<m, n>>[1] < <<m, n>>[2]
        BY <1>3
    <2>2. QED
        BY <1>2, <2>1
<1>4. QED
    BY <1>3

\* A finite set of which no element is below itself, along a transitive relation, has a minimal one.
LEMMA FiniteHasMinimal ==
    ASSUME NEW S, IsFiniteSet(S), S # {}, NEW R,
           \A x \in S : <<x, x>> \notin R,
           \A x, y, z \in S : <<x, y>> \in R /\ <<y, z>> \in R => <<x, z>> \in R
    PROVE  \E x \in S : \A y \in S : <<y, x>> \notin R
<1> DEFINE Below(x) == {y \in S : <<y, x>> \in R}
           T == {Below(x) : x \in S}
<1>1. IsWellFoundedOn(StrictSubsetOrdering(S), SUBSET S)
    BY FS_StrictSubsetOrderingWellFounded, FS_FiniteSubsetsOfFinite
<1>2. T \subseteq SUBSET S /\ T # {}
    <2>1. \A x \in S : Below(x) \in SUBSET S
        OBVIOUS
    <2> HIDE DEF Below
    <2>2. QED
        BY <2>1
<1>3. PICK B \in T : \A C \in T : <<C, B>> \notin StrictSubsetOrdering(S)
    <2> HIDE DEF T
    <2> QED BY <1>1, <1>2, WFMin
<1>4. PICK x \in S : B = Below(x)
    BY <1>3
<1>5. ASSUME NEW y \in S, <<y, x>> \in R PROVE FALSE
    <2>1. Below(y) \subseteq Below(x) /\ y \in Below(x) /\ y \notin Below(y)
        BY <1>5
    <2>2. <<Below(y), B>> \in StrictSubsetOrdering(S)
        BY <1>4, <2>1 DEF StrictSubsetOrdering
    <2>3. QED
        BY <1>3, <2>2
<1>6. QED
    BY <1>5

LEMMA LargestOfFinite ==
    ASSUME NEW T \in SUBSET Nat, T # {}, IsFiniteSet(T)
    PROVE  \E n \in T : \A m \in T : m <= n
<1> DEFINE More == {ss \in Nat \X Nat : ss[1] > ss[2]}
<1>1. \A x, y \in Nat : <<x, y>> \in More <=> x > y
    OBVIOUS
<1> HIDE DEF More
<1>2. /\ \A x \in T : <<x, x>> \notin More
      /\ \A x, y, z \in T : <<x, y>> \in More /\ <<y, z>> \in More => <<x, z>> \in More
    BY <1>1
<1>3. PICK n \in T : \A m \in T : <<m, n>> \notin More
    BY <1>2, FiniteHasMinimal
<1>4. \A m \in T : m \in Nat /\ n \in Nat /\ ~(m > n)
    BY <1>1, <1>3
<1>5. QED
    BY <1>4

LEMMA ElementsAreFinite == ASSUME NEW S, NEW s \in Seq(S) PROVE IsFiniteSet(ToSet(s))
<1>1. DOMAIN s = 1..Len(s) /\ Len(s) \in Nat
    OBVIOUS
<1>2. IsFiniteSet(1..Len(s))
    BY <1>1, FS_Interval
<1>3. s \in [1..Len(s) -> ToSet(s)] /\ \A y \in ToSet(s) : \E x \in 1..Len(s) : s[x] = y
    BY <1>1 DEF ToSet
<1>4. s \in Surjection(1..Len(s), ToSet(s))
    BY <1>3 DEF Surjection
<1>5. QED
    BY <1>2, <1>4, FS_Surjection DEF ExistsSurjection

LEMMA TwoElements == ASSUME NEW x, NEW y, x # y PROVE Cardinality({x, y}) = 2
<1>1. IsFiniteSet({x}) /\ Cardinality({x}) = 1 /\ {x, y} = {x} \cup {y}
    BY FS_Singleton
<1>2. QED
    BY <1>1, FS_AddElement

\* A listing of a finite set names its elements only, each of them once.
LEMMA ListingProperties ==
    ASSUME NEW S, IsFiniteSet(S), NEW ids \in SetToSeqs(S)
    PROVE  /\ ids \in Seq(S)
           /\ Len(ids) = Cardinality(S)
           /\ \A m, n \in DOMAIN ids : ids[m] = ids[n] => m = n
<1>1. Cardinality(S) \in Nat
    BY FS_CardinalityType
<1>2. ids \in [1..Cardinality(S) -> S]
    BY DEF SetToSeqs
<1>3. QED
    BY <1>1, <1>2 DEF SetToSeqs
=============================================================================
