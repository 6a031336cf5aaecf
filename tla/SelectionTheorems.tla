------------------------- MODULE SelectionTheorems --------------------------
(***************************************************************************)
(* Facts about choosing the first matching element of a sequence (what     *)
(* findOne, updateOne and findIndex do), about the largest element of a    *)
(* finite set of numbers (what sort({ chat_id: -1 }).limit(1) does), and   *)
(* about prefixes of sequences.                                            *)
(***************************************************************************)
EXTENDS Integers, Sequences, FiniteSets, SequencesExt, TLAPS,
        WellFoundedInduction, FiniteSetTheorems, SequenceTheorems

\* A non-empty set of naturals has a least element, the one that Min chooses:
\* the initial segments 0..i are well-founded by strict inclusion.
LEMMA LeastNatural ==
    ASSUME NEW I, I \subseteq Nat, I # {}
    PROVE  Min(I) \in I /\ \A j \in I : Min(I) <= j
<1> DEFINE Below == StrictSubsetOrdering(Nat)
           Initials == {0..i : i \in I}
<1>1. IsWellFoundedOn(Below, FiniteSubsetsOf(Nat))
  BY FS_StrictSubsetOrderingWellFounded
<1>2. Initials \subseteq FiniteSubsetsOf(Nat)
  <2>1. \A i \in I : IsFiniteSet(0..i)
    BY FS_Interval
  <2>2. \A i \in I : 0..i \in SUBSET Nat
    OBVIOUS
  <2> QED
    BY <2>1, <2>2, Zenon DEF FiniteSubsetsOf
<1>3. PICK t \in Initials : \A s \in Initials : ~ (<<s, t>> \in Below)
  <2> HIDE DEF Initials, Below
  <2>1. Initials # {}
    BY DEF Initials
  <2> QED
    BY <1>1, <1>2, <2>1, WFMin
<1>4. PICK x \in I : t = 0..x
  BY <1>3
<1>5. ASSUME NEW y \in I, y < x
      PROVE  FALSE
  <2>1. 0..y \subseteq 0..x /\ 0..y # 0..x
    BY <1>5
  <2>2. <<0..y, 0..x>> \in Below
    BY <2>1 DEF StrictSubsetOrdering
  <2> QED
    BY <2>2, <1>3, <1>4
<1>6. \A y \in I : x <= y
  BY <1>5
<1> QED
  BY <1>6, Zenon DEF Min

\* A non-empty finite set of naturals has a largest element, the one that Max
\* chooses: the sets of larger elements are well-founded by strict inclusion.
LEMMA GreatestNatural ==
    ASSUME NEW I, I \subseteq Nat, I # {}, IsFiniteSet(I)
    PROVE  Max(I) \in I /\ \A j \in I : Max(I) >= j
<1> DEFINE Below == StrictSubsetOrdering(Nat)
           Above(i) == {j \in I : j > i}
           Finals == {Above(i) : i \in I}
<1>1. IsWellFoundedOn(Below, FiniteSubsetsOf(Nat))
  BY FS_StrictSubsetOrderingWellFounded
<1>2. Finals \subseteq FiniteSubsetsOf(Nat)
  <2>1. \A i \in I : IsFiniteSet(Above(i))
    <3>1. \A i \in I : Above(i) \in SUBSET I
      OBVIOUS
    <3> QED
      BY <3>1, FS_Subset
  <2>2. \A i \in I : Above(i) \in SUBSET Nat
    OBVIOUS
  <2> QED
    BY <2>1, <2>2, Zenon DEF FiniteSubsetsOf
<1>3. PICK t \in Finals : \A s \in Finals : ~ (<<s, t>> \in Below)
  <2> HIDE DEF Finals, Below
  <2>1. Finals # {}
    BY DEF Finals
  <2> QED
    BY <1>1, <1>2, <2>1, WFMin
<1>4. PICK x \in I : t = Above(x)
  BY <1>3
<1>5. ASSUME NEW y \in I, y > x
      PROVE  FALSE
  <2>1. Above(y) \subseteq Above(x) /\ y \in Above(x) /\ y \notin Above(y)
    <3>1. x \in Nat /\ y \in Nat /\ \A j \in I : j \in Nat
      OBVIOUS
    <3>2. \A j \in I : j > y => j > x
      BY <3>1, <1>5
    <3>3. ~ (y > y)
      BY <3>1
    <3> QED
      BY <3>2, <3>3, <1>5, Zenon
  <2>2. Above(y) # Above(x) /\ Above(x) \subseteq Nat /\ Above(y) \subseteq Nat
    BY <2>1
  <2>3. <<Above(y), Above(x)>> \in Below
    <3> HIDE DEF Above
    <3> QED
      BY <2>1, <2>2 DEF StrictSubsetOrdering
  <2> QED
    BY <2>3, <1>3, <1>4
<1>6. \A y \in I : x >= y
  BY <1>5
<1> QED
  BY <1>6, Zenon DEF Max

\* The index that SelectInSeq returns: 0 when no index matches (the set I of
\* those that match is empty), and else the least index that matches.
LEMMA FirstMatch ==
    ASSUME NEW n \in Nat, NEW I, I \subseteq 1..n, NEW m,
           m = IF I # {} THEN Min(I) ELSE 0
    PROVE  /\ m \in 0..n
           /\ m # 0 <=> I # {}
           /\ m # 0 => m \in I
           /\ \A j \in I : m # 0 /\ m <= j
<1>1. CASE I = {}
  BY <1>1
<1>2. CASE I # {}
  <2>1. Min(I) \in I /\ \A j \in I : Min(I) <= j
    <3>1. I \subseteq Nat
      OBVIOUS
    <3> QED
      BY <1>2, <3>1, LeastNatural
  <2>2. m \in I /\ \A j \in I : m <= j
    BY <1>2, <2>1, Zenon
  <2>3. m \in 1..n
    BY <2>2
  <2> QED
    BY <1>2, <2>2, <2>3
<1> QED
  BY <1>1, <1>2

\* A prefix, element by element.
LEMMA PrefixElements ==
    ASSUME NEW S, NEW s \in Seq(S), NEW t \in Seq(S)
    PROVE  IsPrefix(s, t) <=>
               Len(s) <= Len(t) /\ \A i \in 1..Len(s) : s[i] = t[i]
<1>1. ASSUME Len(s) <= Len(t)
      PROVE  /\ SubSeq(s, 1, Len(s)) = s
             /\ SubSeq(t, 1, Len(s)) \in Seq(S)
             /\ Len(SubSeq(t, 1, Len(s))) = Len(s)
             /\ \A i \in 1..Len(s) : SubSeq(t, 1, Len(s))[i] = t[i]
  BY <1>1
<1> QED
  BY <1>1, SeqEqual, Zenon DEF IsPrefix

\* Prefixes: reflexive, transitive, and a prefix's elements stay.
LEMMA PrefixFacts ==
    ASSUME NEW S, NEW s \in Seq(S), NEW t \in Seq(S), NEW u \in Seq(S)
    PROVE  /\ IsPrefix(s, s)
           /\ IsPrefix(<<>>, s)
           /\ IsPrefix(s, t) /\ IsPrefix(t, u) => IsPrefix(s, u)
           /\ IsPrefix(s, t) => ToSet(s) \subseteq ToSet(t)
<1>1. IsPrefix(s, s)
  BY PrefixElements
<1>2. IsPrefix(<<>>, s)
  <2>1. <<>> \in Seq(S) /\ Len(<<>>) = 0
    OBVIOUS
  <2>2. Len(<<>>) <= Len(s) /\ \A i \in 1..Len(<<>>) : <<>>[i] = s[i]
    BY <2>1
  <2> QED
    BY <2>1, <2>2, PrefixElements, Zenon
<1>3. ASSUME IsPrefix(s, t), IsPrefix(t, u)
      PROVE  IsPrefix(s, u)
  <2>1. Len(s) <= Len(t) /\ \A i \in 1..Len(s) : s[i] = t[i]
    BY <1>3, PrefixElements
  <2>2. Len(t) <= Len(u) /\ \A i \in 1..Len(t) : t[i] = u[i]
    BY <1>3, PrefixElements
  <2>3. Len(s) <= Len(u) /\ \A i \in 1..Len(s) : s[i] = u[i]
    BY <2>1, <2>2
  <2> QED
    BY <2>3, PrefixElements
<1>4. ASSUME IsPrefix(s, t)
      PROVE  ToSet(s) \subseteq ToSet(t)
  <2>1. Len(s) <= Len(t) /\ \A i \in 1..Len(s) : s[i] = t[i]
    BY <1>4, PrefixElements
  <2> QED
    BY <2>1 DEF ToSet
<1> QED
  BY <1>1, <1>2, <1>3, <1>4

\* Append leaves what was there, and adds its element.
LEMMA AppendFacts ==
    ASSUME NEW S, NEW s \in Seq(S), NEW e \in S
    PROVE  /\ Append(s, e) \in Seq(S)
           /\ Len(Append(s, e)) = Len(s) + 1
           /\ \A i \in 1..Len(s) : Append(s, e)[i] = s[i]
           /\ Append(s, e)[Len(s) + 1] = e
           /\ IsPrefix(s, Append(s, e))
           /\ e \in ToSet(Append(s, e))
<1>1. /\ Append(s, e) \in Seq(S)
      /\ Len(Append(s, e)) = Len(s) + 1
      /\ \A i \in 1..Len(s) : Append(s, e)[i] = s[i]
      /\ Append(s, e)[Len(s) + 1] = e
  OBVIOUS
<1>2. IsPrefix(s, Append(s, e))
  <2>1. Len(s) <= Len(Append(s, e)) /\ \A i \in 1..Len(s) : s[i] = Append(s, e)[i]
    BY <1>1
  <2> QED
    BY <1>1, <2>1, PrefixElements, Zenon
<1>3. e \in ToSet(Append(s, e))
  BY <1>1 DEF ToSet
<1> QED
  BY <1>1, <1>2, <1>3
=============================================================================
