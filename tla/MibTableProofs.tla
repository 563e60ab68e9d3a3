---------------------------- MODULE MibTableProofs ----------------------------
(***************************************************************************)
(* Theorems about MibTable, for any finite table in which no prefix lies    *)
(* inside another: Get and GetNext agree, GetNext answers with the closest  *)
(* successor, a walk ascends and misses nothing.                           *)
(***************************************************************************)
EXTENDS MibTable, FiniteSetTheorems, SequenceTheorems, TLAPS

OIDs == Seq(Nat)

-----------------------------------------------------------------------------
(* The order of tuples.                                                    *)

(* A set of numbers has a least one.                                        *)
LEMMA LeastNumber ==
  ASSUME NEW T, T \subseteq Nat, T # {}
  PROVE  \E x \in T : \A y \in T : x <= y
<1> DEFINE R == OpToRel(<, Nat)
<1>1. IsWellFoundedOn(R, Nat)
  BY NatLessThanWellFounded
<1>2. \A x, y \in Nat : y < x => <<y, x>> \in R
  BY DEF OpToRel
<1> HIDE DEF R
<1>3. PICK x \in T : \A y \in T : ~(<<y, x>> \in R)
  BY <1>1, WFMin
<1>4. \A y \in T : ~(y < x)
  BY <1>2, <1>3
<1> QED
  BY <1>4, SMT

(* a is before b: they agree up to a place of b where a ends or is smaller. *)
DiffersAt(a, b, i) ==
  /\ i \in 1 .. Len(b) /\ i <= Len(a) + 1
  /\ \A j \in 1 .. i - 1 : a[j] = b[j]
  /\ i <= Len(a) => a[i] < b[i]

LEMMA PrefixIff ==
  ASSUME NEW a \in OIDs, NEW b \in OIDs
  PROVE  IsPrefix(a, b) <=> Len(a) <= Len(b) /\ \A j \in 1 .. Len(a) : a[j] = b[j]
<1>1. Len(a) \in Nat /\ Len(b) \in Nat
  BY DEF OIDs
<1>2. ASSUME Len(a) <= Len(b)
      PROVE  (SubSeq(a, 1, Len(a)) = SubSeq(b, 1, Len(a))) <=> \A j \in 1 .. Len(a) : a[j] = b[j]
  <2>1. SubSeq(a, 1, Len(a)) = a
    BY SubSeqFull DEF OIDs
  <2>2. \A j \in 1 .. Len(a) : b[j] \in Nat
    BY <1>1, <1>2, ElementOfSeq, SMT DEF OIDs
  <2>3. /\ SubSeq(b, 1, Len(a)) \in OIDs
        /\ Len(SubSeq(b, 1, Len(a))) = Len(a)
        /\ \A j \in 1 .. Len(a) : SubSeq(b, 1, Len(a))[j] = b[j]
    BY <1>1, <2>2, SMT DEF OIDs
  <2> QED
    BY <2>1, <2>3, SeqEqual DEF OIDs
<1> QED
  BY <1>1, <1>2 DEF IsPrefix

LEMMA BeforeIff ==
  ASSUME NEW a \in OIDs, NEW b \in OIDs
  PROVE  Before(a, b) <=> \E i \in 1 .. Len(b) : DiffersAt(a, b, i)
<1>1. Len(a) \in Nat /\ Len(b) \in Nat /\ DOMAIN a = 1 .. Len(a) /\ DOMAIN b = 1 .. Len(b)
  BY LenProperties DEF OIDs
<1>2. ASSUME IsStrictPrefix(a, b)
      PROVE  DiffersAt(a, b, Len(a) + 1) /\ Len(a) + 1 \in 1 .. Len(b)
  <2>1. Len(a) <= Len(b) /\ \A j \in 1 .. Len(a) : a[j] = b[j]
    BY <1>2, PrefixIff DEF IsStrictPrefix
  <2>2. Len(a) # Len(b)
    BY <1>2, <2>1, SeqEqual DEF IsStrictPrefix, OIDs
  <2> DEFINE i == Len(a) + 1
  <2>3. i \in 1 .. Len(b) /\ i <= Len(a) + 1 /\ ~(i <= Len(a)) /\ i - 1 = Len(a)
    <3>1. Len(a) \in Nat /\ Len(b) \in Nat /\ Len(a) <= Len(b) /\ Len(a) # Len(b)
      BY <1>1, <2>1, <2>2
    <3> QED
      BY <3>1, SMT
  <2> HIDE DEF i
  <2>4. DiffersAt(a, b, i)
    BY <2>1, <2>3, Zenon DEF DiffersAt
  <2> QED
    BY <2>3, <2>4 DEF i
<1>3. ASSUME NEW i \in DOMAIN a \cap DOMAIN b, a[i] < b[i], \A j \in 1 .. i - 1 : a[j] = b[j]
      PROVE  DiffersAt(a, b, i)
  BY <1>1, <1>3, SMT DEF DiffersAt
<1>4. ASSUME NEW i \in 1 .. Len(b), DiffersAt(a, b, i)
      PROVE  Before(a, b)
  <2>1. CASE i <= Len(a)
    <3>1. i \in DOMAIN a \cap DOMAIN b /\ a[i] < b[i] /\ \A j \in 1 .. i - 1 : a[j] = b[j]
      BY <1>1, <1>4, <2>1, SMT DEF DiffersAt
    <3> QED
      BY <3>1, Zenon DEF Before
  <2>2. CASE i = Len(a) + 1
    <3>1. Len(a) < Len(b) /\ \A j \in 1 .. Len(a) : a[j] = b[j]
      BY <1>1, <1>4, <2>2, SMT DEF DiffersAt
    <3>2. IsPrefix(a, b) /\ a # b
      BY <1>1, <3>1, PrefixIff, SMT
    <3> QED
      BY <3>2 DEF Before, IsStrictPrefix
  <2> QED
    BY <1>1, <1>4, <2>1, <2>2, SMT DEF DiffersAt
<1> QED
  BY <1>1, <1>2, <1>3, <1>4 DEF Before

LEMMA Element ==
  ASSUME NEW a \in OIDs
  PROVE  Len(a) \in Nat /\ \A i \in 1 .. Len(a) : a[i] \in Nat
BY ElementOfSeq, LenProperties DEF OIDs

LEMMA BeforeIrreflexive ==
  ASSUME NEW a \in OIDs
  PROVE  ~Before(a, a)
<1> SUFFICES ASSUME NEW i \in 1 .. Len(a), DiffersAt(a, a, i)
             PROVE  FALSE
  BY BeforeIff
<1> QED
  BY Element, SMT DEF DiffersAt

LEMMA BeforeTransitive ==
  ASSUME NEW a \in OIDs, NEW b \in OIDs, NEW c \in OIDs, Before(a, b), Before(b, c)
  PROVE  Before(a, c)
<1>1. PICK i \in 1 .. Len(b) : DiffersAt(a, b, i)
  BY BeforeIff
<1>2. PICK k \in 1 .. Len(c) : DiffersAt(b, c, k)
  BY BeforeIff
<1>3. CASE i < k
  <2>1. DiffersAt(a, c, i)
    BY <1>1, <1>2, <1>3, Element, SMT DEF DiffersAt
  <2> QED
    BY <2>1, BeforeIff DEF DiffersAt
<1>4. CASE k < i
  <2>1. DiffersAt(a, c, k)
    BY <1>1, <1>2, <1>4, Element, SMT DEF DiffersAt
  <2> QED
    BY <2>1, BeforeIff DEF DiffersAt
<1>5. CASE k = i
  <2>1. DiffersAt(a, c, k)
    BY <1>1, <1>2, <1>5, Element, SMT DEF DiffersAt
  <2> QED
    BY <2>1, BeforeIff DEF DiffersAt
<1> QED
  BY <1>3, <1>4, <1>5, Element, SMT

LEMMA BeforeTotal ==
  ASSUME NEW a \in OIDs, NEW b \in OIDs
  PROVE  a = b \/ Before(a, b) \/ Before(b, a)
<1> DEFINE T == {i \in Nat \ {0} : i > Len(a) \/ i > Len(b) \/ a[i] # b[i]}
<1>1. Len(a) + 1 \in T /\ T \subseteq Nat
  BY Element, SMT
<1>2. PICK i \in T : \A j \in T : i <= j
  BY <1>1, LeastNumber
<1>3. /\ i \in Nat \ {0} /\ (i > Len(a) \/ i > Len(b) \/ a[i] # b[i])
      /\ \A j \in 1 .. i - 1 : j <= Len(a) /\ j <= Len(b) /\ a[j] = b[j]
  BY <1>2, Element, SMT
<1> HIDE DEF T
<1>4. CASE i <= Len(a) /\ i <= Len(b)
  <2>1. a[i] < b[i] \/ b[i] < a[i]
    BY <1>3, <1>4, Element, SMT
  <2>2. DiffersAt(a, b, i) \/ DiffersAt(b, a, i)
    BY <1>3, <1>4, <2>1, Element, SMT DEF DiffersAt
  <2> QED
    BY <2>2, BeforeIff DEF DiffersAt
<1>5. CASE i > Len(a) /\ i <= Len(b)
  <2>1. DiffersAt(a, b, i)
    BY <1>3, <1>5, Element, SMT DEF DiffersAt
  <2> QED
    BY <2>1, BeforeIff DEF DiffersAt
<1>6. CASE i <= Len(a) /\ i > Len(b)
  <2>1. DiffersAt(b, a, i)
    BY <1>3, <1>6, Element, SMT DEF DiffersAt
  <2> QED
    BY <2>1, BeforeIff DEF DiffersAt
<1>7. CASE i > Len(a) /\ i > Len(b)
  <2>1. Len(a) = i - 1 /\ Len(b) = i - 1
    BY <1>3, <1>7, Element, SMT
  <2> QED
    BY <1>3, <2>1, SeqEqual DEF OIDs
<1> QED
  BY <1>3, <1>4, <1>5, <1>6, <1>7, Element, SMT

LEMMA BeforeAsymmetric ==
  ASSUME NEW a \in OIDs, NEW b \in OIDs, Before(a, b)
  PROVE  ~Before(b, a) /\ a # b
BY BeforeTransitive, BeforeIrreflexive

-----------------------------------------------------------------------------
(* Least and Greatest of a finite set of tuples.                           *)

LEMMA LeastExists ==
  ASSUME NEW S, IsFiniteSet(S), S \subseteq OIDs, S # {}
  PROVE  \E a \in S : \A b \in S : a = b \/ Before(a, b)
<1> DEFINE HasLeast(T) == \E a \in T : \A b \in T : a = b \/ Before(a, b)
           Bad == {T \in SUBSET S : T # {} /\ ~HasLeast(T)}
           Sizes == {n \in Nat : \E T \in Bad : Cardinality(T) = n}
<1>1. SUFFICES ASSUME ~HasLeast(S)
               PROVE  FALSE
  OBVIOUS
<1>2. \A T \in SUBSET S : IsFiniteSet(T) /\ Cardinality(T) \in Nat
  BY FS_Subset, FS_CardinalityType
<1>3. S \in Bad /\ Cardinality(S) \in Sizes /\ Sizes \subseteq Nat
  BY <1>1, <1>2
<1>4. PICK n \in Sizes : \A k \in Sizes : n <= k
  BY <1>3, LeastNumber
<1>5. PICK T \in Bad : Cardinality(T) = n
  BY <1>4
<1>6. PICK x \in T : TRUE
  BY <1>5
<1>7. Cardinality(T \ {x}) = n - 1 /\ n \in Nat
  BY <1>2, <1>5, <1>6, FS_RemoveElement
<1>8. T \ {x} \notin Bad
  <2>1. T \ {x} \in Bad => n - 1 \in Sizes
    BY <1>2, <1>5, <1>7
  <2> QED
    BY <1>4, <1>7, <2>1, SMT
<1>9. T \in SUBSET S /\ ~HasLeast(T)
  BY <1>5
<1>10. CASE T = {x}
  BY <1>9, <1>10
<1>11. CASE T # {x}
  <2>1. PICK y \in T \ {x} : \A b \in T \ {x} : y = b \/ Before(y, b)
    BY <1>6, <1>8, <1>9, <1>11
  <2>2. x \in OIDs /\ y \in OIDs /\ T \subseteq OIDs
    BY <1>6, <1>9, <2>1
  <2>3. CASE Before(y, x)
    BY <1>9, <2>1, <2>3
  <2>4. CASE Before(x, y)
    <3>1. \A b \in T : x = b \/ Before(x, b)
      BY <2>1, <2>2, <2>4, BeforeTransitive
    <3> QED
      BY <1>6, <1>9, <3>1
  <2> QED
    BY <2>1, <2>2, <2>3, <2>4, BeforeTotal
<1> QED
  BY <1>10, <1>11

LEMMA LeastIs ==
  ASSUME NEW S, IsFiniteSet(S), S \subseteq OIDs, S # {}
  PROVE  Least(S) \in S /\ \A b \in S : Least(S) = b \/ Before(Least(S), b)
BY LeastExists DEF Least

(* The same for the converse order: a finite set without its greatest      *)
(* element would have ever larger ones.                                    *)
LEMMA GreatestExists ==
  ASSUME NEW S, IsFiniteSet(S), S \subseteq OIDs, S # {}
  PROVE  \E a \in S : \A b \in S : a = b \/ Before(b, a)
<1> DEFINE HasGreatest(T) == \E a \in T : \A b \in T : a = b \/ Before(b, a)
           Above(a) == {b \in S : Before(a, b)}
           Sizes == {n \in Nat : \E a \in S : Cardinality(Above(a)) = n}
<1>1. \A a \in S : IsFiniteSet(Above(a)) /\ Cardinality(Above(a)) \in Nat
  <2> SUFFICES ASSUME NEW a \in S
               PROVE  IsFiniteSet(Above(a)) /\ Cardinality(Above(a)) \in Nat
    OBVIOUS
  <2>1. Above(a) \in SUBSET S
    OBVIOUS
  <2> QED
    BY <2>1, FS_Subset, FS_CardinalityType
<1>2. Sizes \subseteq Nat /\ Sizes # {}
  BY <1>1
<1>3. PICK n \in Sizes : \A k \in Sizes : n <= k
  BY <1>2, LeastNumber
<1>4. PICK a \in S : Cardinality(Above(a)) = n
  BY <1>3
<1>5. \A b \in S : ~Before(a, b)
  <2> SUFFICES ASSUME NEW b \in S, Before(a, b)
               PROVE  FALSE
    OBVIOUS
  <2>1. Above(b) \subseteq Above(a)
    BY BeforeTransitive
  <2>2. b \in Above(a) /\ b \notin Above(b)
    BY BeforeIrreflexive
  <2>3. Cardinality(Above(b)) <= Cardinality(Above(a)) /\ Cardinality(Above(a)) # Cardinality(Above(b))
    <3>1. IsFiniteSet(Above(a)) /\ Above(b) \in SUBSET Above(a) /\ Above(a) # Above(b)
      BY <1>1, <2>1, <2>2
    <3> HIDE DEF Above
    <3> QED
      BY <3>1, FS_Subset
  <2>4. Cardinality(Above(b)) \in Sizes
    BY <1>1
  <2>5. n \in Nat /\ Cardinality(Above(b)) \in Nat /\ n <= Cardinality(Above(b))
    BY <1>1, <1>2, <1>3, <2>4
  <2> HIDE DEF Above
  <2> QED
    BY <1>4, <2>3, <2>5, SMT
<1> QED
  BY <1>5, BeforeTotal

LEMMA GreatestIs ==
  ASSUME NEW S, IsFiniteSet(S), S \subseteq OIDs, S # {}
  PROVE  Greatest(S) \in S /\ \A b \in S : Greatest(S) = b \/ Before(b, Greatest(S))
BY GreatestExists DEF Greatest

-----------------------------------------------------------------------------
(* Prefixes and sub-ids.                                                   *)

(* replace_sub_id and get_sub_id undo each other.                           *)
LEMMA SubIdOfName ==
  ASSUME NEW p \in OIDs, NEW k \in OIDs
  PROVE  /\ replace_sub_id(p, k) \in OIDs
         /\ IsPrefix(p, replace_sub_id(p, k))
         /\ get_sub_id(p, replace_sub_id(p, k)) = k
         /\ Len(replace_sub_id(p, k)) = Len(p) + Len(k)
         /\ \A i \in 1 .. Len(p) : replace_sub_id(p, k)[i] = p[i]
         /\ \A i \in 1 .. Len(k) : replace_sub_id(p, k)[Len(p) + i] = k[i]
<1> DEFINE x == p \o k
<1>1. Len(p) \in Nat /\ Len(k) \in Nat
  BY Element
<1>2. /\ x \in OIDs /\ Len(x) = Len(p) + Len(k)
      /\ \A i \in 1 .. Len(p) + Len(k) : x[i] = IF i <= Len(p) THEN p[i] ELSE k[i - Len(p)]
  BY ConcatProperties DEF OIDs
<1> HIDE DEF x
<1>3. \A i \in 1 .. Len(p) : x[i] = p[i]
  BY <1>1, <1>2, SMT
<1>4. \A i \in 1 .. Len(k) : x[Len(p) + i] = k[i]
  BY <1>1, <1>2, SMT
<1>5. IsPrefix(p, x)
  BY <1>1, <1>2, <1>3, PrefixIff
<1>6. SubSeq(x, Len(p) + 1, Len(x)) = k
  <2>1. \A i \in Len(p) + 1 .. Len(x) : x[i] \in Nat
    <3>1. \A i \in 1 .. Len(x) : x[i] \in Nat
      BY <1>2, Element
    <3> QED
      BY <1>1, <1>2, <3>1, SMT
  <2>2. /\ SubSeq(x, Len(p) + 1, Len(x)) \in OIDs
        /\ Len(SubSeq(x, Len(p) + 1, Len(x))) = Len(k)
        /\ \A i \in 1 .. Len(k) : SubSeq(x, Len(p) + 1, Len(x))[i] = x[Len(p) + i]
    BY <1>1, <1>2, <2>1, SMT DEF OIDs
  <2> QED
    BY <1>4, <2>2, SeqEqual DEF OIDs
<1> QED
  BY <1>2, <1>3, <1>4, <1>5, <1>6 DEF x, replace_sub_id, get_sub_id

LEMMA NameOfSubId ==
  ASSUME NEW p \in OIDs, NEW x \in OIDs, IsPrefix(p, x)
  PROVE  get_sub_id(p, x) \in OIDs /\ x = replace_sub_id(p, get_sub_id(p, x))
<1> DEFINE s == SubSeq(x, Len(p) + 1, Len(x))
<1>1. Len(p) \in Nat /\ Len(x) \in Nat /\ Len(p) <= Len(x) /\ \A i \in 1 .. Len(p) : x[i] = p[i]
  BY Element, PrefixIff
<1>2. \A i \in Len(p) + 1 .. Len(x) : x[i] \in Nat
  BY <1>1, Element, SMT
<1>3. s \in OIDs /\ Len(s) = Len(x) - Len(p) /\ \A i \in 1 .. Len(x) - Len(p) : s[i] = x[Len(p) + i]
  BY <1>1, <1>2, SMT DEF OIDs
<1> HIDE DEF s
<1>4. /\ replace_sub_id(p, s) \in OIDs /\ Len(replace_sub_id(p, s)) = Len(x)
      /\ \A i \in 1 .. Len(p) : replace_sub_id(p, s)[i] = x[i]
      /\ \A i \in 1 .. Len(s) : replace_sub_id(p, s)[Len(p) + i] = x[Len(p) + i]
  <2>1. /\ replace_sub_id(p, s) \in OIDs /\ Len(replace_sub_id(p, s)) = Len(p) + Len(s)
        /\ \A i \in 1 .. Len(p) : replace_sub_id(p, s)[i] = p[i]
        /\ \A i \in 1 .. Len(s) : replace_sub_id(p, s)[Len(p) + i] = s[i]
    BY <1>3, SubIdOfName
  <2>2. Len(p) + Len(s) = Len(x)
    BY <1>1, <1>3, SMT
  <2> QED
    BY <1>1, <1>3, <2>1, <2>2
<1>5. \A i \in 1 .. Len(x) : replace_sub_id(p, s)[i] = x[i]
  <2> SUFFICES ASSUME NEW i \in 1 .. Len(x), ~(i \in 1 .. Len(p))
               PROVE  replace_sub_id(p, s)[i] = x[i]
    BY <1>4
  <2> DEFINE m == i - Len(p)
  <2>1. m \in 1 .. Len(x) - Len(p) /\ i = Len(p) + m
    BY <1>1, SMT
  <2> HIDE DEF m
  <2> QED
    BY <1>3, <1>4, <2>1
<1>6. replace_sub_id(p, s) = x
  BY <1>4, <1>5, SeqEqual DEF OIDs
<1> QED
  BY <1>3, <1>6 DEF s, get_sub_id

LEMMA NoSubId ==
  ASSUME NEW p \in OIDs
  PROVE  <<>> \in OIDs /\ replace_sub_id(p, <<>>) = p
BY ConcatEmptySeq, EmptySeq DEF OIDs, replace_sub_id

(* Names of one entry are ordered as their sub-ids.                         *)
LEMMA SubIdOrder ==
  ASSUME NEW p \in OIDs, NEW s \in OIDs, NEW k \in OIDs
  PROVE  Before(replace_sub_id(p, s), replace_sub_id(p, k)) <=> Before(s, k)
<1> DEFINE x == replace_sub_id(p, s)
           y == replace_sub_id(p, k)
<1>1. x \in OIDs /\ y \in OIDs
  BY SubIdOfName
<1>2. ASSUME NEW a \in OIDs, NEW b \in OIDs, Before(a, b)
      PROVE  Before(replace_sub_id(p, a), replace_sub_id(p, b))
  <2> DEFINE u == replace_sub_id(p, a)
             v == replace_sub_id(p, b)
  <2>1. /\ u \in OIDs /\ v \in OIDs
        /\ Len(u) = Len(p) + Len(a) /\ Len(v) = Len(p) + Len(b)
        /\ \A i \in 1 .. Len(p) : u[i] = p[i] /\ v[i] = p[i]
        /\ \A i \in 1 .. Len(a) : u[Len(p) + i] = a[i]
        /\ \A i \in 1 .. Len(b) : v[Len(p) + i] = b[i]
    <3>1. /\ u \in OIDs /\ Len(u) = Len(p) + Len(a)
          /\ \A i \in 1 .. Len(p) : u[i] = p[i]
          /\ \A i \in 1 .. Len(a) : u[Len(p) + i] = a[i]
      BY SubIdOfName
    <3>2. /\ v \in OIDs /\ Len(v) = Len(p) + Len(b)
          /\ \A i \in 1 .. Len(p) : v[i] = p[i]
          /\ \A i \in 1 .. Len(b) : v[Len(p) + i] = b[i]
      BY SubIdOfName
    <3> HIDE DEF u, v
    <3> QED
      BY <3>1, <3>2
  <2>2. PICK i \in 1 .. Len(b) : DiffersAt(a, b, i)
    BY <1>2, BeforeIff
  <2> HIDE DEF u, v
  <2>3. Len(p) \in Nat /\ Len(a) \in Nat /\ Len(b) \in Nat
    BY Element
  <2>4. \A j \in 1 .. Len(p) + i - 1 : u[j] = v[j]
    <3> SUFFICES ASSUME NEW j \in 1 .. Len(p) + i - 1, ~(j <= Len(p))
                 PROVE  u[j] = v[j]
      BY <2>1, <2>3, SMT
    <3> DEFINE m == j - Len(p)
    <3>1. m \in 1 .. i - 1 /\ m \in 1 .. Len(a) /\ m \in 1 .. Len(b) /\ j = Len(p) + m
      BY <2>2, <2>3, SMT DEF DiffersAt
    <3> HIDE DEF m
    <3> QED
      BY <2>1, <2>2, <3>1 DEF DiffersAt
  <2>5. Len(p) + i \in 1 .. Len(v) /\ Len(p) + i <= Len(u) + 1
    BY <2>1, <2>2, <2>3, SMT DEF DiffersAt
  <2>6. Len(p) + i <= Len(u) => u[Len(p) + i] < v[Len(p) + i]
    BY <2>1, <2>2, <2>3, SMT DEF DiffersAt
  <2>7. DiffersAt(u, v, Len(p) + i)
    BY <2>4, <2>5, <2>6 DEF DiffersAt
  <2> QED
    BY <2>1, <2>5, <2>7, BeforeIff DEF u, v
<1>3. ASSUME Before(x, y), ~Before(s, k)
      PROVE  FALSE
  <2>1. s = k \/ Before(k, s)
    BY <1>3, BeforeTotal
  <2>2. x = y \/ Before(y, x)
    BY <1>2, <2>1
  <2> QED
    BY <1>1, <1>3, <2>2, BeforeAsymmetric
<1> QED
  BY <1>2, <1>3

LEMMA PrefixBefore ==
  ASSUME NEW p \in OIDs, NEW k \in OIDs
  PROVE  p = replace_sub_id(p, k) \/ Before(p, replace_sub_id(p, k))
BY SubIdOfName DEF Before, IsStrictPrefix

(* What is before a tuple that it is no prefix of stays so when it is       *)
(* extended.                                                               *)
LEMMA ExtendedBefore ==
  ASSUME NEW p \in OIDs, NEW s \in OIDs, NEW y \in OIDs, Before(p, y), ~IsPrefix(p, y)
  PROVE  Before(replace_sub_id(p, s), y)
<1> DEFINE x == replace_sub_id(p, s)
<1>1. x \in OIDs /\ Len(x) = Len(p) + Len(s) /\ \A i \in 1 .. Len(p) : x[i] = p[i]
  BY SubIdOfName
<1> HIDE DEF x
<1>2. PICK i \in 1 .. Len(y) : DiffersAt(p, y, i)
  BY BeforeIff
<1>3. Len(p) \in Nat /\ Len(y) \in Nat /\ Len(s) \in Nat
  BY Element
<1>4. i <= Len(p)
  <2> SUFFICES ASSUME i = Len(p) + 1
               PROVE  FALSE
    BY <1>2, <1>3, SMT DEF DiffersAt
  <2>1. Len(p) <= Len(y) /\ \A j \in 1 .. Len(p) : p[j] = y[j]
    BY <1>2, <1>3, SMT DEF DiffersAt
  <2> QED
    BY <2>1, PrefixIff
<1>5. i <= Len(x) /\ i <= Len(x) + 1 /\ i \in 1 .. Len(p) /\ \A j \in 1 .. i - 1 : j \in 1 .. Len(p)
  BY <1>1, <1>3, <1>4, SMT
<1>6. x[i] < y[i] /\ \A j \in 1 .. i - 1 : x[j] = y[j]
  BY <1>1, <1>2, <1>4, <1>5 DEF DiffersAt
<1>7. DiffersAt(x, y, i)
  BY <1>5, <1>6 DEF DiffersAt
<1> QED
  BY <1>1, <1>7, BeforeIff DEF x

(* The names of two entries are ordered as their prefixes.                  *)
LEMMA PrefixOrder ==
  ASSUME NEW p \in prefixes, NEW q \in prefixes, Before(p, q), NEW s \in OIDs, NEW t \in OIDs
  PROVE  Before(replace_sub_id(p, s), replace_sub_id(q, t))
<1>1. p \in OIDs /\ q \in OIDs /\ ~Nested(p, q)
  BY TableAssumption DEF OIDs
<1>2. ~IsPrefix(p, q)
  BY <1>1, BeforeIrreflexive DEF Nested
<1>3. Before(replace_sub_id(p, s), q)
  BY <1>1, <1>2, ExtendedBefore
<1> QED
  BY <1>1, <1>3, SubIdOfName, PrefixBefore, BeforeTransitive

(* _find_parent_prefix.                                                     *)
LEMMA ParentIsPrefix ==
  ASSUME NEW oid \in OIDs, FindParentPrefix(oid) # None
  PROVE  FindParentPrefix(oid) \in prefixes /\ IsPrefix(FindParentPrefix(oid), oid)
<1> DEFINE preceding == {p \in prefixes : p = oid \/ Before(p, oid)}
<1>1. IsFiniteSet(preceding) /\ preceding \subseteq OIDs
  BY TableAssumption, FS_Subset DEF OIDs
<1>2. preceding # {} /\ FindParentPrefix(oid) = Greatest(preceding) /\ IsPrefix(Greatest(preceding), oid)
  BY DEF FindParentPrefix
<1>3. Greatest(preceding) \in preceding
  BY <1>1, <1>2, GreatestIs
<1> QED
  BY <1>2, <1>3

LEMMA PrefixIsParent ==
  ASSUME NEW oid \in OIDs, NEW p \in prefixes, IsPrefix(p, oid)
  PROVE  FindParentPrefix(oid) = p
<1> DEFINE preceding == {q \in prefixes : q = oid \/ Before(q, oid)}
           g == Greatest(preceding)
<1>1. IsFiniteSet(preceding) /\ preceding \subseteq OIDs /\ p \in OIDs
  BY TableAssumption, FS_Subset DEF OIDs
<1>2. p \in preceding
  BY DEF Before, IsStrictPrefix
<1>3. g \in preceding /\ (g = p \/ Before(p, g))
  BY <1>1, <1>2, GreatestIs
<1>4. g = p
  <2> SUFFICES ASSUME Before(p, g)
               PROVE  FALSE
    BY <1>3
  <2>1. g \in prefixes /\ g \in OIDs
    BY <1>1, <1>3
  <2> DEFINE s == get_sub_id(p, oid)
  <2>2. s \in OIDs /\ oid = replace_sub_id(p, s)
    BY <1>1, NameOfSubId
  <2>3. Before(oid, g)
    BY <2>1, <2>2, NoSubId, PrefixOrder
  <2> QED
    BY <1>3, <2>1, <2>3, BeforeAsymmetric
<1> QED
  BY <1>2, <1>4 DEF FindParentPrefix

-----------------------------------------------------------------------------
(* What the entries yield.                                                 *)

(* The lists and maps of the table hold sub-ids.                            *)
TableOK ==
  /\ present \subseteq Statics
  /\ listed \in [Subtrees -> SUBSET SubIds]
  /\ held \in [Subtrees -> SUBSET SubIds]
  /\ overlay \in [Overlays -> SUBSET SubIds]

(* The sub-ids that an entry lists.                                         *)
Names(p) == IF p \in Statics THEN {<<>>} ELSE listed[p]

LEMMA NamesAreSubIds ==
  ASSUME TableOK, NEW p \in prefixes
  PROVE  p \in OIDs /\ Names(p) \subseteq OIDs /\ (p \notin Statics => p \in Subtrees /\ <<>> \notin Names(p) /\ IsFiniteSet(Names(p)))
<1>1. p \in OIDs /\ (p \notin Statics => p \in Subtrees)
  BY TableAssumption DEF prefixes, OIDs
<1>2. CASE p \in Statics
  BY <1>1, <1>2, NoSubId DEF Names
<1>3. CASE p \notin Statics
  <2>1. Names(p) \in SUBSET SubIds
    BY <1>1, <1>3 DEF Names, TableOK
  <2> QED
    BY <1>1, <1>3, <2>1, TableAssumption, FS_Subset DEF OIDs
<1> QED
  BY <1>2, <1>3

LEMMA NotNone ==
  /\ None \notin OIDs /\ None \notin Values
  /\ \A name \in OIDs, value \in Values : Found(name, value) # None
<1>1. \A name \in OIDs, value \in Values : Found(name, value) \in [name : Seq(Nat), type : {"value"}, value : Values]
  BY DEF Found, OIDs
<1> QED
  BY <1>1, TableAssumption DEF OIDs

(* An entry answers with the sub-ids that it has a value for.               *)
LEMMA AnswerIff ==
  ASSUME NEW p \in OIDs, NEW k \in OIDs
  PROVE  /\ Answer(p, k) # None <=> Call(p, k) # None
         /\ Call(p, k) # None => Answer(p, k) = Found(replace_sub_id(p, k), Call(p, k))
<1>1. Call(p, k) \in Values \cup {None}
  BY DEF Call, Values
<1>2. replace_sub_id(p, k) \in OIDs /\ k # None
  BY SubIdOfName, NotNone
<1> QED
  BY <1>1, <1>2, NotNone DEF Answer

(* The iterator of a subtree gives the least sub-id after a given one.      *)
LEMMA NextIs ==
  ASSUME TableOK, NEW p \in Subtrees, NEW s \in OIDs
  PROVE  /\ NextSubId(p, s) # None =>
              NextSubId(p, s) \in Names(p) /\ Before(s, NextSubId(p, s))
         /\ \A k \in Names(p) : Before(s, k) =>
              /\ NextSubId(p, s) # None
              /\ NextSubId(p, s) = k \/ Before(NextSubId(p, s), k)
<1> DEFINE later == {k \in listed[p] : Before(s, k)}
<1>1. p \in prefixes /\ p \notin Statics
  BY TableAssumption DEF prefixes
<1>2. Names(p) = listed[p] /\ IsFiniteSet(listed[p]) /\ listed[p] \subseteq OIDs
  BY <1>1, NamesAreSubIds DEF Names
<1>3. IsFiniteSet(later) /\ later \subseteq OIDs
  BY <1>2, FS_Subset
<1>4. NextSubId(p, s) = IF later = {} THEN None ELSE Least(later)
  BY <1>1 DEF NextSubId
<1>5. CASE later = {}
  BY <1>2, <1>4, <1>5
<1>6. CASE later # {}
  <2>1. Least(later) \in later /\ \A k \in later : Least(later) = k \/ Before(Least(later), k)
    BY <1>3, <1>6, LeastIs
  <2>2. Least(later) # None
    BY <1>3, <2>1, NotNone
  <2> QED
    BY <1>2, <1>4, <1>6, <2>1, <2>2
<1> QED
  BY <1>5, <1>6

LEMMA EmptyBefore ==
  ASSUME NEW k \in OIDs
  PROVE  (k # <<>> => Before(<<>>, k)) /\ ~Before(k, <<>>)
<1>1. <<>> \in OIDs /\ Len(<<>>) = 0
  BY NoSubId
<1>2. ~Before(k, <<>>)
  BY <1>1, BeforeIff, SMT
<1> QED
  BY <1>1, <1>2, BeforeTotal

LEMMA FirstIs ==
  ASSUME TableOK, NEW p \in prefixes
  PROVE  /\ FirstSubId(p) # None => FirstSubId(p) \in Names(p)
         /\ \A k \in Names(p) :
              /\ FirstSubId(p) # None
              /\ FirstSubId(p) = k \/ Before(FirstSubId(p), k)
<1>0. <<>> \in OIDs
  BY NamesAreSubIds, NoSubId
<1>1. CASE p \in Statics
  <2>1. FirstSubId(p) = <<>> /\ Names(p) = {<<>>}
    BY <1>1 DEF FirstSubId, Names
  <2> QED
    BY <1>0, <2>1, NotNone
<1>2. CASE p \notin Statics
  <2>1. p \in Subtrees /\ Names(p) \subseteq OIDs /\ <<>> \notin Names(p)
    BY <1>2, NamesAreSubIds
  <2>2. \A k \in Names(p) : Before(<<>>, k)
    BY <2>1, EmptyBefore
  <2>3. FirstSubId(p) = NextSubId(p, <<>>)
    BY <1>2 DEF FirstSubId
  <2>4. /\ NextSubId(p, <<>>) # None => NextSubId(p, <<>>) \in Names(p)
        /\ \A k \in Names(p) : Before(<<>>, k) =>
             NextSubId(p, <<>>) # None /\ (NextSubId(p, <<>>) = k \/ Before(NextSubId(p, <<>>), k))
    BY <1>0, <2>1, NextIs
  <2> QED
    BY <2>2, <2>3, <2>4
<1> QED
  BY <1>1, <1>2

(* The instances are the names that an entry lists and has a value for.     *)
LEMMA InstanceIff ==
  ASSUME TableOK
  PROVE  \A n : n \in Instances <=> \E p \in prefixes : \E k \in Names(p) : n = replace_sub_id(p, k) /\ Call(p, k) # None
<1> SUFFICES ASSUME NEW n
             PROVE  n \in Instances <=> \E p \in prefixes : \E k \in Names(p) : n = replace_sub_id(p, k) /\ Call(p, k) # None
  OBVIOUS
<1>1. \A p \in Statics : p \in prefixes /\ Names(p) = {<<>>} /\ replace_sub_id(p, <<>>) = p
  BY TableAssumption, NoSubId DEF Names, prefixes, OIDs
<1>2. \A p \in Statics : (Call(p, <<>>) # None) <=> p \in present
  BY NotNone DEF Call, Values
<1>3. \A p \in Subtrees : p \in prefixes /\ p \notin Statics /\ Names(p) = listed[p]
  BY TableAssumption DEF Names, prefixes
<1>4. \A p \in prefixes : p \in Statics \/ p \in Subtrees
  BY DEF prefixes
<1>5. n \in Instances <=>
        \/ n \in Statics /\ n \in present
        \/ \E p \in Subtrees : \E k \in listed[p] : Call(p, k) # None /\ n = replace_sub_id(p, k)
  BY DEF Instances
<1> QED
  BY <1>1, <1>2, <1>3, <1>4, <1>5

(* The parent of a name, and what Get returns for it.                       *)
LEMMA NameIs ==
  ASSUME TableOK, NEW p \in prefixes, NEW k \in OIDs
  PROVE  /\ replace_sub_id(p, k) \in OIDs
         /\ FindParentPrefix(replace_sub_id(p, k)) = p
         /\ ParentOf(replace_sub_id(p, k)) = p
         /\ get_sub_id(p, replace_sub_id(p, k)) = k
         /\ ValueAt(replace_sub_id(p, k)) = Call(p, k)
<1> DEFINE n == replace_sub_id(p, k)
<1>1. p \in OIDs /\ p # None
  BY TableAssumption, NotNone DEF OIDs
<1>2. n \in OIDs /\ IsPrefix(p, n) /\ get_sub_id(p, n) = k
  BY <1>1, SubIdOfName
<1> HIDE DEF n
<1>3. \A q \in prefixes : IsPrefix(q, n) => FindParentPrefix(n) = q
  BY <1>2, PrefixIsParent
<1>4. ParentOf(n) = p
  BY <1>2, <1>3 DEF ParentOf
<1> QED
  BY <1>1, <1>2, <1>3, <1>4 DEF ValueAt, n

-----------------------------------------------------------------------------
(* Get and GetNext.                                                        *)

Ranges == [start : OIDs, end : OIDs, include : BOOLEAN]

(* An instance that lies after the start.                                   *)
IsAfter(start, answer) ==
  \E m \in Instances : Before(start, m) /\ answer = Found(m, ValueAt(m))

(* _get_nextvalue in the entry of the start answers with an instance after  *)
(* it.                                                                     *)
LEMMA NearbyIsAfter ==
  ASSUME TableOK, NEW start \in OIDs, NextInParent(start) # None
  PROVE  \E k \in OIDs :
           /\ FindParentPrefix(start) \in prefixes
           /\ NextInParent(start) = Found(replace_sub_id(FindParentPrefix(start), k), ValueAt(replace_sub_id(FindParentPrefix(start), k)))
           /\ replace_sub_id(FindParentPrefix(start), k) \in Instances
           /\ Before(start, replace_sub_id(FindParentPrefix(start), k))
<1> DEFINE p == FindParentPrefix(start)
           s == get_sub_id(p, start)
           k == NextSubId(p, s)
<1>1. p # None /\ NextInParent(start) = Answer(p, k)
  BY DEF NextInParent
<1>2. p \in prefixes /\ p \in OIDs /\ IsPrefix(p, start)
  BY <1>1, ParentIsPrefix, NamesAreSubIds
<1> HIDE DEF p
<1>3. s \in OIDs /\ start = replace_sub_id(p, s)
  BY <1>2, NameOfSubId
<1> HIDE DEF s
<1>4. k # None
  BY <1>1 DEF Answer
<1>5. p \in Subtrees
  BY <1>2, <1>4, NamesAreSubIds DEF NextSubId
<1>6. k \in Names(p) /\ Before(s, k)
  BY <1>3, <1>4, <1>5, NextIs
<1> HIDE DEF k
<1>7. k \in OIDs
  BY <1>2, <1>6, NamesAreSubIds
<1>8. Call(p, k) # None /\ Answer(p, k) = Found(replace_sub_id(p, k), Call(p, k))
  BY <1>1, <1>2, <1>7, AnswerIff
<1>9. replace_sub_id(p, k) \in Instances
  BY <1>2, <1>6, <1>8, InstanceIff
<1>10. Before(start, replace_sub_id(p, k))
  BY <1>2, <1>3, <1>6, <1>7, SubIdOrder
<1>11. ValueAt(replace_sub_id(p, k)) = Call(p, k)
  BY <1>2, <1>7, NameIs
<1> QED
  BY <1>1, <1>2, <1>7, <1>8, <1>9, <1>10, <1>11 DEF p

(* The entries that remain answer with an instance of the first that has    *)
(* one.                                                                    *)
Usable(start, end) == {p \in prefixes : Before(start, p) /\ Before(p, end) /\ Answer(p, FirstSubId(p)) # None}

LEMMA BeyondIsAfter ==
  ASSUME TableOK, NEW start \in OIDs, NEW end \in OIDs
  PROVE  IF Usable(start, end) = {} THEN NextInFollowing(start, end) = None
         ELSE \E p \in Usable(start, end) :
                /\ FirstSubId(p) \in Names(p)
                /\ NextInFollowing(start, end) = Found(replace_sub_id(p, FirstSubId(p)), ValueAt(replace_sub_id(p, FirstSubId(p))))
                /\ NextInFollowing(start, end) # None
                /\ replace_sub_id(p, FirstSubId(p)) \in Instances
                /\ Before(start, replace_sub_id(p, FirstSubId(p)))
                /\ \A q \in Usable(start, end) : p = q \/ Before(p, q)
<1> DEFINE U == Usable(start, end)
           p == Least(U)
           k == FirstSubId(p)
<1>1. NextInFollowing(start, end) = IF U = {} THEN None ELSE Answer(p, k)
  <2>1. U = {q \in {q \in prefixes : Before(start, q) /\ Before(q, end)} : Answer(q, FirstSubId(q)) # None}
    BY DEF Usable
  <2> QED
    BY <2>1 DEF NextInFollowing
<1>2. IsFiniteSet(U) /\ U \subseteq OIDs /\ U \subseteq prefixes
  BY TableAssumption, FS_Subset DEF Usable, OIDs
<1> HIDE DEF U
<1>3. CASE U # {}
  <2>1. p \in U /\ \A q \in U : p = q \/ Before(p, q)
    BY <1>2, <1>3, LeastIs
  <2> HIDE DEF p
  <2>2. p \in prefixes /\ p \in OIDs /\ Before(start, p) /\ Answer(p, k) # None
    BY <1>2, <2>1 DEF U, Usable
  <2>3. k # None
    BY <2>2 DEF Answer
  <2>4. k \in Names(p) /\ k \in OIDs
    BY <2>2, <2>3, FirstIs, NamesAreSubIds
  <2> HIDE DEF k
  <2>5. Call(p, k) # None /\ Answer(p, k) = Found(replace_sub_id(p, k), Call(p, k))
    BY <2>2, <2>4, AnswerIff
  <2>6. replace_sub_id(p, k) \in Instances
    BY <2>2, <2>4, <2>5, InstanceIff
  <2>7. Before(start, replace_sub_id(p, k))
    BY <2>2, <2>4, SubIdOfName, PrefixBefore, BeforeTransitive
  <2>8. ValueAt(replace_sub_id(p, k)) = Call(p, k)
    BY <2>2, <2>4, NameIs
  <2> QED
    BY <1>1, <1>3, <2>1, <2>2, <2>4, <2>5, <2>6, <2>7, <2>8 DEF U, k
<1> QED
  BY <1>1, <1>3 DEF U

(* GetNext passes over the start, unless it is asked to include it.         *)
LEMMA GetNextIsAfter ==
  ASSUME TableOK, NEW sr \in Ranges, ~(sr.include /\ ValueAt(sr.start) # None), GetNext(sr).type = "value"
  PROVE  IsAfter(sr.start, GetNext(sr))
<1>1. sr.start \in OIDs /\ sr.end \in OIDs
  BY DEF Ranges
<1>2. CASE NextInParent(sr.start) # None
  <2>1. GetNext(sr) = NextInParent(sr.start)
    BY <1>2 DEF GetNext
  <2> QED
    BY <1>1, <1>2, <2>1, NearbyIsAfter DEF IsAfter
<1>3. CASE NextInParent(sr.start) = None /\ NextInFollowing(sr.start, sr.end) # None
  <2>1. GetNext(sr) = NextInFollowing(sr.start, sr.end)
    BY <1>3 DEF GetNext
  <2> QED
    BY <1>1, <1>3, <2>1, BeyondIsAfter DEF IsAfter
<1>4. CASE NextInParent(sr.start) = None /\ NextInFollowing(sr.start, sr.end) = None
  <2>1. GetNext(sr) = NotFound(sr.start, "endOfMibView")
    BY <1>4 DEF GetNext
  <2> QED
    BY <2>1 DEF NotFound
<1> QED
  BY <1>2, <1>3, <1>4

(* An instance in the entry of the start is not passed over, unless a       *)
(* sub-id without a value lies before it.                                   *)
LEMMA InSameEntry ==
  ASSUME TableOK, NEW start \in OIDs, NEW q \in prefixes, IsPrefix(q, start),
         NEW t \in Names(q), Call(q, t) # None, Before(start, replace_sub_id(q, t)),
         q \in Subtrees =>
           \A k \in Names(q) : Before(start, replace_sub_id(q, k)) /\ Before(k, t) => Call(q, k) # None
  PROVE  \E k \in OIDs : /\ NextInParent(start) = Found(replace_sub_id(q, k), Call(q, k))
                         /\ NextInParent(start) # None
                         /\ k = t \/ Before(k, t)
<1> DEFINE s == get_sub_id(q, start)
           k == NextSubId(q, s)
<1>1. q \in OIDs /\ q # None /\ t \in OIDs /\ Names(q) \subseteq OIDs
  BY NamesAreSubIds, NotNone
<1>2. s \in OIDs /\ start = replace_sub_id(q, s)
  BY <1>1, NameOfSubId
<1>3. NextInParent(start) = Answer(q, k)
  BY <1>1, PrefixIsParent DEF NextInParent
<1> HIDE DEF s
<1>4. Before(s, t)
  BY <1>1, <1>2, SubIdOrder
<1>5. q \notin Statics
  <2> SUFFICES ASSUME q \in Statics
               PROVE  FALSE
    OBVIOUS
  <2>1. t = <<>>
    BY DEF Names
  <2> QED
    BY <1>2, <1>4, <2>1, EmptyBefore
<1>6. q \in Subtrees
  BY <1>5, NamesAreSubIds
<1>7. k \in Names(q) /\ Before(s, k) /\ (k = t \/ Before(k, t))
  BY <1>2, <1>4, <1>6, NextIs
<1> HIDE DEF k
<1>8. k \in OIDs /\ Before(start, replace_sub_id(q, k))
  BY <1>1, <1>2, <1>7, SubIdOrder
<1>9. Call(q, k) # None
  BY <1>6, <1>7, <1>8
<1> QED
  BY <1>1, <1>3, <1>7, <1>8, <1>9, AnswerIff

(* An instance in an entry after the start makes that entry usable.         *)
LEMMA InLaterEntry ==
  ASSUME TableOK, NEW start \in OIDs, NEW end \in OIDs, NEW q \in prefixes, ~IsPrefix(q, start),
         NEW t \in Names(q), Call(q, t) # None,
         Before(start, replace_sub_id(q, t)), Before(replace_sub_id(q, t), end),
         q \in Subtrees =>
           \A k \in Names(q) : Before(start, replace_sub_id(q, k)) /\ Before(k, t) => Call(q, k) # None
  PROVE  q \in Usable(start, end) /\ (FirstSubId(q) = t \/ Before(FirstSubId(q), t))
<1> DEFINE k == FirstSubId(q)
<1>1. q \in OIDs /\ t \in OIDs /\ Names(q) \subseteq OIDs /\ replace_sub_id(q, t) \in OIDs
  BY NamesAreSubIds, SubIdOfName
<1>2. Before(start, q)
  <2>1. start # q
    BY <1>1, PrefixIff
  <2>2. ~Before(q, start)
    <3> SUFFICES ASSUME Before(q, start)
                 PROVE  FALSE
      OBVIOUS
    <3>1. Before(replace_sub_id(q, t), start)
      BY <1>1, ExtendedBefore
    <3> QED
      BY <1>1, <3>1, BeforeAsymmetric
  <2> QED
    BY <1>1, <2>1, <2>2, BeforeTotal
<1>3. Before(q, end)
  BY <1>1, PrefixBefore, BeforeTransitive
<1>4. k \in Names(q) /\ (k = t \/ Before(k, t))
  BY FirstIs
<1> HIDE DEF k
<1>5. k \in OIDs /\ Before(start, replace_sub_id(q, k))
  BY <1>1, <1>2, <1>4, SubIdOfName, PrefixBefore, BeforeTransitive
<1>6. Call(q, k) # None
  <2>1. CASE q \in Subtrees
    BY <1>4, <1>5, <2>1
  <2>2. CASE q \in Statics
    <3>1. k = t
      BY <1>4, <2>2 DEF Names
    <3> QED
      BY <3>1
  <2> QED
    BY <2>1, <2>2 DEF prefixes
<1>7. Answer(q, k) # None
  BY <1>1, <1>5, <1>6, AnswerIff
<1> QED
  BY <1>2, <1>3, <1>4, <1>7 DEF Usable, k

(* GetNext passes over no instance of the range that nothing obstructs.     *)
LEMMA Successor ==
  ASSUME TableOK, NEW sr \in Ranges, ~(sr.include /\ ValueAt(sr.start) # None),
         NEW n \in Instances, Before(sr.start, n), Before(n, sr.end), ~Obstructed(sr, n)
  PROVE  /\ GetNext(sr).type = "value"
         /\ GetNext(sr).name = n \/ Before(GetNext(sr).name, n)
<1> DEFINE start == sr.start
           end == sr.end
<1>1. PICK q \in prefixes : \E t \in Names(q) : n = replace_sub_id(q, t) /\ Call(q, t) # None
  BY InstanceIff
<1>2. PICK t \in Names(q) : n = replace_sub_id(q, t) /\ Call(q, t) # None
  BY <1>1
<1>3. start \in OIDs /\ end \in OIDs /\ q \in OIDs /\ t \in OIDs /\ Names(q) \subseteq OIDs
  BY NamesAreSubIds DEF Ranges
<1>4. n \in OIDs /\ ParentOf(n) = q
  BY <1>2, <1>3, NameIs
<1>5. ASSUME q \in Subtrees, NEW k \in Names(q), Before(start, replace_sub_id(q, k)), Before(k, t)
      PROVE  Call(q, k) # None
  <2>1. k \in listed[q]
    BY <1>5, TableAssumption DEF Names
  <2>2. Before(replace_sub_id(q, k), n)
    BY <1>2, <1>3, <1>5, SubIdOrder
  <2> QED
    BY <1>4, <1>5, <2>1, <2>2 DEF Obstructed
<1>6. CASE IsPrefix(q, start)
  <2>1. PICK k \in OIDs : /\ NextInParent(start) = Found(replace_sub_id(q, k), Call(q, k))
                          /\ NextInParent(start) # None
                          /\ k = t \/ Before(k, t)
    BY <1>2, <1>3, <1>5, <1>6, InSameEntry
  <2>2. GetNext(sr) = NextInParent(start)
    BY <2>1 DEF GetNext
  <2>3. GetNext(sr).type = "value" /\ GetNext(sr).name = replace_sub_id(q, k)
    BY <2>1, <2>2 DEF Found
  <2> QED
    BY <1>2, <1>3, <2>1, <2>3, SubIdOrder
<1>7. CASE ~IsPrefix(q, start) /\ NextInParent(start) # None
  <2> DEFINE p == FindParentPrefix(start)
  <2>1. PICK k \in OIDs : /\ p \in prefixes
                          /\ NextInParent(start) = Found(replace_sub_id(p, k), ValueAt(replace_sub_id(p, k)))
    BY <1>3, <1>7, NearbyIsAfter
  <2>2. p # None /\ p \in OIDs
    BY <2>1, NamesAreSubIds, NotNone
  <2>3. IsPrefix(p, start)
    BY <1>3, <2>2, ParentIsPrefix
  <2>4. get_sub_id(p, start) \in OIDs /\ start = replace_sub_id(p, get_sub_id(p, start))
    BY <1>3, <2>2, <2>3, NameOfSubId
  <2> HIDE DEF p
  <2>5. ~Before(q, p)
    <3> SUFFICES ASSUME Before(q, p)
                 PROVE  FALSE
      OBVIOUS
    <3>1. Before(n, start)
      BY <1>2, <1>3, <2>1, <2>4, PrefixOrder
    <3> QED
      BY <1>3, <1>4, <3>1, BeforeAsymmetric
  <2>6. Before(p, q)
    BY <1>3, <1>7, <2>2, <2>3, <2>5, BeforeTotal
  <2>7. Before(replace_sub_id(p, k), n)
    BY <1>2, <1>3, <2>1, <2>6, PrefixOrder
  <2>8. GetNext(sr) = NextInParent(start)
    BY <1>7 DEF GetNext
  <2> QED
    BY <2>1, <2>7, <2>8 DEF Found
<1>8. CASE ~IsPrefix(q, start) /\ NextInParent(start) = None
  <2>1. q \in Usable(start, end) /\ (FirstSubId(q) = t \/ Before(FirstSubId(q), t))
    BY <1>2, <1>3, <1>5, <1>8, InLaterEntry
  <2>2. PICK p \in Usable(start, end) :
          /\ FirstSubId(p) \in Names(p)
          /\ NextInFollowing(start, end) = Found(replace_sub_id(p, FirstSubId(p)), ValueAt(replace_sub_id(p, FirstSubId(p))))
          /\ NextInFollowing(start, end) # None
          /\ p = q \/ Before(p, q)
    BY <1>3, <2>1, BeyondIsAfter
  <2>3. p \in prefixes
    BY DEF Usable
  <2>4. FirstSubId(p) \in OIDs
    BY <2>2, <2>3, NamesAreSubIds
  <2>5. replace_sub_id(p, FirstSubId(p)) = n \/ Before(replace_sub_id(p, FirstSubId(p)), n)
    <3>1. CASE p = q
      BY <1>2, <1>3, <2>1, <2>4, <3>1, SubIdOrder
    <3>2. CASE Before(p, q)
      BY <1>2, <1>3, <2>3, <2>4, <3>2, PrefixOrder
    <3> QED
      BY <2>2, <3>1, <3>2
  <2>6. GetNext(sr) = NextInFollowing(start, end)
    BY <1>8, <2>2 DEF GetNext
  <2> QED
    BY <2>2, <2>5, <2>6 DEF Found
<1> QED
  BY <1>6, <1>7, <1>8

-----------------------------------------------------------------------------
(* Types.                                                                  *)

LEMMA InstancesAreOIDs ==
  ASSUME TableOK
  PROVE  Instances \subseteq OIDs /\ <<>> \notin Instances
<1> SUFFICES ASSUME NEW n \in Instances
             PROVE  n \in OIDs /\ n # <<>>
  OBVIOUS
<1>1. PICK p \in prefixes : \E k \in Names(p) : n = replace_sub_id(p, k)
  BY InstanceIff
<1>2. PICK k \in Names(p) : n = replace_sub_id(p, k)
  BY <1>1
<1>3. p \in OIDs /\ k \in OIDs /\ p # <<>>
  BY NamesAreSubIds, TableAssumption
<1>4. n \in OIDs /\ Len(n) = Len(p) + Len(k)
  BY <1>2, <1>3, SubIdOfName
<1>5. Len(p) # 0
  BY <1>3, EmptySeq DEF OIDs
<1>6. Len(p) \in Nat /\ Len(k) \in Nat /\ Len(<<>>) = 0
  BY <1>3, Element
<1>7. Len(n) # 0
  BY <1>4, <1>5, <1>6, SMT
<1> QED
  BY <1>4, <1>6, <1>7

(* The walk's requests end after every name.                                *)
LEMMA ViewEndIsLast ==
  /\ ViewEnd \in OIDs
  /\ \A p \in prefixes, k \in OIDs : Before(replace_sub_id(p, k), ViewEnd)
<1> DEFINE g == Greatest(prefixes)
           last == g[1] + 1
<1>1. prefixes \subseteq OIDs /\ \A p \in prefixes : p # <<>>
  BY TableAssumption DEF OIDs
<1>2. g \in prefixes /\ \A p \in prefixes : g = p \/ Before(p, g)
  BY <1>1, TableAssumption, GreatestIs
<1> HIDE DEF g
<1>3. \A p \in prefixes : p \in OIDs /\ Len(p) \in Nat /\ Len(p) >= 1 /\ p[1] \in Nat
  <2> SUFFICES ASSUME NEW p \in prefixes
               PROVE  p \in OIDs /\ Len(p) \in Nat /\ Len(p) >= 1 /\ p[1] \in Nat
    OBVIOUS
  <2>1. p \in OIDs /\ Len(p) \in Nat /\ Len(p) # 0
    BY <1>1, Element, EmptySeq DEF OIDs
  <2>2. Len(p) >= 1 /\ 1 \in 1 .. Len(p)
    BY <2>1, SMT
  <2> QED
    BY <2>1, <2>2, Element
<1>4. \A p \in prefixes : p[1] <= g[1]
  <2> SUFFICES ASSUME NEW p \in prefixes, Before(p, g)
               PROVE  p[1] <= g[1]
    BY <1>2, <1>3, SMT
  <2>1. PICK i \in 1 .. Len(g) : DiffersAt(p, g, i)
    BY <1>2, <1>3, BeforeIff
  <2> QED
    BY <1>2, <1>3, <2>1, SMT DEF DiffersAt
<1>5. last \in Nat /\ \A p \in prefixes : p[1] < last
  BY <1>2, <1>3, <1>4, SMT
<1>6. ViewEnd = <<last>>
  BY DEF ViewEnd, g
<1> HIDE DEF last
<1>7. <<last>> \in OIDs /\ Len(<<last>>) = 1 /\ <<last>>[1] = last
  BY <1>5 DEF OIDs
<1>8. ASSUME NEW p \in prefixes, NEW k \in OIDs
      PROVE  Before(replace_sub_id(p, k), <<last>>)
  <2> DEFINE n == replace_sub_id(p, k)
  <2>1. n \in OIDs /\ Len(n) = Len(p) + Len(k) /\ \A i \in 1 .. Len(p) : n[i] = p[i]
    BY <1>3, SubIdOfName
  <2> HIDE DEF n
  <2>2. n[1] = p[1] /\ Len(n) \in Nat /\ Len(n) >= 1
    <3>1. Len(p) \in Nat /\ Len(k) \in Nat /\ Len(p) >= 1
      BY <1>3, Element
    <3>2. 1 \in 1 .. Len(p) /\ Len(n) \in Nat /\ Len(n) >= 1
      BY <2>1, <3>1, SMT
    <3> QED
      BY <2>1, <3>2
  <2>3. n[1] < last /\ 1 \in 1 .. Len(<<last>>)
    BY <1>5, <1>7, <2>2
  <2>4. \A j \in 1 .. 1 - 1 : FALSE
    BY SMT
  <2>5. 1 <= Len(n) + 1
    BY <2>2, SMT
  <2>6. DiffersAt(n, <<last>>, 1)
    BY <1>7, <2>3, <2>4, <2>5 DEF DiffersAt
  <2> QED
    BY <1>7, <2>1, <2>3, <2>6, BeforeIff DEF n
<1> QED
  BY <1>6, <1>7, <1>8

WalkRequest == [start |-> cursor, end |-> ViewEnd, include |-> FALSE]

LEMMA WalkRequestIs ==
  ASSUME cursor \in OIDs
  PROVE  /\ WalkRequest \in Ranges
         /\ WalkRequest.start = cursor /\ WalkRequest.end = ViewEnd /\ ~WalkRequest.include
         /\ WalkResponse = GetNext(WalkRequest)
<1>1. WalkRequest \in Ranges
  BY ViewEndIsLast DEF WalkRequest, Ranges
<1>2. WalkResponse = GetNext(WalkRequest)
  <2>1. WalkResponse = GetNextResponse(<<WalkRequest>>)[1]
    BY DEF WalkResponse, WalkRequest
  <2>2. GetNextResponse(<<WalkRequest>>)[1] = GetNext(<<WalkRequest>>[1])
    BY DEF GetNextResponse
  <2> QED
    BY <2>1, <2>2
<1> QED
  BY <1>1, <1>2 DEF WalkRequest

(* What a walk is answered with: an instance further on.                    *)
LEMMA WalkGoesOn ==
  ASSUME TableOK, cursor \in OIDs, WalkResponse.type = "value"
  PROVE  WalkResponse.name \in Instances /\ Before(cursor, WalkResponse.name)
<1>1. PICK m \in Instances : Before(cursor, m) /\ WalkResponse = Found(m, ValueAt(m))
  BY WalkRequestIs, GetNextIsAfter DEF IsAfter
<1> QED
  BY <1>1 DEF Found

-----------------------------------------------------------------------------
(* The invariant: what a walk still owes has kept its value and lies ahead  *)
(* of it, or in a subtree whose listed sub-ids do not all have a value.     *)

Owes ==
  cursor # None =>
    /\ TornNow \subseteq torn
    /\ \A n \in owed : n \in Instances /\ (Before(cursor, n) \/ ParentOf(n) \in torn)

IInv == TypeOK /\ Owes

LEMMA TypeIsTable ==
  ASSUME TypeOK
  PROVE  TableOK /\ (cursor # None => cursor \in OIDs)
BY DEF TypeOK, TableOK, OIDs

LEMMA InitIInv == Init => IInv
<1> SUFFICES ASSUME Init
             PROVE  IInv
  OBVIOUS
<1>1. TypeOK
  BY DEF Init, TypeOK
<1>2. Owes
  BY DEF Init, Owes
<1> QED
  BY <1>1, <1>2 DEF IInv

(* A round keeps the walk's history: a name that loses its value is no      *)
(* longer owed, a subtree that is torn is remembered.                      *)
LEMMA RoundStep ==
  ASSUME IInv, WalkSeesRound,
         present' \subseteq Statics,
         listed' \in [Subtrees -> SUBSET SubIds],
         held' \in [Subtrees -> SUBSET SubIds],
         overlay' \in [Overlays -> SUBSET SubIds]
  PROVE  IInv'
<1>1. TornNow' \subseteq Subtrees
  BY DEF TornNow
<1>2. /\ owed' = owed \cap Instances' /\ cursor' = cursor
      /\ torn' = IF cursor = None THEN torn ELSE torn \cup TornNow'
  BY DEF WalkSeesRound
<1>3. cursor \in Seq(Nat) \cup {None} /\ owed \subseteq Seq(Nat) /\ torn \subseteq Subtrees
  BY DEF IInv, TypeOK
<1>4. owed' \subseteq Seq(Nat) /\ torn' \subseteq Subtrees /\ cursor' \in Seq(Nat) \cup {None}
  BY <1>1, <1>2, <1>3
<1>5. TypeOK'
  BY <1>4 DEF TypeOK
<1>6. Owes'
  <2> SUFFICES ASSUME cursor # None
               PROVE  /\ TornNow' \subseteq torn'
                      /\ \A n \in owed' : n \in Instances' /\ (Before(cursor', n) \/ ParentOf(n) \in torn')
    BY <1>2 DEF Owes
  <2>1. \A n \in owed : Before(cursor, n) \/ ParentOf(n) \in torn
    BY DEF IInv, Owes
  <2> QED
    BY <1>2, <2>1
<1> QED
  BY <1>5, <1>6 DEF IInv

LEMMA WalkStartsStep ==
  ASSUME IInv, WalkStarts
  PROVE  IInv'
<1>1. TableOK /\ <<>> \in Seq(Nat)
  BY TypeIsTable, NoSubId DEF IInv, OIDs
<1>2. /\ cursor' = <<>> /\ owed' = Instances /\ torn' = TornNow
      /\ present' = present /\ listed' = listed /\ held' = held /\ overlay' = overlay
  BY DEF WalkStarts, tableVars
<1>3. Instances' = Instances /\ TornNow' = TornNow
  BY <1>2 DEF Instances, TornNow, Call
<1>4. Instances \subseteq Seq(Nat) /\ \A n \in Instances : Before(<<>>, n)
  BY <1>1, InstancesAreOIDs, EmptyBefore DEF OIDs
<1>5. TypeOK'
  BY <1>1, <1>2, <1>4 DEF TypeOK, TableOK, TornNow
<1>6. Owes'
  BY <1>2, <1>3, <1>4 DEF Owes
<1> QED
  BY <1>5, <1>6 DEF IInv

(* What a walk still owes, outside the torn subtrees, it is not past.       *)
LEMMA OwedIsAhead ==
  ASSUME IInv, cursor # None, NEW n \in owed, ParentOf(n) \notin torn
  PROVE  /\ WalkResponse.type = "value"
         /\ WalkResponse.name = n \/ Before(WalkResponse.name, n)
<1>1. TableOK /\ cursor \in OIDs
  BY TypeIsTable DEF IInv
<1>2. n \in Instances /\ Before(cursor, n) /\ TornNow \subseteq torn
  BY DEF IInv, Owes
<1>3. Before(n, ViewEnd)
  <2>1. PICK p \in prefixes : \E k \in Names(p) : n = replace_sub_id(p, k)
    BY <1>1, <1>2, InstanceIff
  <2>2. Names(p) \subseteq OIDs
    BY <1>1, NamesAreSubIds
  <2> QED
    BY <2>1, <2>2, ViewEndIsLast
<1>4. ~Obstructed(WalkRequest, n)
  BY <1>2 DEF Obstructed, TornNow
<1> QED
  BY <1>1, <1>2, <1>3, <1>4, WalkRequestIs, Successor

LEMMA WalkContinuesStep ==
  ASSUME IInv, WalkContinues
  PROVE  IInv'
<1>1. TableOK /\ cursor \in OIDs /\ cursor # None
  BY TypeIsTable DEF IInv, WalkContinues
<1>2. /\ WalkResponse.type = "value" /\ cursor' = WalkResponse.name
      /\ owed' = owed \ {WalkResponse.name} /\ torn' = torn
      /\ present' = present /\ listed' = listed /\ held' = held /\ overlay' = overlay
  BY DEF WalkContinues, tableVars
<1>3. cursor' \in OIDs
  BY <1>1, <1>2, WalkGoesOn, InstancesAreOIDs
<1>4. Instances' = Instances /\ TornNow' = TornNow
  BY <1>2 DEF Instances, TornNow, Call
<1>5. TypeOK'
  BY <1>2, <1>3 DEF IInv, TypeOK, OIDs
<1>6. TornNow \subseteq torn /\ \A n \in owed : n \in Instances
  BY <1>1 DEF IInv, Owes
<1>7. \A n \in owed' : Before(cursor', n) \/ ParentOf(n) \in torn
  BY <1>1, <1>2, OwedIsAhead
<1>8. Owes'
  BY <1>2, <1>4, <1>6, <1>7 DEF Owes
<1> QED
  BY <1>5, <1>8 DEF IInv

LEMMA NextStep == IInv /\ [Next]_vars => IInv'
<1> SUFFICES ASSUME IInv, [Next]_vars
             PROVE  IInv'
  OBVIOUS
<1>0. /\ present \subseteq Statics
      /\ listed \in [Subtrees -> SUBSET SubIds]
      /\ held \in [Subtrees -> SUBSET SubIds]
      /\ overlay \in [Overlays -> SUBSET SubIds]
  BY DEF IInv, TypeOK
<1>1. ASSUME NEW p \in Subtrees, RebuildSubtree(p)
      PROVE  IInv'
  BY <1>0, <1>1, RoundStep DEF RebuildSubtree
<1>2. ASSUME NEW p \in Overlays, RebuildOverlay(p)
      PROVE  IInv'
  BY <1>0, <1>2, RoundStep DEF RebuildOverlay
<1>3. ASSUME NEW p \in Statics, RebuildStatic(p)
      PROVE  IInv'
  BY <1>0, <1>3, RoundStep DEF RebuildStatic
<1>4. CASE WalkStarts
  BY <1>4, WalkStartsStep
<1>5. CASE WalkContinues
  BY <1>5, WalkContinuesStep
<1>6. CASE WalkEnds
  <2>1. cursor' = None /\ owed' = {} /\ torn' = {} /\ UNCHANGED tableVars
    BY <1>6 DEF WalkEnds
  <2>2. TypeOK'
    BY <1>0, <2>1 DEF TypeOK, tableVars
  <2>3. Owes'
    BY <2>1 DEF Owes
  <2> QED
    BY <2>2, <2>3 DEF IInv
<1>7. CASE UNCHANGED vars
  <2>1. TypeOK'
    BY <1>7 DEF IInv, TypeOK, vars, tableVars, walkVars
  <2>2. Instances' = Instances /\ TornNow' = TornNow
    BY <1>7 DEF Instances, TornNow, Call, vars, tableVars
  <2>3. Owes'
    BY <1>7, <2>2 DEF IInv, Owes, vars, walkVars
  <2> QED
    BY <2>1, <2>3 DEF IInv
<1> QED
  BY <1>1, <1>2, <1>3, <1>4, <1>5, <1>6, <1>7 DEF Next

-----------------------------------------------------------------------------
(* The theorems.                                                           *)

(* For any table: a walk's cursor is an OID and what it owes are OIDs,      *)
(* whatever sub-ids the rounds list and whatever values they keep.          *)
THEOREM TableTypeCorrect == Spec => []TypeOK
<1>1. IInv => TypeOK
  BY DEF IInv
<1> QED
  BY <1>1, InitIInv, NextStep, PTL DEF Spec

(* For any table and any search range: what GetNext returns, Get returns    *)
(* for that name, and an inclusive GetNext from a name with a value         *)
(* returns that name.                                                      *)
THEOREM GetAgreesHolds == Spec => []GetAgrees
<1>1. IInv => GetAgrees
  <2> SUFFICES ASSUME TableOK, NEW sr \in SearchRanges
               PROVE  /\ GetNext(sr).type = "value" => Get(GetNext(sr).name) = GetNext(sr)
                      /\ sr.include /\ ValueAt(sr.start) # None => GetNext(sr).name = sr.start
    BY TypeIsTable DEF IInv, GetAgrees
  <2>1. sr \in Ranges
    BY TableAssumption DEF SearchRanges, Ranges, OIDs
  <2>2. CASE sr.include /\ ValueAt(sr.start) # None
    <3>1. GetNext(sr) = Found(sr.start, ValueAt(sr.start))
      BY <2>2 DEF GetNext
    <3>2. GetNext(sr).name = sr.start
      BY <3>1 DEF Found
    <3> QED
      BY <2>2, <3>1, <3>2 DEF Get
  <2>3. CASE ~(sr.include /\ ValueAt(sr.start) # None)
    <3> SUFFICES ASSUME GetNext(sr).type = "value"
                 PROVE  Get(GetNext(sr).name) = GetNext(sr)
      BY <2>3
    <3>1. PICK m \in Instances : GetNext(sr) = Found(m, ValueAt(m))
      BY <2>1, <2>3, GetNextIsAfter DEF IsAfter
    <3>2. PICK p \in prefixes : \E k \in Names(p) : m = replace_sub_id(p, k) /\ Call(p, k) # None
      BY InstanceIff
    <3>3. ValueAt(m) # None
      BY <3>2, NamesAreSubIds, NameIs
    <3>4. GetNext(sr).name = m
      BY <3>1 DEF Found
    <3> QED
      BY <3>1, <3>3, <3>4 DEF Get
  <2> QED
    BY <2>2, <2>3
<1> QED
  BY <1>1, InitIInv, NextStep, PTL DEF Spec

(* For any table: a walk goes strictly upwards, whatever rounds fall        *)
(* between its requests.                                                   *)
THEOREM WalkAscendsHolds == Spec => []WalkAscends
<1>1. IInv => WalkAscends
  BY TypeIsTable, WalkGoesOn DEF IInv, WalkAscends
<1> QED
  BY <1>1, InitIInv, NextStep, PTL DEF Spec

(* For any table: a walk that is told endOfMibView has returned every name  *)
(* that kept its value, except in a torn subtree.                          *)
THEOREM WalkCompleteHolds == Spec => []WalkComplete
<1>1. IInv => WalkComplete
  <2> SUFFICES ASSUME IInv, cursor # None, WalkResponse.type = "endOfMibView",
                      NEW n \in owed, ParentOf(n) \notin torn
               PROVE  FALSE
    BY DEF WalkComplete
  <2> QED
    BY OwedIsAhead
<1> QED
  BY <1>1, InitIInv, NextStep, PTL DEF Spec

(* The table has finitely many instances.                                   *)
LEMMA InstancesFinite ==
  ASSUME TableOK
  PROVE  IsFiniteSet(Instances)
<1> DEFINE K == SubIds \cup {<<>>}
           f == [x \in prefixes \X K |-> replace_sub_id(x[1], x[2])]
           All == {f[x] : x \in prefixes \X K}
<1>1. IsFiniteSet(K)
  BY TableAssumption, FS_AddElement
<1>2. IsFiniteSet(prefixes \X K)
  BY <1>1, TableAssumption, FS_Product
<1>3. f \in Surjection(prefixes \X K, All)
  BY DEF Surjection
<1>4. IsFiniteSet(All)
  <2> HIDE DEF K, f, All
  <2> QED
    BY <1>2, <1>3, FS_Surjection
<1>5. ASSUME NEW n \in Instances
      PROVE  n \in All
  <2>1. PICK p \in prefixes : \E k \in Names(p) : n = replace_sub_id(p, k)
    BY InstanceIff
  <2>2. PICK k \in Names(p) : n = replace_sub_id(p, k)
    BY <2>1
  <2>3. k \in K
    BY DEF Names, TableOK, prefixes
  <2>4. <<p, k>> \in prefixes \X K /\ f[<<p, k>>] = n
    BY <2>2, <2>3
  <2> QED
    BY <2>4
<1>6. Instances \in SUBSET All
  BY <1>5
<1> HIDE DEF All
<1> QED
  BY <1>4, <1>6, FS_Subset

(* For any table and any search range: GetNext answers with the closest     *)
(* successor, unless a sub-id without a value obstructs it.                 *)
THEOREM ClosestSuccessorHolds == Spec => []ClosestSuccessor
<1>1. IInv => ClosestSuccessor
  <2> SUFFICES ASSUME TableOK, NEW sr \in SearchRanges,
                      InRange(sr) # {}, ~Obstructed(sr, Least(InRange(sr)))
               PROVE  \/ GetNext(sr) = Found(Least(InRange(sr)), Call(ParentOf(Least(InRange(sr))),
                                             get_sub_id(ParentOf(Least(InRange(sr))), Least(InRange(sr)))))
                      \/ sr.include /\ GetNext(sr) = Get(sr.start)
    BY TypeIsTable DEF IInv, ClosestSuccessor
  <2> DEFINE n == Least(InRange(sr))
  <2>1. sr \in Ranges /\ sr.start \in OIDs /\ sr.end \in OIDs
    BY TableAssumption DEF SearchRanges, Ranges, OIDs
  <2>2. CASE sr.include /\ ValueAt(sr.start) # None
    BY <2>2 DEF GetNext, Get
  <2>3. CASE ~(sr.include /\ ValueAt(sr.start) # None)
    <3>1. IsFiniteSet(InRange(sr)) /\ InRange(sr) \subseteq OIDs
      <4>1. InRange(sr) \in SUBSET Instances
        BY DEF InRange
      <4> QED
        BY <4>1, InstancesFinite, InstancesAreOIDs, FS_Subset
    <3>2. n \in InRange(sr) /\ \A b \in InRange(sr) : n = b \/ Before(n, b)
      BY <3>1, LeastIs
    <3> HIDE DEF n
    <3>3. n \in Instances /\ n \in OIDs /\ Before(n, sr.end)
      BY <3>1, <3>2 DEF InRange
    <3>4. PICK p \in prefixes : \E k \in Names(p) : n = replace_sub_id(p, k) /\ Call(p, k) # None
      BY <3>3, InstanceIff
    <3>5. PICK k \in Names(p) : n = replace_sub_id(p, k) /\ Call(p, k) # None
      BY <3>4
    <3>6. k \in OIDs
      BY NamesAreSubIds
    <3>7. ParentOf(n) = p /\ get_sub_id(p, n) = k /\ ValueAt(n) = Call(p, k)
      BY <3>5, <3>6, NameIs
    <3>8. Before(sr.start, n)
      <4>1. ~(sr.include /\ n = sr.start)
        BY <2>3, <3>5, <3>7
      <4> QED
        BY <3>2, <4>1 DEF InRange
    <3>9. /\ GetNext(sr).type = "value"
          /\ GetNext(sr).name = n \/ Before(GetNext(sr).name, n)
      BY <2>1, <2>3, <3>3, <3>8, Successor DEF n
    <3>10. PICK m \in Instances : Before(sr.start, m) /\ GetNext(sr) = Found(m, ValueAt(m))
      BY <2>1, <2>3, <3>9, GetNextIsAfter DEF IsAfter
    <3>11. m \in OIDs /\ GetNext(sr).name = m
      BY <3>10, InstancesAreOIDs DEF Found
    <3>12. m = n
      <4> SUFFICES ASSUME Before(m, n)
                   PROVE  FALSE
        BY <3>9, <3>11
      <4>1. Before(m, sr.end)
        BY <2>1, <3>3, <3>11, BeforeTransitive
      <4>2. m \in InRange(sr)
        BY <3>10, <4>1 DEF InRange
      <4>3. n = m \/ Before(n, m)
        BY <3>2, <4>2
      <4> QED
        BY <3>3, <3>11, <4>3, BeforeAsymmetric
    <3>13. GetNext(sr) = Found(n, Call(ParentOf(n), get_sub_id(ParentOf(n), n)))
      BY <3>7, <3>10, <3>12
    <3> QED
      BY <3>13 DEF n
  <2> QED
    BY <2>2, <2>3
<1> QED
  BY <1>1, InitIInv, NextStep, PTL DEF Spec

=============================================================================
