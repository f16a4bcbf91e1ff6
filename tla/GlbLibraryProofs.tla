-------------------------- MODULE GlbLibraryProofs --------------------------
(***************************************************************************)
(* Proofs about the GLB library, for any number of writers and readers and *)
(* any GLBs and asset IDs, and about the inspection of GLB headers.        *)
(***************************************************************************)
EXTENDS GlbLibrary, GlbMetadata, FiniteSetTheorems, WellFoundedInduction,
        SequenceTheorems, TLAPS

(* --- trimming ---------------------------------------------------------- *)

\* Of the intervals 0 .. n with n in T, one includes no other.
LEMMA LeastOfSome ==
  ASSUME NEW T \in SUBSET Nat, T # {}
  PROVE  \E x \in T : \A y \in T : x <= y
<1> DEFINE upto == {0 .. n : n \in T}
<1>1. upto \subseteq FiniteSubsetsOf(Nat)
  <2>1. ASSUME NEW n \in T PROVE 0 .. n \in FiniteSubsetsOf(Nat)
    <3>1. n \in Nat /\ 0 .. n \in SUBSET Nat
      OBVIOUS
    <3> QED
      BY <3>1, FS_Interval DEF FiniteSubsetsOf
  <2> QED
    BY <2>1
<1>2. upto # {}
  OBVIOUS
<1>3. PICK U \in upto : \A V \in upto : <<V, U>> \notin StrictSubsetOrdering(Nat)
  <2> HIDE DEF upto
  <2> QED
    BY <1>1, <1>2, FS_StrictSubsetOrderingWellFounded, WFMin
<1>4. PICK x \in T : U = 0 .. x
  OBVIOUS
<1>5. ASSUME NEW y \in T PROVE x <= y
  <2>1. SUFFICES ASSUME y < x PROVE FALSE
    OBVIOUS
  <2>2. 0 .. y \in upto
    OBVIOUS
  <2>3. <<0 .. y, 0 .. x>> \in StrictSubsetOrdering(Nat)
    BY <2>1 DEF StrictSubsetOrdering
  <2> QED
    BY <1>3, <1>4, <2>2, <2>3
<1> QED
  BY <1>5

LEMMA GreatestOfSome ==
  ASSUME NEW n \in Nat, NEW T \in SUBSET (1 .. n), T # {}
  PROVE  \E x \in T : \A y \in T : y <= x
<1> DEFINE below == {n - y : y \in T}
<1>1. below \in SUBSET Nat /\ below # {}
  <2>1. \A y \in T : y \in Int /\ y <= n /\ n - y \in Nat
    OBVIOUS
  <2> QED
    BY <2>1
<1>2. PICK z \in below : \A v \in below : z <= v
  <2> HIDE DEF below
  <2> QED
    BY <1>1, LeastOfSome
<1>3. PICK x \in T : z = n - x
  OBVIOUS
<1>4. ASSUME NEW y \in T PROVE y <= x
  <2>1. n - y \in below
    OBVIOUS
  <2>2. n - x <= n - y
    BY <1>2, <1>3, <2>1
  <2>3. x \in Int /\ y \in Int
    OBVIOUS
  <2> QED
    BY <2>2, <2>3
<1> QED
  BY <1>4

LEMMA SequenceOfMore ==
  ASSUME NEW A, NEW B, A \subseteq B, NEW s \in Seq(A)
  PROVE  s \in Seq(B)
<1>1. SubSeq(s, 1, Len(s)) \in Seq(B)
  <2>1. \A i \in 1 .. Len(s) : s[i] \in B
    OBVIOUS
  <2>2. Len(s) \in Int
    OBVIOUS
  <2> QED
    BY <2>1, <2>2, SubSeqProperties
<1> QED
  BY <1>1, SubSeqFull

LEMMA TrimIsASequence ==
  ASSUME NEW S, NEW s \in Seq(S), NEW C
  PROVE  Trim(s, C) \in Seq(S)
<1> DEFINE kept == {i \in 1 .. Len(s) : s[i] \notin C}
           first == CHOOSE i \in kept : \A j \in kept : i <= j
           last == CHOOSE i \in kept : \A j \in kept : j <= i
<1>1. CASE kept = {}
  BY <1>1 DEF Trim
<1>2. CASE kept # {}
  <2>1. kept \in SUBSET Nat /\ kept \in SUBSET (1 .. Len(s)) /\ Len(s) \in Nat
    OBVIOUS
  <2>2. first \in kept /\ last \in kept
    <3> HIDE DEF kept
    <3>1. \E i \in kept : \A j \in kept : i <= j
      BY <1>2, <2>1, LeastOfSome
    <3>2. \E i \in kept : \A j \in kept : j <= i
      BY <1>2, <2>1, GreatestOfSome
    <3> QED
      BY <3>1, <3>2
  <2>3. first \in 1 .. Len(s) /\ last \in 1 .. Len(s)
    BY <2>2
  <2>4. SubSeq(s, first, last) \in Seq(S)
    <3> HIDE DEF first, last
    <3>1. \A i \in first .. last : s[i] \in S
      BY <2>3
    <3> QED
      BY <2>3, <3>1, SubSeqProperties
  <2> QED
    BY <1>2, <2>4 DEF Trim
<1> QED
  BY <1>1, <1>2

\* The characters trimmed off are those before a and those after b.
Bounds(s, C, a, b) ==
  /\ a \in 1 .. Len(s) /\ b \in 1 .. Len(s)
  /\ s[a] \notin C /\ s[b] \notin C
  /\ \A i \in 1 .. Len(s) : s[i] \notin C => a <= i /\ i <= b

LEMMA TrimIs ==
  ASSUME NEW S, NEW s \in Seq(S), NEW C, NEW a, NEW b, Bounds(s, C, a, b)
  PROVE  Trim(s, C) = SubSeq(s, a, b)
<1> DEFINE kept == {i \in 1 .. Len(s) : s[i] \notin C}
<1>1. /\ a \in kept /\ b \in kept
      /\ \A i \in kept : i \in Int /\ a <= i /\ i <= b
  BY DEF Bounds
<1>2. Trim(s, C) = SubSeq(s, CHOOSE i \in kept : \A j \in kept : i <= j,
                             CHOOSE i \in kept : \A j \in kept : j <= i)
  BY <1>1 DEF Trim
<1> HIDE DEF kept
<1>3. a = CHOOSE i \in kept : \A j \in kept : i <= j
  BY <1>1
<1>4. b = CHOOSE i \in kept : \A j \in kept : j <= i
  BY <1>1
<1> QED
  BY <1>2, <1>3, <1>4

LEMMA TrimOfAll ==
  ASSUME NEW s, NEW C, \A i \in 1 .. Len(s) : s[i] \in C
  PROVE  Trim(s, C) = <<>>
BY DEF Trim

LEMMA SomeBounds ==
  ASSUME NEW S, NEW s \in Seq(S), NEW C, NEW k \in 1 .. Len(s), s[k] \notin C
  PROVE  \E a, b : Bounds(s, C, a, b)
<1> DEFINE kept == {i \in 1 .. Len(s) : s[i] \notin C}
<1>1. /\ kept \in SUBSET Nat /\ kept \in SUBSET (1 .. Len(s)) /\ Len(s) \in Nat
      /\ kept # {}
  OBVIOUS
<1>2. PICK a \in kept : \A j \in kept : a <= j
  <2> HIDE DEF kept
  <2> QED
    BY <1>1, LeastOfSome
<1>3. PICK b \in kept : \A j \in kept : j <= b
  <2> HIDE DEF kept
  <2> QED
    BY <1>1, GreatestOfSome
<1>4. Bounds(s, C, a, b)
  BY <1>2, <1>3 DEF Bounds
<1> QED
  BY <1>4

\* What is left neither begins nor ends with a character of C.
LEMMA TrimmedEnds ==
  ASSUME NEW S, NEW s \in Seq(S), NEW C, Trim(s, C) # <<>>
  PROVE  /\ Len(Trim(s, C)) \in Nat \ {0}
         /\ Trim(s, C)[1] \notin C /\ Trim(s, C)[Len(Trim(s, C))] \notin C
<1>1. PICK k \in 1 .. Len(s) : s[k] \notin C
  BY TrimOfAll
<1>2. PICK a, b : Bounds(s, C, a, b)
  BY <1>1, SomeBounds
<1>3. /\ a \in Int /\ b \in Int /\ a <= b /\ \A i \in a .. b : s[i] \in S
      /\ s[a] \notin C /\ s[b] \notin C
  BY <1>2 DEF Bounds
<1> DEFINE t == SubSeq(s, a, b)
<1>4. /\ Len(t) = b - a + 1
      /\ \A i \in 1 .. b - a + 1 : t[i] = s[a + i - 1]
  BY <1>3, SubSeqProperties
<1>5. Trim(s, C) = t
  BY <1>2, TrimIs
<1> HIDE DEF t
<1>6. t[1] = s[a] /\ t[Len(t)] = s[b]
  <2>1. 1 \in 1 .. b - a + 1 /\ b - a + 1 \in 1 .. b - a + 1
    BY <1>3
  <2>2. t[1] = s[a + 1 - 1] /\ t[b - a + 1] = s[a + (b - a + 1) - 1]
    BY <1>4, <2>1
  <2>3. a + 1 - 1 = a /\ a + (b - a + 1) - 1 = b
    BY <1>3
  <2> QED
    BY <1>4, <2>2, <2>3
<1> QED
  BY <1>3, <1>4, <1>5, <1>6

LEMMA NothingToTrim ==
  ASSUME NEW S, NEW s \in Seq(S), NEW C, s # <<>>, s[1] \notin C, s[Len(s)] \notin C
  PROVE  Trim(s, C) = s
<1>1. Len(s) \in Nat \ {0}
  OBVIOUS
<1>2. Bounds(s, C, 1, Len(s))
  BY <1>1 DEF Bounds
<1> QED
  BY <1>2, TrimIs, SubSeqFull

\* Nothing is longer trimmed, and what has a character to trim at an end is shorter.
LEMMA TrimShortens ==
  ASSUME NEW S, NEW s \in Seq(S), NEW C
  PROVE  /\ Len(Trim(s, C)) <= Len(s)
         /\ s # <<>> /\ (s[1] \in C \/ s[Len(s)] \in C) => Len(Trim(s, C)) < Len(s)
<1>1. CASE \A i \in 1 .. Len(s) : s[i] \in C
  <2>1. Len(Trim(s, C)) = 0
    BY <1>1, TrimOfAll
  <2>2. Len(s) \in Nat /\ (s # <<>> => Len(s) # 0)
    OBVIOUS
  <2> QED
    BY <2>1, <2>2
<1>2. CASE \E i \in 1 .. Len(s) : s[i] \notin C
  <2>1. PICK a, b : Bounds(s, C, a, b)
    BY <1>2, SomeBounds
  <2>2. /\ a \in 1 .. Len(s) /\ b \in 1 .. Len(s) /\ a <= b
        /\ s[a] \notin C /\ s[b] \notin C /\ \A i \in a .. b : s[i] \in S
    BY <2>1 DEF Bounds
  <2>3. Len(SubSeq(s, a, b)) = b - a + 1
    BY <2>2, SubSeqProperties
  <2>4. Trim(s, C) = SubSeq(s, a, b)
    BY <2>1, TrimIs
  <2>5. Len(s) \in Nat
    OBVIOUS
  <2>6. s[1] \in C \/ s[Len(s)] \in C => a # 1 \/ b # Len(s)
    BY <2>2
  <2>7. Len(Trim(s, C)) = b - a + 1
    BY <2>3, <2>4
  <2> QED
    BY <2>2, <2>5, <2>6, <2>7
<1> QED
  BY <1>1, <1>2

LEMMA Surrounded ==
  ASSUME NEW S, NEW s \in Seq(S), NEW c \in S
  PROVE  /\ <<c>> \o s \o <<c>> \in Seq(S)
         /\ Len(<<c>> \o s \o <<c>>) = Len(s) + 2
         /\ (<<c>> \o s \o <<c>>)[1] = c /\ (<<c>> \o s \o <<c>>)[Len(s) + 2] = c
         /\ \A i \in 1 .. Len(s) : (<<c>> \o s \o <<c>>)[i + 1] = s[i]
<1>1. /\ <<c>> \in Seq(S) /\ Len(<<c>>) = 1 /\ <<c>>[1] = c /\ Len(s) \in Nat
  OBVIOUS
<1> DEFINE x == <<c>>
<1> HIDE DEF x
<1>2. /\ x \o s \in Seq(S) /\ Len(x \o s) = 1 + Len(s)
      /\ \A i \in 1 .. 1 + Len(s) : (x \o s)[i] = IF i <= 1 THEN c ELSE s[i - 1]
  <2>1. x \in Seq(S) /\ Len(x) = 1 /\ x[1] = c
    BY <1>1 DEF x
  <2> QED
    BY <1>1, <2>1, ConcatProperties
<1> DEFINE y == x \o s
<1> HIDE DEF y
<1>3. /\ y \o x \in Seq(S) /\ Len(y \o x) = Len(s) + 2
      /\ \A i \in 1 .. Len(s) + 2 :
           (y \o x)[i] = IF i <= Len(s) + 1 THEN y[i] ELSE x[i - (Len(s) + 1)]
  <2>1. x \in Seq(S) /\ Len(x) = 1 /\ y \in Seq(S) /\ Len(y) = Len(s) + 1
    BY <1>1, <1>2 DEF x, y
  <2>2. /\ y \o x \in Seq(S) /\ Len(y \o x) = Len(y) + Len(x)
        /\ \A i \in 1 .. Len(y) + Len(x) :
             (y \o x)[i] = IF i <= Len(y) THEN y[i] ELSE x[i - Len(y)]
    BY <2>1, ConcatProperties
  <2>3. Len(y) + Len(x) = Len(s) + 2
    BY <1>1, <2>1
  <2> QED
    BY <2>1, <2>2, <2>3
<1>4. x[1] = c /\ y[1] = c /\ \A i \in 1 .. Len(s) : y[i + 1] = s[i]
  <2>1. \A i \in 1 .. Len(s) : i + 1 \in 1 .. 1 + Len(s) /\ ~(i + 1 <= 1) /\ i + 1 - 1 = i
    BY <1>1
  <2>2. x[1] = c /\ y[1] = c
    BY <1>1, <1>2 DEF x, y
  <2>3. \A i \in 1 .. Len(s) : y[i + 1] = s[i + 1 - 1]
    BY <1>2, <2>1 DEF y
  <2> QED
    BY <2>1, <2>2, <2>3
<1>5. /\ (y \o x)[1] = c /\ (y \o x)[Len(s) + 2] = c
      /\ \A i \in 1 .. Len(s) : (y \o x)[i + 1] = s[i]
  <2>1. Len(s) + 2 \in 1 .. Len(s) + 2 /\ 1 \in 1 .. Len(s) + 2 /\ Len(s) + 2 - (Len(s) + 1) = 1
    BY <1>1
  <2>2. \A i \in 1 .. Len(s) : i + 1 \in 1 .. Len(s) + 2 /\ i + 1 <= Len(s) + 1
    BY <1>1
  <2>3. (y \o x)[1] = c
    BY <1>1, <1>3, <1>4, <2>1
  <2>4. (y \o x)[Len(s) + 2] = x[Len(s) + 2 - (Len(s) + 1)]
    BY <1>1, <1>3, <2>1
  <2>5. \A i \in 1 .. Len(s) : (y \o x)[i + 1] = y[i + 1]
    BY <1>3, <2>2
  <2> QED
    BY <1>4, <2>1, <2>3, <2>4, <2>5
<1> QED
  BY <1>3, <1>5 DEF x, y

\* A character of C around a string is trimmed with what else is trimmed of it.
LEMMA SurroundedTrims ==
  ASSUME NEW S, NEW s \in Seq(S), NEW C, NEW c \in S \cap C
  PROVE  Trim(<<c>> \o s \o <<c>>, C) = Trim(s, C)
<1> DEFINE t == <<c>> \o s \o <<c>>
<1>1. /\ t \in Seq(S) /\ Len(t) = Len(s) + 2 /\ Len(s) \in Nat
      /\ t[1] = c /\ t[Len(s) + 2] = c
      /\ \A i \in 1 .. Len(s) : t[i + 1] = s[i]
  BY Surrounded
<1> HIDE DEF t
<1>2. \A i \in 1 .. Len(t) : i = 1 \/ i = Len(s) + 2 \/ (i - 1 \in 1 .. Len(s) /\ t[i] = s[i - 1])
  <2> SUFFICES ASSUME NEW i \in 1 .. Len(t), i # 1, i # Len(s) + 2
               PROVE  i - 1 \in 1 .. Len(s) /\ t[i] = s[i - 1]
    OBVIOUS
  <2>1. i - 1 \in 1 .. Len(s) /\ i - 1 + 1 = i
    BY <1>1
  <2>2. t[i - 1 + 1] = s[i - 1]
    BY <1>1, <2>1
  <2> QED
    BY <2>1, <2>2
<1>3. CASE \A i \in 1 .. Len(s) : s[i] \in C
  <2>1. \A i \in 1 .. Len(t) : t[i] \in C
    BY <1>1, <1>2, <1>3
  <2> QED
    BY <1>3, <2>1, TrimOfAll DEF t
<1>4. CASE \E i \in 1 .. Len(s) : s[i] \notin C
  <2>1. PICK a, b : Bounds(s, C, a, b)
    BY <1>4, SomeBounds
  <2>2. /\ a \in 1 .. Len(s) /\ b \in 1 .. Len(s)
        /\ s[a] \notin C /\ s[b] \notin C
        /\ \A i \in 1 .. Len(s) : s[i] \notin C => a <= i /\ i <= b
    BY <2>1 DEF Bounds
  <2>3. a + 1 \in 1 .. Len(t) /\ b + 1 \in 1 .. Len(t)
    BY <1>1, <2>2
  <2>4. t[a + 1] \notin C /\ t[b + 1] \notin C
    BY <1>1, <2>2
  <2>5. ASSUME NEW i \in 1 .. Len(t), t[i] \notin C PROVE a + 1 <= i /\ i <= b + 1
    <3>1. i - 1 \in 1 .. Len(s) /\ s[i - 1] \notin C
      BY <1>1, <1>2, <2>5
    <3>2. a <= i - 1 /\ i - 1 <= b
      BY <2>2, <3>1
    <3> QED
      BY <1>1, <2>2, <3>2
  <2>6. Bounds(t, C, a + 1, b + 1)
    BY <2>3, <2>4, <2>5 DEF Bounds
  <2>7. Trim(t, C) = SubSeq(t, a + 1, b + 1) /\ Trim(s, C) = SubSeq(s, a, b)
    BY <1>1, <2>1, <2>6, TrimIs
  <2>8. SubSeq(t, a + 1, b + 1) = SubSeq(s, a, b)
    <3>1. a \in Int /\ b \in Int /\ a + 1 \in Int /\ b + 1 \in Int /\ a <= b
      BY <2>2
    <3>2. \A i \in a .. b : s[i] \in S
      BY <2>2
    <3>3. \A i \in a + 1 .. b + 1 : t[i] \in S
      <4>1. \A i \in a + 1 .. b + 1 : i \in 1 .. Len(t)
        BY <2>3, <3>1
      <4> QED
        BY <1>1, <4>1
    <3>4. /\ SubSeq(s, a, b) \in Seq(S) /\ Len(SubSeq(s, a, b)) = b - a + 1
          /\ \A i \in 1 .. b - a + 1 : SubSeq(s, a, b)[i] = s[a + i - 1]
      BY <3>1, <3>2, SubSeqProperties
    <3>5. /\ SubSeq(t, a + 1, b + 1) \in Seq(S)
          /\ Len(SubSeq(t, a + 1, b + 1)) = b - a + 1
          /\ \A i \in 1 .. b - a + 1 : SubSeq(t, a + 1, b + 1)[i] = t[a + 1 + i - 1]
      <4>1. (b + 1) - (a + 1) + 1 = b - a + 1 /\ a + 1 <= b + 1
        BY <3>1
      <4> QED
        BY <3>1, <3>3, <4>1, SubSeqProperties
    <3>6. \A i \in 1 .. b - a + 1 : t[a + 1 + i - 1] = s[a + i - 1]
      <4> SUFFICES ASSUME NEW i \in 1 .. b - a + 1 PROVE t[a + 1 + i - 1] = s[a + i - 1]
        OBVIOUS
      <4>1. a + i - 1 \in 1 .. Len(s) /\ a + 1 + i - 1 = (a + i - 1) + 1
        BY <1>1, <2>2
      <4> QED
        BY <1>1, <4>1
    <3>7. /\ Len(SubSeq(t, a + 1, b + 1)) = Len(SubSeq(s, a, b))
          /\ \A i \in 1 .. Len(SubSeq(t, a + 1, b + 1)) :
               SubSeq(t, a + 1, b + 1)[i] = SubSeq(s, a, b)[i]
      BY <3>4, <3>5, <3>6
    <3> DEFINE u == SubSeq(t, a + 1, b + 1)
               v == SubSeq(s, a, b)
    <3>8. u \in Seq(S) /\ v \in Seq(S) /\ Len(u) = Len(v) /\ \A i \in 1 .. Len(u) : u[i] = v[i]
      BY <3>4, <3>5, <3>7
    <3> HIDE DEF u, v
    <3>9. u = v
      BY <3>8, SeqEqual
    <3> QED
      BY <3>9 DEF u, v
  <2> QED
    BY <2>7, <2>8 DEF t
<1> QED
  BY <1>3, <1>4

LEMMA IdsAreSequences == Ids \subseteq Seq(Characters)
<1> SUFFICES ASSUME NEW s \in Spellings PROVE NormalizeAssetId(s) \in Seq(Characters)
  BY DEF Ids
<1>1. s \in Seq(Characters)
  BY LibraryAssumption
<1> DEFINE id == Trim(Trim(s, {Blank}), {Slash})
<1>2. id \in Seq(Characters)
  BY <1>1, TrimIsASequence
<1>3. <<>> \in Seq(Characters)
  OBVIOUS
<1>4. NormalizeAssetId(s) = id \/ NormalizeAssetId(s) = <<>>
  BY DEF NormalizeAssetId, NoId
<1> QED
  BY <1>2, <1>3, <1>4

\* Distinct assets, and distinct parts of one, have distinct keys.
LEMMA KeysDiffer ==
  ASSUME NEW i \in Ids, NEW j \in Ids, NEW p \in Parts, NEW q \in Parts,
         Key(i, p) = Key(j, q)
  PROVE  i = j /\ p = q
<1> DEFINE S == Characters \cup Parts
<1>1. i \in Seq(S) /\ j \in Seq(S) /\ <<Slash, p>> \in Seq(S) /\ <<Slash, q>> \in Seq(S)
  <2>1. i \in Seq(Characters) /\ j \in Seq(Characters)
    BY IdsAreSequences
  <2>2. Slash \in S /\ p \in S /\ q \in S
    BY DEF Characters
  <2>3. Characters \subseteq S
    OBVIOUS
  <2> HIDE DEF S
  <2>4. i \in Seq(S) /\ j \in Seq(S)
    BY <2>1, <2>3, SequenceOfMore
  <2> QED
    BY <2>2, <2>4
<1>2. i \o <<Slash, p>> = j \o <<Slash, q>>
  BY DEF Key
<1> HIDE DEF S
<1>3. /\ Len(i \o <<Slash, p>>) = Len(i) + 2
      /\ Len(j \o <<Slash, q>>) = Len(j) + 2
  BY <1>1, ConcatProperties
<1>4. Len(i) = Len(j) /\ Len(i) \in Nat
  BY <1>1, <1>2, <1>3
<1>5. p = q
  <2>1. (i \o <<Slash, p>>)[Len(i) + 2] = p
    BY <1>1, <1>4, ConcatProperties
  <2>2. (j \o <<Slash, q>>)[Len(j) + 2] = q
    BY <1>1, <1>4, ConcatProperties
  <2> QED
    BY <1>2, <1>4, <2>1, <2>2
<1>6. ASSUME NEW k \in 1 .. Len(i) PROVE i[k] = j[k]
  <2>1. (i \o <<Slash, p>>)[k] = i[k] /\ (j \o <<Slash, q>>)[k] = j[k]
    BY <1>1, <1>4, ConcatProperties
  <2> QED
    BY <1>2, <2>1
<1>7. i = j
  BY <1>1, <1>4, <1>6, SeqEqual
<1> QED
  BY <1>5, <1>7

(* --- the inductive invariant ------------------------------------------- *)

LEMMA NobodyWrites == Nobody \notin Writers
BY LibraryAssumption DEF LibraryAssumption

LEMMA NoPartOfNothing ==
  ASSUME NEW part
  PROVE  PartOf(NoRow, part) = NoRow
BY DEF PartOf

LEMMA PartsAreValues ==
  ASSUME NEW g \in Glbs \cup {NoRow}, NEW part \in Parts
  PROVE  PartOf(g, part) \in Values
<1>1. CASE g = NoRow
  BY <1>1, NoPartOfNothing DEF Values
<1>2. CASE g # NoRow
  <2>1. g \in Values /\ g.json \in Values /\ g.bin \in Values
    BY <1>2 DEF Values
  <2>2. PartOf(g, part) \in {g, g.json, g.bin}
    BY <1>2 DEF PartOf
  <2> QED
    BY <2>1, <2>2
<1> QED
  BY <1>1, <1>2

\* A put changes the row of one part of one asset.
LEMMA PutChangesOneRow ==
  ASSUME NEW rows \in [Keys -> Values], NEW a \in Ids, NEW p \in Parts, NEW v \in Values
  PROVE  /\ [rows EXCEPT ![Key(a, p)] = v] \in [Keys -> Values]
         /\ \A id \in Ids, q \in Parts :
              [rows EXCEPT ![Key(a, p)] = v][Key(id, q)] =
                IF id = a /\ q = p THEN v ELSE rows[Key(id, q)]
<1>1. \A id \in Ids, q \in Parts : Key(id, q) \in Keys
  BY DEF Keys
<1>2. [rows EXCEPT ![Key(a, p)] = v] \in [Keys -> Values]
  OBVIOUS
<1>3. ASSUME NEW id \in Ids, NEW q \in Parts
      PROVE  [rows EXCEPT ![Key(a, p)] = v][Key(id, q)] =
               IF id = a /\ q = p THEN v ELSE rows[Key(id, q)]
  <2>1. CASE id = a /\ q = p
    BY <1>1, <2>1
  <2>2. CASE ~(id = a /\ q = p)
    <3>1. Key(id, q) # Key(a, p)
      BY <2>2, KeysDiffer
    <3> QED
      BY <1>1, <2>2, <3>1
  <2> QED
    BY <2>1, <2>2
<1> QED
  BY <1>2, <1>3

LEMMA InitInductive == Init => LibraryInvariant
<1> SUFFICES ASSUME Init PROVE LibraryInvariant
  OBVIOUS
<1>1. Nothing \in UNION {[loaded -> Values] : loaded \in SUBSET Parts}
  <2>1. Nothing \in [{} -> Values]
    BY DEF Nothing
  <2> QED
    BY <2>1
<1>2. TypeOK
  BY <1>1 DEF Init, TypeOK, Values, WriterPcs
<1>3. PartsAgree
  <2>1. \A id \in Ids, part \in Parts : table[Key(id, part)] = NoRow
    BY DEF Init, Keys
  <2>2. \A id \in Ids : Imported(table, id, NoRow)
    BY <2>1, NoPartOfNothing DEF Imported
  <2> QED
    BY <2>2 DEF PartsAgree
<1>4. DraftsHold
  BY DEF Init, DraftsHold, Inside
<1>5. ReadersHold
  BY DEF Init, ReadersHold, Nothing
<1> QED
  BY <1>2, <1>3, <1>4, <1>5 DEF LibraryInvariant

\* Steps of a writer that leave the table alone: it stays, or moves on inside the
\* transaction it holds.
LEMMA TableStays ==
  ASSUME LibraryInvariant, table' = table, UNCHANGED <<wanted, got>>,
         \A r \in Readers : replaced'[r] = replaced[r]
  PROVE  PartsAgree' /\ ReadersHold'
BY DEF LibraryInvariant, PartsAgree, Imported, ReadersHold

LEMMA ObservationOfNothing ==
  ASSUME TypeOK, ObserveImports, table' = table
  PROVE  UNCHANGED readers
BY DEF ObserveImports, readers, TypeOK

\* One writer at a time is inside the transaction.
LEMMA OnlyTheHolder ==
  ASSUME LibraryInvariant, NEW v \in Writers, wpc[v] \in Inside
  PROVE  holder = v
BY DEF LibraryInvariant, DraftsHold, DraftHolds

LEMMA OthersStayOutside ==
  ASSUME LibraryInvariant, NEW w \in Writers, wpc[w] \in Inside \/ holder = Nobody,
         \A v \in Writers \ {w} : wpc'[v] = wpc[v],
         wpc'[w] \in Inside => DraftHolds(w)'
  PROVE  DraftsHold'
<1> SUFFICES ASSUME NEW v \in Writers, wpc'[v] \in Inside
             PROVE  DraftHolds(v)'
  BY DEF DraftsHold
<1>1. v = w
  <2> SUFFICES ASSUME v # w PROVE FALSE
    OBVIOUS
  <2>1. holder = v
    BY OnlyTheHolder
  <2>2. holder # v
    BY OnlyTheHolder, NobodyWrites
  <2> QED
    BY <2>1, <2>2
<1> QED
  BY <1>1

LEMMA DumpCalledKeeps ==
  ASSUME LibraryInvariant, NEW w \in Writers, NEW s \in Spellings, NEW g \in Glbs,
         DumpCalled(w, s, g), ObserveImports
  PROVE  LibraryInvariant'
<1>1. TypeOK /\ UNCHANGED readers /\ table' = table
  BY ObservationOfNothing DEF LibraryInvariant, DumpCalled
<1>2. NormalizeAssetId(s) \in Ids
  BY DEF DumpCalled, Ids
<1>3. TypeOK'
  BY <1>1, <1>2 DEF TypeOK, DumpCalled, readers, WriterPcs
<1>4. PartsAgree' /\ ReadersHold'
  BY <1>1, TableStays DEF readers
<1>5. DraftsHold'
  <2> SUFFICES ASSUME NEW v \in Writers, wpc'[v] \in Inside PROVE DraftHolds(v)'
    BY DEF DraftsHold
  <2>1. v # w /\ wpc'[v] = wpc[v] /\ asset'[v] = asset[v] /\ glb'[v] = glb[v]
    BY <1>1 DEF DumpCalled, TypeOK, Inside
  <2>2. DraftHolds(v)
    BY <2>1 DEF LibraryInvariant, DraftsHold
  <2> QED
    BY <1>1, <2>1, <2>2 DEF DraftHolds, Written, DumpCalled
<1> QED
  BY <1>3, <1>4, <1>5 DEF LibraryInvariant

LEMMA BeginWriteKeeps ==
  ASSUME LibraryInvariant, NEW w \in Writers, BeginWrite(w), ObserveImports
  PROVE  LibraryInvariant'
<1>1. TypeOK /\ UNCHANGED readers /\ table' = table
  BY ObservationOfNothing DEF LibraryInvariant, BeginWrite
<1>2. TypeOK'
  BY <1>1 DEF TypeOK, BeginWrite, Goto, readers, WriterPcs
<1>3. PartsAgree' /\ ReadersHold'
  BY <1>1, TableStays DEF readers
<1>4. DraftHolds(w)'
  <2>1. wpc'[w] = "source"
    BY <1>1 DEF BeginWrite, Goto, TypeOK
  <2> QED
    BY <1>1, <2>1 DEF DraftHolds, Written, BeginWrite
<1>5. DraftsHold'
  <2>1. holder = Nobody /\ \A v \in Writers \ {w} : wpc'[v] = wpc[v]
    BY <1>1 DEF BeginWrite, Goto, TypeOK
  <2> QED
    BY <1>4, <2>1, OthersStayOutside
<1> QED
  BY <1>2, <1>3, <1>5 DEF LibraryInvariant

\* A put of the next part, by the writer inside.
LEMMA PutKeeps ==
  ASSUME LibraryInvariant, NEW w \in Writers, NEW part \in Parts, NEW next \in Inside,
         wpc[w] \in Inside, Put(w, part, PartOf(glb[w], part)), Goto(w, next),
         Written(w)' = Written(w) \cup {part},
         ObserveImports
  PROVE  LibraryInvariant'
<1> DEFINE value == PartOf(glb[w], part)
<1>1. TypeOK /\ UNCHANGED readers /\ table' = table
  BY ObservationOfNothing DEF LibraryInvariant, Put
<1>2. asset[w] \in Ids /\ glb[w] \in Glbs /\ value \in Values
  <2>1. asset[w] \in Ids /\ glb[w] \in Glbs
    BY <1>1 DEF TypeOK, Inside
  <2> QED
    BY <2>1, PartsAreValues
<1>3. /\ draft' \in [Keys -> Values]
      /\ \A id \in Ids, q \in Parts :
           draft'[Key(id, q)] = IF id = asset[w] /\ q = part THEN value ELSE draft[Key(id, q)]
  <2>1. draft' = [draft EXCEPT ![Key(asset[w], part)] = value]
    BY DEF Put
  <2>2. draft \in [Keys -> Values]
    BY <1>1 DEF TypeOK
  <2> HIDE DEF value
  <2> QED
    BY <1>2, <2>1, <2>2, PutChangesOneRow
<1>4. TypeOK'
  BY <1>1, <1>3 DEF TypeOK, Put, Goto, readers, WriterPcs, Inside
<1>5. PartsAgree' /\ ReadersHold'
  BY <1>1, TableStays DEF readers
<1>6. DraftHolds(w)'
  <2>1. DraftHolds(w)
    BY DEF LibraryInvariant, DraftsHold
  <2>2. holder' = w /\ asset' = asset /\ glb' = glb
    BY <2>1 DEF DraftHolds, Put, Goto
  <2>3. ASSUME NEW id \in Ids, NEW q \in Parts
        PROVE  draft'[Key(id, q)] =
                 IF id = asset[w] /\ q \in Written(w)' THEN PartOf(glb[w], q)
                 ELSE table[Key(id, q)]
    <3>1. draft[Key(id, q)] =
            IF id = asset[w] /\ q \in Written(w) THEN PartOf(glb[w], q)
            ELSE table[Key(id, q)]
      BY <2>1 DEF DraftHolds
    <3> QED
      BY <1>3, <3>1
  <2> QED
    BY <1>1, <2>2, <2>3 DEF DraftHolds
<1>7. DraftsHold'
  <2>1. \A v \in Writers \ {w} : wpc'[v] = wpc[v]
    BY <1>1 DEF Goto, TypeOK
  <2> QED
    BY <1>6, <2>1, OthersStayOutside
<1> QED
  BY <1>4, <1>5, <1>7 DEF LibraryInvariant

LEMMA InsertSourceKeeps ==
  ASSUME LibraryInvariant, NEW w \in Writers, InsertSource(w), ObserveImports
  PROVE  LibraryInvariant'
<1>1. wpc[w] = "source" /\ wpc'[w] = "json"
  BY DEF InsertSource, Goto, LibraryInvariant, TypeOK
<1>2. Written(w)' = Written(w) \cup {"source.glb"}
  BY <1>1 DEF Written, Parts
<1>3. glb[w] = PartOf(glb[w], "source.glb")
  BY DEF PartOf
<1>4. Put(w, "source.glb", PartOf(glb[w], "source.glb")) /\ Goto(w, "json")
  BY <1>3 DEF InsertSource
<1> QED
  BY <1>1, <1>2, <1>4, PutKeeps DEF Parts, Inside

LEMMA InsertJsonKeeps ==
  ASSUME LibraryInvariant, NEW w \in Writers, InsertJson(w), ObserveImports
  PROVE  LibraryInvariant'
<1>1. wpc[w] = "json" /\ wpc'[w] = "bin" /\ glb[w] \in Glbs
  BY DEF InsertJson, Goto, LibraryInvariant, TypeOK
<1>2. Written(w)' = Written(w) \cup {"gltf.json"}
  BY <1>1 DEF Written, Parts
<1>3. glb[w].json = PartOf(glb[w], "gltf.json")
  BY <1>1, LibraryAssumption DEF PartOf
<1>4. Put(w, "gltf.json", PartOf(glb[w], "gltf.json")) /\ Goto(w, "bin")
  BY <1>3 DEF InsertJson
<1> QED
  BY <1>1, <1>2, <1>4, PutKeeps DEF Parts, Inside

LEMMA InsertOrRemoveBinKeeps ==
  ASSUME LibraryInvariant, NEW w \in Writers, InsertOrRemoveBin(w), ObserveImports
  PROVE  LibraryInvariant'
<1>1. wpc[w] = "bin" /\ wpc'[w] = "commit" /\ glb[w] \in Glbs
  BY DEF InsertOrRemoveBin, Goto, LibraryInvariant, TypeOK
<1>2. Written(w)' = Written(w) \cup {"buffer.bin"}
  BY <1>1 DEF Written, Parts
<1>3. glb[w].bin = PartOf(glb[w], "buffer.bin")
  BY <1>1, LibraryAssumption DEF PartOf
<1>4. Put(w, "buffer.bin", PartOf(glb[w], "buffer.bin")) /\ Goto(w, "commit")
  BY <1>3 DEF InsertOrRemoveBin
<1> QED
  BY <1>1, <1>2, <1>4, PutKeeps DEF Parts, Inside

\* What a reader of an unchanged asset holds survives any write of the table.
LEMMA ObservingKeepsReaders ==
  ASSUME TypeOK, ReadersHold, ObserveImports
  PROVE  ReadersHold' /\ replaced' \in [Readers -> BOOLEAN]
<1>1. replaced' \in [Readers -> BOOLEAN]
  BY DEF ObserveImports
<1>2. ASSUME NEW r \in Readers
      PROVE  /\ got'[r] # Nothing => wanted'[r] \in Ids
             /\ ~replaced'[r] =>
                  \A part \in DOMAIN got'[r] : got'[r][part] = table'[Key(wanted'[r], part)]
  <2>1. got' = got /\ wanted' = wanted
    BY DEF ObserveImports
  <2>2. got[r] # Nothing => wanted[r] \in Ids
    BY DEF ReadersHold
  <2>3. ASSUME ~replaced'[r], NEW part \in DOMAIN got[r]
        PROVE  got[r][part] = table'[Key(wanted[r], part)]
    <3>1. got[r] # Nothing /\ part \in Parts
      <4>1. got[r] \in UNION {[loaded -> Values] : loaded \in SUBSET Parts}
        BY DEF TypeOK
      <4>2. DOMAIN Nothing = {}
        BY DEF Nothing
      <4> QED
        BY <4>1, <4>2, <2>3
    <3>2. ~replaced[r] /\ table'[Key(wanted[r], part)] = table[Key(wanted[r], part)]
      BY <2>3, <3>1 DEF ObserveImports
    <3> QED
      BY <2>3, <3>2 DEF ReadersHold
  <2> QED
    BY <2>1, <2>2, <2>3
<1> QED
  BY <1>1, <1>2 DEF ReadersHold

LEMMA CommitKeeps ==
  ASSUME LibraryInvariant, NEW w \in Writers, Commit(w), ObserveImports
  PROVE  LibraryInvariant'
<1>1. TypeOK /\ wpc[w] = "commit"
  BY DEF LibraryInvariant, Commit
<1>2. ReadersHold' /\ replaced' \in [Readers -> BOOLEAN]
  BY <1>1, ObservingKeepsReaders DEF LibraryInvariant
<1>3. TypeOK'
  BY <1>1, <1>2 DEF TypeOK, Commit, WriterIdle, ObserveImports, WriterPcs
<1>4. PartsAgree'
  <2>1. asset[w] \in Ids /\ glb[w] \in Glbs /\ Written(w) = Parts
    BY <1>1 DEF TypeOK, Written
  <2>2. \A id \in Ids, part \in Parts :
          table'[Key(id, part)] = IF id = asset[w] THEN PartOf(glb[w], part)
                                  ELSE table[Key(id, part)]
    BY <1>1, <2>1 DEF LibraryInvariant, DraftsHold, DraftHolds, Inside, Commit
  <2>3. ASSUME NEW id \in Ids
        PROVE  \E g \in Glbs \cup {NoRow} : Imported(table', id, g)
    <3>1. CASE id = asset[w]
      <4>1. Imported(table', id, glb[w])
        BY <2>2, <3>1 DEF Imported
      <4> QED
        BY <2>1, <4>1
    <3>2. CASE id # asset[w]
      <4>1. PICK g \in Glbs \cup {NoRow} : Imported(table, id, g)
        BY DEF LibraryInvariant, PartsAgree
      <4>2. Imported(table', id, g)
        BY <2>2, <3>2, <4>1 DEF Imported
      <4> QED
        BY <4>2
    <3> QED
      BY <3>1, <3>2
  <2> QED
    BY <2>3 DEF PartsAgree
<1>5. DraftsHold'
  <2>1. wpc'[w] = "idle" /\ \A v \in Writers \ {w} : wpc'[v] = wpc[v]
    BY <1>1 DEF Commit, WriterIdle, TypeOK
  <2> QED
    BY <1>1, <2>1, OthersStayOutside DEF Inside
<1> QED
  BY <1>2, <1>3, <1>4, <1>5 DEF LibraryInvariant

LEMMA BeginFailsKeeps ==
  ASSUME LibraryInvariant, NEW w \in Writers, BeginFails(w), ObserveImports
  PROVE  LibraryInvariant'
<1>1. TypeOK /\ UNCHANGED readers /\ table' = table
  BY ObservationOfNothing DEF LibraryInvariant, BeginFails
<1>2. TypeOK'
  BY <1>1 DEF TypeOK, BeginFails, WriterIdle, readers, WriterPcs
<1>3. PartsAgree' /\ ReadersHold'
  BY <1>1, TableStays DEF readers
<1>4. DraftsHold'
  <2> SUFFICES ASSUME NEW v \in Writers, wpc'[v] \in Inside
               PROVE  DraftHolds(v)'
    BY DEF DraftsHold
  <2>1. v # w
    BY <1>1 DEF BeginFails, WriterIdle, TypeOK, Inside
  <2>2. /\ wpc'[v] = wpc[v] /\ asset'[v] = asset[v] /\ glb'[v] = glb[v]
        /\ holder' = holder /\ draft' = draft
    BY <1>1, <2>1 DEF BeginFails, WriterIdle, TypeOK
  <2>3. DraftHolds(v)
    BY <2>2 DEF LibraryInvariant, DraftsHold
  <2> QED
    BY <1>1, <2>2, <2>3 DEF DraftHolds, Written
<1> QED
  BY <1>2, <1>3, <1>4 DEF LibraryInvariant

LEMMA FailKeeps ==
  ASSUME LibraryInvariant, NEW w \in Writers, Fail(w), ObserveImports
  PROVE  LibraryInvariant'
<1>1. TypeOK /\ UNCHANGED readers /\ table' = table
  BY ObservationOfNothing DEF LibraryInvariant, Fail
<1>2. TypeOK'
  BY <1>1 DEF TypeOK, Fail, WriterIdle, readers, WriterPcs
<1>3. PartsAgree' /\ ReadersHold'
  BY <1>1, TableStays DEF readers
<1>4. DraftsHold'
  <2>1. wpc'[w] = "idle" /\ \A v \in Writers \ {w} : wpc'[v] = wpc[v]
    BY <1>1 DEF Fail, WriterIdle, TypeOK
  <2>2. wpc[w] \in Inside
    BY DEF Fail
  <2> QED
    BY <2>1, <2>2, OthersStayOutside DEF Inside
<1> QED
  BY <1>2, <1>3, <1>4 DEF LibraryInvariant

LEMMA ReaderStepKeeps ==
  ASSUME LibraryInvariant, NEW r \in Readers, ReaderStep(r), UNCHANGED <<table, writers>>
  PROVE  LibraryInvariant'
<1>1. TypeOK /\ UNCHANGED <<table, holder, draft, wpc, asset, glb>>
  BY DEF LibraryInvariant, writers
<1>2. PartsAgree' /\ DraftsHold'
  BY <1>1 DEF LibraryInvariant, PartsAgree, Imported, DraftsHold, DraftHolds, Written
<1>3. Nothing \in UNION {[loaded -> Values] : loaded \in SUBSET Parts} /\ DOMAIN Nothing = {}
  <2>1. Nothing \in [{} -> Values] /\ DOMAIN Nothing = {}
    BY DEF Nothing
  <2> QED
    BY <2>1
<1>4. CASE \E s \in Spellings : StartReading(r, s)
  <2>1. PICK s \in Spellings : StartReading(r, s)
    BY <1>4
  <2>2. NormalizeAssetId(s) \in Ids
    BY <2>1 DEF StartReading, Ids
  <2>3. TypeOK'
    BY <1>1, <2>1, <2>2 DEF TypeOK, StartReading
  <2>4. got[r] = Nothing
    <3>1. NoId \notin Ids
      BY DEF Ids
    <3> QED
      BY <2>1, <3>1 DEF StartReading, LibraryInvariant, ReadersHold
  <2>5. ReadersHold'
    BY <1>1, <1>3, <2>1, <2>2, <2>4 DEF StartReading, LibraryInvariant, ReadersHold, TypeOK
  <2> QED
    BY <1>2, <2>3, <2>5 DEF LibraryInvariant
<1>5. CASE \E part \in Parts : Load(r, part)
  <2>1. PICK part \in Parts : Load(r, part)
    BY <1>5
  <2> DEFINE value == table[Key(wanted[r], part)]
             loaded == [p \in DOMAIN got[r] \cup {part} |-> IF p = part THEN value ELSE got[r][p]]
  <2>2. wanted[r] \in Ids /\ value \in Values
    <3>1. wanted[r] \in Ids
      BY <1>1, <2>1 DEF TypeOK, Load
    <3>2. Key(wanted[r], part) \in Keys
      BY <3>1 DEF Keys
    <3> QED
      BY <1>1, <3>1, <3>2 DEF TypeOK
  <2>3. got' = [got EXCEPT ![r] = loaded] /\ wanted' = wanted /\ replaced' = replaced
    BY <2>1 DEF Load
  <2>4. loaded \in UNION {[some -> Values] : some \in SUBSET Parts}
    <3> HIDE DEF value
    <3>1. PICK some \in SUBSET Parts : got[r] \in [some -> Values]
      BY <1>1 DEF TypeOK
    <3>2. loaded \in [some \cup {part} -> Values] /\ some \cup {part} \in SUBSET Parts
      BY <2>2, <3>1
    <3> QED
      BY <3>2
  <2>5. TypeOK'
    <3> HIDE DEF loaded
    <3> QED
      BY <1>1, <2>3, <2>4 DEF TypeOK
  <2>6. ReadersHold'
    <3> SUFFICES ASSUME NEW q \in Readers
                 PROVE  /\ got'[q] # Nothing => wanted'[q] \in Ids
                        /\ ~replaced'[q] => \A p \in DOMAIN got'[q] :
                             got'[q][p] = table'[Key(wanted'[q], p)]
      BY DEF ReadersHold
    <3>1. CASE q # r
      <4>1. got'[q] = got[q]
        BY <1>1, <2>3, <3>1 DEF TypeOK
      <4> QED
        BY <1>1, <2>3, <4>1 DEF LibraryInvariant, ReadersHold
    <3>2. CASE q = r
      <4>1. got'[r] = loaded
        BY <1>1, <2>3 DEF TypeOK
      <4>2. ~replaced[r] => \A p \in DOMAIN loaded : loaded[p] = table[Key(wanted[r], p)]
        BY DEF LibraryInvariant, ReadersHold
      <4> HIDE DEF loaded, value
      <4>3. ~replaced'[r] => \A p \in DOMAIN got'[r] : got'[r][p] = table'[Key(wanted'[r], p)]
        BY <1>1, <2>3, <4>1, <4>2
      <4> QED
        BY <2>2, <2>3, <3>2, <4>3
    <3> QED
      BY <3>1, <3>2
  <2> QED
    BY <1>2, <2>5, <2>6 DEF LibraryInvariant
<1>6. CASE StopReading(r)
  <2>1. TypeOK'
    BY <1>1, <1>3, <1>6 DEF TypeOK, StopReading
  <2>2. ReadersHold'
    BY <1>1, <1>3, <1>6 DEF StopReading, LibraryInvariant, ReadersHold, TypeOK
  <2> QED
    BY <1>2, <2>1, <2>2 DEF LibraryInvariant
<1> QED
  BY <1>4, <1>5, <1>6 DEF ReaderStep

LEMMA WriterStepKeeps ==
  ASSUME LibraryInvariant, NEW w \in Writers, WriterStep(w), ObserveImports
  PROVE  LibraryInvariant'
BY DumpCalledKeeps, BeginWriteKeeps, InsertSourceKeeps, InsertJsonKeeps,
   InsertOrRemoveBinKeeps, CommitKeeps, BeginFailsKeeps, FailKeeps DEF WriterStep

\* The inductive invariant: the types, the rows of each asset, what the writer inside
\* has changed of them, and what each reader holds.
THEOREM LibraryIsInductive == Spec => []LibraryInvariant
<1>1. LibraryInvariant /\ [Next]_vars => LibraryInvariant'
  <2> SUFFICES ASSUME LibraryInvariant, [Next]_vars PROVE LibraryInvariant'
    OBVIOUS
  <2>1. CASE Next
    BY <2>1, WriterStepKeeps, ReaderStepKeeps DEF Next
  <2>2. CASE UNCHANGED vars
    BY <2>2 DEF vars, writers, readers, LibraryInvariant, TypeOK, PartsAgree, Imported,
                DraftsHold, DraftHolds, Written, ReadersHold
  <2> QED
    BY <2>1, <2>2
<1> QED
  BY <1>1, InitInductive, PTL DEF Spec

\* The rows of an asset are always those of one GLB: dump_glb_bytes replaces all three
\* or none, and leaves no BIN chunk of an older GLB behind.
THEOREM PartsAlwaysAgree == Spec => []PartsAgree
<1>1. LibraryInvariant => PartsAgree
  BY DEF LibraryInvariant
<1> QED
  BY <1>1, LibraryIsInductive, PTL

\* Parts loaded one by one, in load_glb, load_json_chunk and load_bin_chunk, are of one
\* GLB unless the asset was replaced in between.
THEOREM ReadsAlwaysAgree == Spec => []ReadsAgree
<1>1. ASSUME LibraryInvariant PROVE ReadsAgree
  <2> SUFFICES ASSUME NEW r \in Readers, ~replaced[r]
               PROVE  \E g \in Glbs \cup {NoRow} :
                        \A part \in DOMAIN got[r] : got[r][part] = PartOf(g, part)
    BY DEF ReadsAgree
  <2>1. DOMAIN got[r] \subseteq Parts
    BY <1>1 DEF LibraryInvariant, TypeOK
  <2>2. CASE got[r] = Nothing
    BY <2>2 DEF Nothing
  <2>3. CASE got[r] # Nothing
    <3>1. wanted[r] \in Ids
      BY <1>1, <2>3 DEF LibraryInvariant, ReadersHold
    <3>2. PICK g \in Glbs \cup {NoRow} : Imported(table, wanted[r], g)
      BY <1>1, <3>1 DEF LibraryInvariant, PartsAgree
    <3>3. \A part \in DOMAIN got[r] : got[r][part] = PartOf(g, part)
      BY <1>1, <2>1, <3>2 DEF LibraryInvariant, ReadersHold, Imported
    <3> QED
      BY <3>3
  <2> QED
    BY <2>2, <2>3
<1> QED
  BY <1>1, LibraryIsInductive, PTL

(* --- spellings of asset IDs -------------------------------------------- *)

\* Blanks and slashes around a spelling make no other ID of it, unless slashes enclose a
\* blank.
LEMMA SpellingsNormalize ==
  ASSUME NEW s \in Seq(Characters)
  PROVE  /\ NormalizeAssetId(<<Blank>> \o s \o <<Blank>>) = NormalizeAssetId(s)
         /\ ~BlankEnded(s) =>
              NormalizeAssetId(<<Slash>> \o s \o <<Slash>>) = NormalizeAssetId(s)
<1>1. /\ Blank \in Characters \cap {Blank} /\ Slash \in Characters \cap {Slash}
      /\ Slash \notin {Blank}
  BY DEF Characters, Blank, Slash
<1>2. Trim(<<Blank>> \o s \o <<Blank>>, {Blank}) = Trim(s, {Blank})
  BY <1>1, SurroundedTrims
<1>3. ASSUME ~BlankEnded(s)
      PROVE  Trim(Trim(<<Slash>> \o s \o <<Slash>>, {Blank}), {Slash})
               = Trim(Trim(s, {Blank}), {Slash})
  <2> DEFINE t == <<Slash>> \o s \o <<Slash>>
  <2>1. t \in Seq(Characters) /\ Len(t) = Len(s) + 2 /\ t[1] = Slash /\ t[Len(s) + 2] = Slash
    BY <1>1, Surrounded
  <2>2. Trim(t, {Slash}) = Trim(s, {Slash})
    BY <1>1, SurroundedTrims
  <2> HIDE DEF t
  <2>3. t # <<>> /\ t[1] \notin {Blank} /\ t[Len(t)] \notin {Blank}
    <3>1. Len(t) # 0
      BY <2>1
    <3> QED
      BY <1>1, <2>1, <3>1
  <2>4. Trim(t, {Blank}) = t
    BY <2>1, <2>3, NothingToTrim
  <2>5. Trim(s, {Blank}) = s
    <3>1. CASE s = <<>>
      BY <3>1, TrimOfAll
    <3>2. CASE s # <<>>
      <4>1. s[1] \notin {Blank} /\ s[Len(s)] \notin {Blank}
        BY <1>3, <3>2 DEF BlankEnded
      <4> QED
        BY <3>2, <4>1, NothingToTrim
    <3> QED
      BY <3>1, <3>2
  <2>6. Trim(Trim(t, {Blank}), {Slash}) = Trim(Trim(s, {Blank}), {Slash})
    BY <2>2, <2>4, <2>5
  <2> QED
    BY <2>6 DEF t
<1> QED
  BY <1>2, <1>3 DEF NormalizeAssetId

\* An ID has no slash at its ends, and no NUL.
LEMMA IdsAreTrimmed ==
  ASSUME NEW id \in Ids
  PROVE  /\ id \in Seq(Characters) /\ id # <<>>
         /\ id[1] \notin {Slash} /\ id[Len(id)] \notin {Slash}
         /\ ~\E i \in 1 .. Len(id) : id[i] = Nul
<1>1. PICK s \in Spellings : id = NormalizeAssetId(s) /\ id # NoId
  BY DEF Ids
<1> DEFINE t == Trim(s, {Blank})
<1>2. /\ id = Trim(t, {Slash}) /\ id # <<>>
      /\ ~\E i \in 1 .. Len(id) : id[i] = Nul
  BY <1>1 DEF NormalizeAssetId, NoId
<1>3. t \in Seq(Characters)
  BY <1>1, LibraryAssumption, TrimIsASequence
<1> HIDE DEF t
<1> QED
  BY <1>2, <1>3, TrimIsASequence, TrimmedEnds

\* A blank at the end of an ID is trimmed when it is normalised again, and nothing else.
LEMMA IdsAreNormalized ==
  ASSUME NEW id \in Ids
  PROVE  NormalizeAssetId(id) = id <=> ~BlankEnded(id)
<1>1. /\ id \in Seq(Characters) /\ id # <<>>
      /\ id[1] \notin {Slash} /\ id[Len(id)] \notin {Slash}
      /\ ~\E i \in 1 .. Len(id) : id[i] = Nul
  BY IdsAreTrimmed
<1>2. ASSUME ~BlankEnded(id) PROVE NormalizeAssetId(id) = id
  <2>1. Trim(id, {Slash}) = id
    BY <1>1, NothingToTrim
  <2>2. id[1] \notin {Blank} /\ id[Len(id)] \notin {Blank}
    BY <1>1, <1>2 DEF BlankEnded
  <2>3. Trim(id, {Blank}) = id
    BY <1>1, <2>2, NothingToTrim
  <2> QED
    BY <1>1, <2>1, <2>3 DEF NormalizeAssetId
<1>3. ASSUME BlankEnded(id) PROVE NormalizeAssetId(id) # id
  <2> DEFINE u == Trim(id, {Blank})
  <2>1. u \in Seq(Characters)
    BY <1>1, TrimIsASequence
  <2>2. Len(u) < Len(id)
    <3>1. id[1] \in {Blank} \/ id[Len(id)] \in {Blank}
      BY <1>3 DEF BlankEnded
    <3> QED
      BY <1>1, <3>1, TrimShortens
  <2>3. NormalizeAssetId(id) \in {Trim(u, {Slash}), <<>>}
    BY DEF NormalizeAssetId, NoId
  <2> HIDE DEF u
  <2>4. Trim(u, {Slash}) \in Seq(Characters) /\ Len(Trim(u, {Slash})) <= Len(u)
    BY <2>1, TrimIsASequence, TrimShortens
  <2>5. Len(Trim(u, {Slash})) # Len(id)
    <3>1. Len(Trim(u, {Slash})) \in Nat /\ Len(u) \in Nat /\ Len(id) \in Nat
      BY <1>1, <2>1, <2>4
    <3> QED
      BY <2>2, <2>4, <3>1
  <2> QED
    BY <1>1, <2>3, <2>5
<1> QED
  BY <1>2, <1>3

\* Between slashes an ID is safe, whatever its ends.
LEMMA SlashesKeepIds ==
  ASSUME NEW id \in Ids
  PROVE  NormalizeAssetId(<<Slash>> \o id \o <<Slash>>) = id
<1> DEFINE t == <<Slash>> \o id \o <<Slash>>
<1>1. /\ id \in Seq(Characters) /\ id # <<>>
      /\ id[1] \notin {Slash} /\ id[Len(id)] \notin {Slash}
      /\ ~\E i \in 1 .. Len(id) : id[i] = Nul
  BY IdsAreTrimmed
<1>2. Slash \in Characters \cap {Slash} /\ Slash \notin {Blank}
  BY DEF Characters, Blank, Slash
<1>3. t \in Seq(Characters) /\ Len(t) = Len(id) + 2 /\ t[1] = Slash /\ t[Len(id) + 2] = Slash
  BY <1>1, <1>2, Surrounded
<1>4. Trim(t, {Slash}) = id
  <2>1. Trim(t, {Slash}) = Trim(id, {Slash})
    BY <1>1, <1>2, SurroundedTrims
  <2> QED
    BY <1>1, <2>1, NothingToTrim
<1> HIDE DEF t
<1>5. t # <<>> /\ t[1] \notin {Blank} /\ t[Len(t)] \notin {Blank}
  <2>1. Len(t) # 0
    BY <1>1, <1>3
  <2> QED
    BY <1>2, <1>3, <2>1
<1>6. Trim(t, {Blank}) = t
  BY <1>3, <1>5, NothingToTrim
<1> QED
  BY <1>1, <1>4, <1>6 DEF NormalizeAssetId, t

\* However blanks or slashes surround an asset ID, the same rows are found; between slashes
\* every ID finds its own rows, and the ID that an import returned does so by itself exactly
\* if no blank is at its ends: for any spellings, whatever is imported.
THEOREM SpellingsAlwaysFind == Spec => []SpellingsFindAssets
<1>1. SpellingsFindAssets
  <2>1. ASSUME NEW s \in Spellings
        PROVE  /\ Found(<<Blank>> \o s \o <<Blank>>) = Found(s)
               /\ ~BlankEnded(s) => Found(<<Slash>> \o s \o <<Slash>>) = Found(s)
    <3>1. s \in Seq(Characters)
      BY LibraryAssumption
    <3> QED
      BY <3>1, SpellingsNormalize DEF Found
  <2>2. ASSUME NEW id \in Ids
        PROVE  /\ Found(<<Slash>> \o id \o <<Slash>>) = table[Key(id, "source.glb")]
               /\ NormalizeAssetId(id) = id <=> ~BlankEnded(id)
    BY SlashesKeepIds, IdsAreNormalized DEF Found
  <2> QED
    BY <2>1, <2>2 DEF SpellingsFindAssets
<1> QED
  BY <1>1, PTL

(* --- the inspection of GLB headers ------------------------------------- *)

\* Whatever the header says and however the file shrinks or grows under the reader,
\* inspect_glb_reader allocates no more than the file held when it was opened, reads
\* no further than the JSON chunk, and answers only with that chunk whole.
THEOREM InspectionIsAlwaysCheap ==
  ASSUME NEW file \in Files, NEW size \in Nat
  PROVE  InspectionIsCheap(file, size)
<1> DEFINE n == file.json_bytes
<1>1. n \in Nat /\ file.present \in Nat /\ file.length \in Nat
  BY DEF Files
<1>2. CASE file.present < HeaderBytes \/ ~HeaderAgrees(file, size) \/ ~JsonChunkFits(file, size)
  <2>1. InspectGlb(file, size) = Outcome(0, AtMost(file.present, HeaderBytes), FALSE)
    BY <1>2 DEF InspectGlb
  <2> QED
    BY <1>1, <2>1 DEF InspectionIsCheap, Outcome, AtMost, HeaderBytes
<1>3. CASE ~(file.present < HeaderBytes \/ ~HeaderAgrees(file, size)
             \/ ~JsonChunkFits(file, size))
  <2>1. InspectGlb(file, size) =
          Outcome(n, AtMost(file.present, HeaderBytes + n),
                  HeaderBytes + n <= file.present /\ file.version2)
    BY <1>3 DEF InspectGlb
  <2>2. n # 0 /\ (n % 4) = 0 /\ HeaderBytes + n <= size /\ file.length = size
    BY <1>1, <1>3 DEF JsonChunkFits, HeaderAgrees, Less, HeaderBytes
  <2> DEFINE out == InspectGlb(file, size)
  <2>3. /\ out.buffer = n
        /\ out.position = AtMost(file.present, HeaderBytes + n)
        /\ out.accepted = (HeaderBytes + n <= file.present /\ file.version2)
    BY <2>1 DEF Outcome
  <2> HIDE DEF n, out
  <2>4. out.position <= HeaderBytes + n /\ out.position <= file.present
    BY <1>1, <2>3 DEF AtMost, HeaderBytes
  <2>5. ASSUME out.accepted PROVE out.position = HeaderBytes + n
    <3>1. HeaderBytes + n <= file.present
      BY <2>3, <2>5
    <3> QED
      BY <1>1, <2>3, <3>1 DEF AtMost, HeaderBytes
  <2> QED
    BY <2>2, <2>3, <2>4, <2>5 DEF InspectionIsCheap, n, out
<1> QED
  BY <1>2, <1>3
=============================================================================
