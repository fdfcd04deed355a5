--------------------------- MODULE SequenceLemmas ---------------------------
(***************************************************************************)
(* What several components' proofs need of the natural numbers and of      *)
(* sequences of sequences.  The library states induction for an operator;  *)
(* here it is about a set, which the provers can instantiate.              *)
(***************************************************************************)
EXTENDS Integers, Sequences, SequencesExt, FiniteSets, Functions, SequenceTheorems, FiniteSetTheorems,
        WellFoundedInduction, TLAPS

-----------------------------------------------------------------------------
(* Induction.                                                              *)

LEMMA LeastNatural ==
  ASSUME NEW A, A \subseteq Nat, A # {}
  PROVE  \E m \in A : \A n \in A : m <= n
<1> DEFINE R == {ss \in Nat \X Nat : ss[1] < ss[2]}
<1>1. R = OpToRel(<, Nat)
  BY DEF OpToRel
<1>2. IsWellFoundedOn(R, Nat)
  BY <1>1, NatLessThanWellFounded
<1> HIDE DEF R
<1>3. \E m \in A : \A n \in A : ~ (<<n, m>> \in R)
  BY <1>2, WFMin, Zenon
<1>4. PICK m \in A : \A n \in A : ~ (<<n, m>> \in R)
  BY <1>3
<1>5. ASSUME NEW n \in A PROVE m <= n
  <2>1. m \in Nat /\ n \in Nat
    OBVIOUS
  <2>2. ~ (<<n, m>> \in R)
    BY <1>4
  <2>3. ~ (n < m)
    BY <2>1, <2>2, SMT DEF R
  <2>4. QED
    BY <2>1, <2>3
<1>6. QED
  BY <1>5

LEMMA Induction ==
  ASSUME NEW A, 0 \in A, \A n \in Nat : n \in A => n + 1 \in A
  PROVE  Nat \subseteq A
<1> SUFFICES ASSUME NEW x \in Nat, x \notin A  PROVE FALSE
  OBVIOUS
<1> DEFINE Missing == {n \in Nat : n \notin A}
<1>1. PICK m \in Missing : \A n \in Missing : m <= n
  BY LeastNatural
<1>2. m # 0 /\ m - 1 \in Nat
  OBVIOUS
<1>3. m - 1 \in A
  BY <1>1, <1>2
<1>4. QED
  BY <1>2, <1>3

-----------------------------------------------------------------------------
(* Associativity, with one premise: the provers would go on joining what   *)
(* they have joined.                                                       *)
Joins(S, a, b, c) == a \in Seq(S) /\ b \in Seq(S) /\ c \in Seq(S)

LEMMA JoinTyped ==
  ASSUME NEW S, NEW a \in Seq(S), NEW b \in Seq(S), NEW c \in Seq(S)
  PROVE  (a \o b) \o c = a \o (b \o c)
  BY ConcatAssociative

LEMMA Join ==
  ASSUME NEW S, NEW a, NEW b, NEW c, Joins(S, a, b, c)
  PROVE  (a \o b) \o c = a \o (b \o c)
<1>1. a \in Seq(S) /\ b \in Seq(S) /\ c \in Seq(S)
  BY DEF Joins
<1>2. QED
  BY <1>1, JoinTyped

JoinsFour(S, a, b, c, d) == Joins(S, a, b, c) /\ d \in Seq(S)

LEMMA JoinFour ==
  ASSUME NEW S, NEW a, NEW b, NEW c, NEW d, JoinsFour(S, a, b, c, d)
  PROVE  /\ ((a \o b) \o c) \o d = a \o ((b \o c) \o d)
         /\ (a \o (b \o c)) \o d = (a \o b) \o (c \o d)
<1>1. PICK x, y : x = a \o b /\ y = b \o c
  OBVIOUS
<1>2. x \in Seq(S) /\ y \in Seq(S)
  BY <1>1, ConcatProperties DEF Joins, JoinsFour
<1>3. Joins(S, a, b, c) /\ Joins(S, a, y, d) /\ Joins(S, x, c, d)
  BY <1>2 DEF Joins, JoinsFour
<1>4. x \o c = a \o y
  BY <1>1, <1>3, Join
<1>5. (a \o y) \o d = a \o (y \o d) /\ (x \o c) \o d = x \o (c \o d)
  BY <1>3, Join
<1>6. QED
  BY <1>1, <1>4, <1>5

-----------------------------------------------------------------------------
(* Sequences of sequences.                                                 *)

Flattens(f, F) == f = [i \in 1 .. Len(F) |-> IF i = 1 THEN F[i] ELSE f[i - 1] \o F[i]]

LEMMA FlattenExists ==
  ASSUME NEW F, Len(F) \in Nat
  PROVE  \E f : Flattens(f, F)
<1> DEFINE Upto(m, f) == f = [i \in 1 .. m |-> IF i = 1 THEN F[i] ELSE f[i - 1] \o F[i]]
           A == {m \in Nat : \E f : Upto(m, f)}
<1>1. 0 \in A
  <2> DEFINE first == [i \in 1 .. 0 |-> F[i]]
  <2>1. first = [i \in 1 .. 0 |-> IF i = 1 THEN F[i] ELSE first[i - 1] \o F[i]]
    OBVIOUS
  <2> HIDE DEF first
  <2>2. \E f : Upto(0, f)
    BY <2>1
  <2>3. QED
    BY <2>2
<1>2. ASSUME NEW m \in Nat, m \in A  PROVE m + 1 \in A
  <2>1. PICK before : Upto(m, before)
    BY <1>2
  <2> DEFINE next == [i \in 1 .. m + 1 |->
                        IF i = m + 1 THEN (IF i = 1 THEN F[i] ELSE before[m] \o F[i]) ELSE before[i]]
  <2>2. ASSUME NEW i \in 1 .. m + 1
        PROVE  next[i] = IF i = 1 THEN F[i] ELSE next[i - 1] \o F[i]
    <3>1. CASE i = m + 1 /\ i # 1
      <4>1. m \in 1 .. m + 1 /\ m # m + 1 /\ i - 1 = m
        BY <3>1
      <4>2. next[m] = before[m]
        BY <4>1
      <4>3. next[i] = before[m] \o F[i]
        BY <3>1
      <4>4. QED
        BY <3>1, <4>1, <4>2, <4>3
    <3>2. CASE i = 1
      <4>1. CASE i = m + 1
        BY <3>2, <4>1
      <4>2. CASE i # m + 1
        <5>1. i \in 1 .. m
          BY <4>2
        <5>2. next[i] = before[i] /\ before[i] = F[i]
          BY <2>1, <3>2, <4>2, <5>1
        <5>3. QED
          BY <3>2, <5>2
      <4>3. QED
        BY <4>1, <4>2
    <3>3. CASE i # m + 1 /\ i # 1
      <4>1. i \in 1 .. m /\ i - 1 \in 1 .. m + 1 /\ i - 1 # m + 1
        BY <3>3
      <4>2. next[i] = before[i] /\ next[i - 1] = before[i - 1]
        BY <3>3, <4>1
      <4>3. before[i] = before[i - 1] \o F[i]
        BY <2>1, <3>3, <4>1
      <4>4. QED
        BY <3>3, <4>2, <4>3
    <3>4. QED
      BY <3>1, <3>2, <3>3
  <2>3. next = [i \in 1 .. m + 1 |-> IF i = 1 THEN F[i] ELSE next[i - 1] \o F[i]]
    <3> DEFINE rhs == [i \in 1 .. m + 1 |-> IF i = 1 THEN F[i] ELSE next[i - 1] \o F[i]]
    <3>1. \A i \in 1 .. m + 1 : next[i] = rhs[i]
      BY <2>2
    <3>2. QED
      BY <3>1
  <2> HIDE DEF next
  <2>4. \E f : Upto(m + 1, f)
    BY <2>3
  <2> HIDE DEF Upto
  <2>5. QED
    BY <2>4
<1> HIDE DEF A
<1>3. Nat \subseteq A
  BY <1>1, <1>2, Induction
<1>4. Len(F) \in A
  BY <1>3
<1>5. QED
  BY <1>4 DEF A, Flattens

LEMMA FlattenIs ==
  ASSUME NEW F, Len(F) \in Nat \ {0}
  PROVE  \E f : Flattens(f, F) /\ FlattenSeq(F) = f[Len(F)]
<1>1. Flattens(CHOOSE f : Flattens(f, F), F)
  BY FlattenExists
<1>2. FlattenSeq(F) = (CHOOSE f : Flattens(f, F))[Len(F)]
  BY DEF FlattenSeq, Flattens
<1>3. QED
  BY <1>1, <1>2

LEMMA FlattenStep ==
  ASSUME NEW F, NEW f, Flattens(f, F), NEW i \in 1 .. Len(F)
  PROVE  f[i] = IF i = 1 THEN F[i] ELSE f[i - 1] \o F[i]
  BY DEF Flattens

LEMMA FlattenType ==
  ASSUME NEW S, NEW F \in Seq(Seq(S)), NEW f, Flattens(f, F), NEW i \in 1 .. Len(F)
  PROVE  f[i] \in Seq(S)
<1> DEFINE A == {n \in Nat : \A k \in 1 .. Len(F) : k <= n => f[k] \in Seq(S)}
<1>0. Len(F) \in Nat
  OBVIOUS
<1>1. 0 \in A
  BY <1>0
<1>2. ASSUME NEW n \in Nat, n \in A  PROVE n + 1 \in A
  <2>1. ASSUME NEW k \in 1 .. Len(F), k <= n + 1  PROVE f[k] \in Seq(S)
    <3>1. F[k] \in Seq(S) /\ k \in Nat
      BY <1>0, ElementOfSeq
    <3>2. CASE k = 1
      BY <3>1, <3>2, FlattenStep
    <3>3. CASE k # 1
      <4>1. k - 1 \in 1 .. Len(F) /\ k - 1 <= n
        BY <1>0, <2>1, <3>3
      <4>2. f[k - 1] \in Seq(S)
        BY <1>2, <4>1
      <4>3. f[k] = f[k - 1] \o F[k]
        BY <3>3, FlattenStep
      <4>4. QED
        BY <3>1, <4>2, <4>3, ConcatProperties
    <3>4. QED
      BY <3>2, <3>3
  <2>2. QED
    BY <2>1
<1> HIDE DEF A
<1>3. Nat \subseteq A
  BY <1>1, <1>2, Induction
<1>4. Len(F) \in A
  BY <1>0, <1>3
<1>5. QED
  BY <1>0, <1>4 DEF A

LEMMA FlattenAgree ==
  ASSUME NEW F, NEW G, Len(F) \in Nat, Len(G) \in Nat, Len(F) <= Len(G),
         \A k \in 1 .. Len(F) : F[k] = G[k],
         NEW f, Flattens(f, F), NEW g, Flattens(g, G), NEW i \in 1 .. Len(F)
  PROVE  f[i] = g[i]
<1> DEFINE A == {n \in Nat : \A k \in 1 .. Len(F) : k <= n => f[k] = g[k]}
<1>1. 0 \in A
  OBVIOUS
<1>2. ASSUME NEW n \in Nat, n \in A  PROVE n + 1 \in A
  <2>1. ASSUME NEW k \in 1 .. Len(F), k <= n + 1  PROVE f[k] = g[k]
    <3>1. k \in 1 .. Len(G) /\ F[k] = G[k]
      OBVIOUS
    <3>2. /\ f[k] = IF k = 1 THEN F[k] ELSE f[k - 1] \o F[k]
          /\ g[k] = IF k = 1 THEN G[k] ELSE g[k - 1] \o G[k]
      BY <3>1, FlattenStep
    <3>3. k # 1 => k - 1 \in 1 .. Len(F) /\ k - 1 <= n
      BY <2>1
    <3>4. k # 1 => f[k - 1] = g[k - 1]
      BY <1>2, <3>3
    <3>5. QED
      BY <3>1, <3>2, <3>4
  <2>2. QED
    BY <2>1
<1> HIDE DEF A
<1>3. Nat \subseteq A
  BY <1>1, <1>2, Induction
<1>4. Len(F) \in A
  BY <1>3
<1>5. QED
  BY <1>4 DEF A

LEMMA FlattenEmpty == FlattenSeq(<<>>) = <<>>
  BY DEF FlattenSeq

LEMMA FlattenSeqType ==
  ASSUME NEW S, NEW F \in Seq(Seq(S))
  PROVE  FlattenSeq(F) \in Seq(S)
<1>1. CASE F = <<>>
  BY <1>1, FlattenEmpty, EmptySeq
<1>2. CASE F # <<>>
  <2>1. Len(F) \in Nat \ {0}
    BY <1>2, EmptySeq
  <2>2. PICK f : Flattens(f, F) /\ FlattenSeq(F) = f[Len(F)]
    BY <2>1, FlattenIs
  <2>3. Len(F) \in 1 .. Len(F)
    BY <2>1
  <2>4. QED
    BY <2>2, <2>3, FlattenType
<1>3. QED
  BY <1>1, <1>2

(* A token more.                                                           *)
LEMMA FlattenAppend ==
  ASSUME NEW S, NEW F \in Seq(Seq(S)), NEW x \in Seq(S)
  PROVE  FlattenSeq(Append(F, x)) = FlattenSeq(F) \o x
<1> DEFINE G == Append(F, x)
<1>1. /\ G \in Seq(Seq(S)) /\ Len(G) = Len(F) + 1 /\ Len(F) \in Nat
      /\ \A i \in 1 .. Len(F) : G[i] = F[i]
      /\ G[Len(F) + 1] = x
  BY AppendProperties, LenProperties
<1> HIDE DEF G
<1>2. PICK g : Flattens(g, G) /\ FlattenSeq(G) = g[Len(F) + 1]
  BY <1>1, FlattenIs
<1>3. Len(F) + 1 \in 1 .. Len(G)
  BY <1>1
<1>4. g[Len(F) + 1] = IF Len(F) + 1 = 1 THEN x ELSE g[Len(F) + 1 - 1] \o x
  BY <1>1, <1>2, <1>3, FlattenStep
<1>5. CASE F = <<>>
  <2>1. FlattenSeq(G) = x
    BY <1>2, <1>4, <1>5
  <2>2. <<>> \o x = x
    BY ConcatEmptySeq
  <2>3. QED
    BY <1>5, <2>1, <2>2, FlattenEmpty DEF G
<1>6. CASE F # <<>>
  <2>1. Len(F) \in Nat \ {0} /\ Len(F) \in 1 .. Len(F) /\ Len(F) + 1 - 1 = Len(F)
        /\ Len(F) + 1 # 1
    BY <1>6, EmptySeq
  <2>2. PICK f : Flattens(f, F) /\ FlattenSeq(F) = f[Len(F)]
    BY <2>1, FlattenIs
  <2>3. f[Len(F)] = g[Len(F)]
    BY <1>1, <1>2, <2>1, <2>2, FlattenAgree
  <2>4. FlattenSeq(G) = g[Len(F)] \o x
    BY <1>2, <1>4, <2>1
  <2>5. QED
    BY <2>2, <2>3, <2>4 DEF G
<1>7. QED
  BY <1>5, <1>6

LEMMA FlattenConcat ==
  ASSUME NEW S, NEW F \in Seq(Seq(S)), NEW G \in Seq(Seq(S))
  PROVE  FlattenSeq(F \o G) = FlattenSeq(F) \o FlattenSeq(G)
<1> DEFINE A == {n \in Nat : \A H \in Seq(Seq(S)) :
                   Len(H) = n => FlattenSeq(F \o H) = FlattenSeq(F) \o FlattenSeq(H)}
<1>0. FlattenSeq(F) \in Seq(S)
  BY FlattenSeqType
<1>1. 0 \in A
  <2>1. ASSUME NEW H \in Seq(Seq(S)), Len(H) = 0
        PROVE  FlattenSeq(F \o H) = FlattenSeq(F) \o FlattenSeq(H)
    <3>1. H = <<>>
      BY <2>1, EmptySeq
    <3>2. F \o <<>> = F /\ FlattenSeq(F) \o <<>> = FlattenSeq(F)
      BY <1>0, ConcatEmptySeq
    <3>3. QED
      BY <3>1, <3>2, FlattenEmpty
  <2>2. QED
    BY <2>1
<1>2. ASSUME NEW n \in Nat, n \in A  PROVE n + 1 \in A
  <2>1. ASSUME NEW H \in Seq(Seq(S)), Len(H) = n + 1
        PROVE  FlattenSeq(F \o H) = FlattenSeq(F) \o FlattenSeq(H)
    <3>1. H # <<>>
      BY <2>1, EmptySeq
    <3>2. PICK I \in Seq(Seq(S)), x \in Seq(S) : H = Append(I, x)
      BY <3>1, SequenceEmptyOrAppend
    <3>3. Len(I) = n
      BY <2>1, <3>2, AppendProperties, LenProperties
    <3>4. FlattenSeq(F \o I) = FlattenSeq(F) \o FlattenSeq(I)
      BY <1>2, <3>3
    <3>5. F \o H = Append(F \o I, x)
      <4>1. H = I \o <<x>> /\ <<x>> \in Seq(Seq(S)) /\ F \o I \in Seq(Seq(S))
        BY <3>2, AppendIsConcat, ConcatProperties
      <4>2. Joins(Seq(S), F, I, <<x>>)
        BY <4>1 DEF Joins
      <4>3. F \o H = (F \o I) \o <<x>>
        BY <4>1, <4>2, Join
      <4>4. QED
        BY <4>1, <4>3, AppendIsConcat
    <3>6. F \o I \in Seq(Seq(S)) /\ FlattenSeq(I) \in Seq(S)
      BY ConcatProperties, FlattenSeqType
    <3>7. FlattenSeq(F \o H) = (FlattenSeq(F) \o FlattenSeq(I)) \o x
      BY <3>4, <3>5, <3>6, FlattenAppend
    <3>8. FlattenSeq(H) = FlattenSeq(I) \o x
      BY <3>2, FlattenAppend
    <3>9. QED
      <4>1. Joins(S, FlattenSeq(F), FlattenSeq(I), x)
        BY <1>0, <3>6 DEF Joins
      <4>2. QED
        BY <3>7, <3>8, <4>1, Join
  <2>2. QED
    BY <2>1
<1> HIDE DEF A
<1>3. Nat \subseteq A
  BY <1>1, <1>2, Induction
<1>4. Len(G) \in A
  BY <1>3, LenProperties
<1>5. QED
  BY <1>4 DEF A

LEMMA FlattenJoin ==
  ASSUME NEW S, NEW F, NEW G, Joins(Seq(S), F, G, G)
  PROVE  FlattenSeq(F \o G) = FlattenSeq(F) \o FlattenSeq(G)
<1>1. F \in Seq(Seq(S)) /\ G \in Seq(Seq(S))
  BY DEF Joins
<1>2. QED
  BY <1>1, FlattenConcat

-----------------------------------------------------------------------------
(* The members of a concatenation and of a part, by their place.           *)

LEMMA ConcatAt ==
  ASSUME NEW S, NEW b \in Seq(S), NEW c \in Seq(S)
  PROVE  /\ b \o c \in Seq(S) /\ Len(b \o c) = Len(b) + Len(c) /\ Len(b) \in Nat /\ Len(c) \in Nat
         /\ \A p \in 1 .. Len(b) : (b \o c)[p] = b[p]
         /\ \A p \in 1 .. Len(c) : (b \o c)[Len(b) + p] = c[p]
<1>1. /\ b \o c \in Seq(S) /\ Len(b \o c) = Len(b) + Len(c)
      /\ \A p \in 1 .. Len(b) + Len(c) : (b \o c)[p] = IF p <= Len(b) THEN b[p] ELSE c[p - Len(b)]
  BY ConcatProperties
<1>2. Len(b) \in Nat /\ Len(c) \in Nat
  BY LenProperties
<1>3. \A p \in 1 .. Len(b) : (b \o c)[p] = b[p]
  BY <1>1, <1>2
<1>4. ASSUME NEW p \in 1 .. Len(c)  PROVE (b \o c)[Len(b) + p] = c[p]
  <2>1. Len(b) + p \in 1 .. Len(b) + Len(c) /\ ~(Len(b) + p <= Len(b)) /\ (Len(b) + p) - Len(b) = p
    BY <1>2
  <2>2. QED
    BY <1>1, <2>1
<1>5. QED
  BY <1>1, <1>2, <1>3, <1>4

LEMMA SubSeqIs ==
  ASSUME NEW s, NEW m \in Int, NEW n \in Int
  PROVE  SubSeq(s, m, n) = [x \in 1 .. n - m + 1 |-> s[m + x - 1]]
  OBVIOUS

-----------------------------------------------------------------------------
(* The elements of a sequence.                                             *)

IsSequence(s) == s \in Seq(ToSet(s))

LEMMA IsSequenceIntro ==
  ASSUME NEW S, NEW s \in Seq(S)
  PROVE  IsSequence(s) /\ ToSet(s) \subseteq S /\ DOMAIN s = 1 .. Len(s) /\ Len(s) \in Nat
<1>1. Len(s) \in Nat /\ DOMAIN s = 1 .. Len(s) /\ s = [i \in 1 .. Len(s) |-> s[i]]
  BY LenProperties
<1>2. \A i \in 1 .. Len(s) : s[i] \in S /\ s[i] \in ToSet(s)
  BY <1>1, ElementOfSeq DEF ToSet
<1>3. [i \in 1 .. Len(s) |-> s[i]] \in Seq(ToSet(s))
  BY <1>1, <1>2, IsASeq
<1>4. QED
  BY <1>1, <1>2, <1>3 DEF IsSequence, ToSet

LEMMA ElementsOfConcat ==
  ASSUME NEW s, NEW t, IsSequence(s), IsSequence(t)
  PROVE  IsSequence(s \o t) /\ ToSet(s \o t) = ToSet(s) \union ToSet(t)
<1> DEFINE S == ToSet(s) \union ToSet(t)
<1>1. s \in Seq(S) /\ t \in Seq(S)
  BY SeqMonotonic DEF IsSequence
<1>2. /\ DOMAIN s = 1 .. Len(s) /\ DOMAIN t = 1 .. Len(t)
      /\ Len(s) \in Nat /\ Len(t) \in Nat
  BY <1>1, LenProperties
<1>3. /\ s \o t \in Seq(S) /\ Len(s \o t) = Len(s) + Len(t)
      /\ DOMAIN (s \o t) = 1 .. Len(s) + Len(t)
  BY <1>1, <1>2, ConcatProperties, LenProperties
<1>4. \A i \in 1 .. Len(s) : (s \o t)[i] = s[i]
  BY <1>1, <1>2, ConcatProperties
<1>5. \A i \in 1 .. Len(t) : (s \o t)[Len(s) + i] = t[i]
  <2> SUFFICES ASSUME NEW i \in 1 .. Len(t)  PROVE (s \o t)[Len(s) + i] = t[i]
    OBVIOUS
  <2>1. /\ Len(s) + i \in 1 .. Len(s) + Len(t) /\ ~ (Len(s) + i <= Len(s))
        /\ Len(s) + i - Len(s) = i
    BY <1>2
  <2>2. QED
    BY <1>1, <2>1, ConcatProperties
<1>6. ToSet(s) \subseteq ToSet(s \o t)
  BY <1>2, <1>3, <1>4 DEF ToSet
<1>7. ToSet(t) \subseteq ToSet(s \o t)
  <2> SUFFICES ASSUME NEW i \in 1 .. Len(t)  PROVE t[i] \in ToSet(s \o t)
    BY <1>2 DEF ToSet
  <2>1. Len(s) + i \in 1 .. Len(s) + Len(t)
    BY <1>2
  <2>2. QED
    BY <1>3, <1>5, <2>1 DEF ToSet
<1>8. QED
  BY <1>3, <1>6, <1>7, IsSequenceIntro

LEMMA ElementsOfFlatten ==
  ASSUME NEW n \in Nat, NEW F, F = [i \in 1 .. n |-> F[i]], \A i \in 1 .. n : IsSequence(F[i])
  PROVE  /\ IsSequence(FlattenSeq(F))
         /\ ToSet(FlattenSeq(F)) = UNION {ToSet(F[i]) : i \in 1 .. n}
<1> DEFINE E == UNION {ToSet(F[i]) : i \in 1 .. n}
<1>1. \A i \in 1 .. n : F[i] \in Seq(E)
  <2> SUFFICES ASSUME NEW i \in 1 .. n  PROVE F[i] \in Seq(E)
    OBVIOUS
  <2>1. ToSet(F[i]) \subseteq E
    OBVIOUS
  <2>2. QED
    BY <2>1, SeqMonotonic DEF IsSequence
<1>2. F \in Seq(Seq(E)) /\ Len(F) = n
  <2>1. [i \in 1 .. n |-> F[i]] \in Seq(Seq(E))
    BY <1>1, IsASeq
  <2>2. F \in Seq(Seq(E)) /\ DOMAIN F = 1 .. n
    BY <2>1
  <2>3. QED
    BY <2>2, LenProperties
<1> HIDE DEF E
<1>3. FlattenSeq(F) \in Seq(E)
  BY <1>2, FlattenSeqType
<1>4. CASE n = 0
  <2>1. FlattenSeq(F) = F /\ DOMAIN F = {}
    BY <1>2, <1>4 DEF FlattenSeq
  <2>2. QED
    BY <1>3, <1>4, <2>1, IsSequenceIntro DEF ToSet
<1>5. CASE n # 0
  <2>1. PICK f : Flattens(f, F) /\ FlattenSeq(F) = f[n]
    BY <1>2, <1>5, FlattenIs
  <2>2. \A k \in 1 .. n : f[k] = IF k = 1 THEN F[k] ELSE f[k - 1] \o F[k]
    BY <1>2, <2>1, FlattenStep
  <2>3. \A k \in 1 .. n : IsSequence(f[k])
    BY <1>2, <2>1, FlattenType, IsSequenceIntro
  <2> DEFINE A == {m \in Nat : \A k \in 1 .. n :
                     k <= m => ToSet(f[k]) = UNION {ToSet(F[i]) : i \in 1 .. k}}
  <2>4. 0 \in A
    OBVIOUS
  <2>5. ASSUME NEW m \in Nat, m \in A  PROVE m + 1 \in A
    <3> SUFFICES ASSUME NEW k \in 1 .. n, k = m + 1
                 PROVE  ToSet(f[k]) = UNION {ToSet(F[i]) : i \in 1 .. k}
      <4>1. \A k \in 1 .. n : k <= m + 1 => k <= m \/ k = m + 1
        OBVIOUS
      <4>2. QED
        BY <2>5, <4>1
    <3>1. CASE k = 1
      <4>1. 1 .. k = {1} /\ f[k] = F[1]
        BY <2>2, <3>1
      <4>2. QED
        BY <4>1
    <3>2. CASE k # 1
      <4>1. k - 1 \in 1 .. n /\ k - 1 <= m /\ 1 .. k = (1 .. k - 1) \union {k}
        BY <3>2
      <4>2. ToSet(f[k - 1]) = UNION {ToSet(F[i]) : i \in 1 .. k - 1}
        BY <2>5, <4>1
      <4>3. ToSet(f[k]) = ToSet(f[k - 1]) \union ToSet(F[k])
        BY <2>2, <2>3, <3>2, <4>1, ElementsOfConcat
      <4>4. QED
        <5>1. \A x : x \in UNION {ToSet(F[i]) : i \in 1 .. k} <=> \E i \in 1 .. k : x \in ToSet(F[i])
          OBVIOUS
        <5>2. \A x : x \in ToSet(f[k - 1]) <=> \E i \in 1 .. k - 1 : x \in ToSet(F[i])
          BY <4>2
        <5>3. \A x : x \in ToSet(f[k]) <=> \E i \in 1 .. k : x \in ToSet(F[i])
          BY <4>1, <4>3, <5>2
        <5>4. QED
          BY <5>1, <5>3
    <3>3. QED
      BY <3>1, <3>2
  <2> HIDE DEF A
  <2>6. n \in A
    BY <2>4, <2>5, Induction
  <2>7. ToSet(f[n]) = UNION {ToSet(F[i]) : i \in 1 .. n}
    BY <1>5, <2>6 DEF A
  <2>8. QED
    BY <1>3, <2>1, <2>7, IsSequenceIntro
<1>6. QED
  BY <1>4, <1>5

LEMMA ElementsOfOne ==
  ASSUME NEW a
  PROVE  IsSequence(<<a>>) /\ ToSet(<<a>>) = {a}
<1>1. <<a>> \in Seq({a}) /\ DOMAIN <<a>> = {1} /\ <<a>>[1] = a
  OBVIOUS
<1>2. ToSet(<<a>>) = {a}
  BY <1>1 DEF ToSet
<1>3. QED
  BY <1>1, <1>2, IsSequenceIntro

LEMMA ElementsOfTwo ==
  ASSUME NEW a, NEW b
  PROVE  IsSequence(<<a, b>>) /\ ToSet(<<a, b>>) = {a, b}
<1>1. /\ <<a, b>> \in Seq({a, b}) /\ DOMAIN <<a, b>> = {1, 2}
      /\ <<a, b>>[1] = a /\ <<a, b>>[2] = b
  OBVIOUS
<1>2. ToSet(<<a, b>>) = {a, b}
  BY <1>1 DEF ToSet
<1>3. QED
  BY <1>1, <1>2, IsSequenceIntro

LEMMA ElementsOfThree ==
  ASSUME NEW a, NEW b, NEW c
  PROVE  IsSequence(<<a, b, c>>) /\ ToSet(<<a, b, c>>) = {a, b, c}
<1>1. /\ <<a, b, c>> \in Seq({a, b, c}) /\ DOMAIN <<a, b, c>> = {1, 2, 3}
      /\ <<a, b, c>>[1] = a /\ <<a, b, c>>[2] = b /\ <<a, b, c>>[3] = c
  OBVIOUS
<1>2. ToSet(<<a, b, c>>) = {a, b, c}
  BY <1>1 DEF ToSet
<1>3. QED
  BY <1>1, <1>2, IsSequenceIntro

LEMMA ElementsOfFour ==
  ASSUME NEW a, NEW b, NEW c, NEW d
  PROVE  IsSequence(<<a, b, c, d>>) /\ ToSet(<<a, b, c, d>>) = {a, b, c, d}
<1>1. /\ <<a, b, c, d>> \in Seq({a, b, c, d}) /\ DOMAIN <<a, b, c, d>> = {1, 2, 3, 4}
      /\ <<a, b, c, d>>[1] = a /\ <<a, b, c, d>>[2] = b
      /\ <<a, b, c, d>>[3] = c /\ <<a, b, c, d>>[4] = d
  OBVIOUS
<1>2. ToSet(<<a, b, c, d>>) = {a, b, c, d}
  BY <1>1 DEF ToSet
<1>3. QED
  BY <1>1, <1>2, IsSequenceIntro

LEMMA ElementsOfSetToSeq ==
  ASSUME NEW S, IsFiniteSet(S)
  PROVE  IsSequence(SetToSeq(S)) /\ ToSet(SetToSeq(S)) = S
<1> DEFINE n == Cardinality(S)
           g == SetToSeq(S)
<1>1. n \in Nat /\ ExistsBijection(1 .. n, S)
  BY FS_CardinalityType
<1>2. \E f \in [1 .. n -> S] : IsInjective(f)
  BY <1>1 DEF ExistsBijection, Bijection, Injection
<1>3. g \in [1 .. n -> S] /\ IsInjective(g)
  BY <1>2 DEF SetToSeq
<1>4. g \in Injection(1 .. n, S)
  BY <1>3 DEF Injection
<1>5. IsFiniteSet(1 .. n) /\ Cardinality(1 .. n) = n
  BY <1>1, FS_Interval
<1> HIDE DEF g
<1>6. g \in Surjection(1 .. n, S)
  BY <1>4, <1>5, FS_Injection
<1>7. \A x \in S : \E k \in 1 .. n : g[k] = x
  BY <1>6 DEF Surjection
<1>8. ToSet(g) = S
  BY <1>3, <1>7 DEF ToSet
<1>9. g \in Seq(S)
  <2>1. [k \in 1 .. n |-> g[k]] \in Seq(S)
    BY <1>1, <1>3, IsASeq
  <2>2. QED
    BY <1>3, <2>1
<1>10. QED
  BY <1>8, <1>9, IsSequenceIntro DEF g

LEMMA ElementsOfTail ==
  ASSUME NEW s, IsSequence(s), s # <<>>
  PROVE  /\ Head(s) \in ToSet(s) /\ IsSequence(Tail(s))
         /\ ToSet(s) = {Head(s)} \union ToSet(Tail(s))
<1>1. /\ Len(s) \in Nat \ {0} /\ DOMAIN s = 1 .. Len(s) /\ Head(s) = s[1]
      /\ Tail(s) \in Seq(ToSet(s)) /\ Len(Tail(s)) = Len(s) - 1
      /\ \A k \in 1 .. Len(Tail(s)) : Tail(s)[k] = s[k + 1]
  BY HeadTailProperties, EmptySeq, LenProperties DEF IsSequence
<1>2. IsSequence(Tail(s)) /\ DOMAIN Tail(s) = 1 .. Len(s) - 1
  BY <1>1, IsSequenceIntro
<1>3. ToSet(Tail(s)) = {s[k + 1] : k \in 1 .. Len(s) - 1}
  BY <1>1, <1>2 DEF ToSet
<1>4. \A k \in 1 .. Len(s) : k = 1 \/ (k - 1 \in 1 .. Len(s) - 1 /\ k = (k - 1) + 1)
  BY <1>1
<1>5. \A k \in 1 .. Len(s) - 1 : k + 1 \in 1 .. Len(s)
  BY <1>1
<1>6. \A x \in ToSet(s) : x = Head(s) \/ x \in ToSet(Tail(s))
  <2> SUFFICES ASSUME NEW k \in 1 .. Len(s)  PROVE s[k] = Head(s) \/ s[k] \in ToSet(Tail(s))
    BY <1>1 DEF ToSet
  <2>1. CASE k = 1
    BY <1>1, <2>1
  <2>2. CASE k - 1 \in 1 .. Len(s) - 1
    <3>1. s[(k - 1) + 1] \in ToSet(Tail(s))
      BY <1>3, <2>2
    <3>2. QED
      BY <1>4, <3>1
  <2>3. QED
    BY <1>4, <2>1, <2>2
<1>7. \A x \in ToSet(Tail(s)) : x \in ToSet(s)
  BY <1>1, <1>3, <1>5 DEF ToSet
<1>8. Head(s) \in ToSet(s)
  BY <1>1 DEF ToSet
<1>9. QED
  BY <1>2, <1>6, <1>7, <1>8
=============================================================================
