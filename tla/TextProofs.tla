----------------------------- MODULE TextProofs -----------------------------
(***************************************************************************)
(* Proofs about the text on its way in and out: for every text and every   *)
(* merge table encode loses nothing and cuts no special token, and for     *)
(* every answer and every way its tokens cut it the stream shows what      *)
(* decoding it at once would.  About the token drawn between the two:      *)
(* however its sums are rounded, it is one of the nucleus.                 *)
(***************************************************************************)
EXTENDS Tokenizer, Sampler, Utf8Stream, SequenceLemmas, FiniteSetTheorems

-----------------------------------------------------------------------------
(* Sequences of which each element becomes a sequence.                     *)

Map(f, s)     == [i \in DOMAIN s |-> f[s[i]]]
FlatMap(f, s) == FlattenSeq(Map(f, s))
Maps(f, D, S) == f \in [D -> Seq(S)]

LEMMA Mapped ==
  ASSUME NEW D, NEW S, NEW f, Maps(f, D, S), NEW s \in Seq(D)
  PROVE  /\ Map(f, s) \in Seq(Seq(S)) /\ Len(Map(f, s)) = Len(s)
         /\ \A i \in 1 .. Len(s) : Map(f, s)[i] = f[s[i]]
<1> DEFINE F == Map(f, s)
<1>1. Len(s) \in Nat /\ DOMAIN s = 1 .. Len(s)
  BY LenProperties
<1>2. \A i \in 1 .. Len(s) : f[s[i]] \in Seq(S)
  BY ElementOfSeq DEF Maps
<1>3. F = [i \in 1 .. Len(s) |-> f[s[i]]]
  BY <1>1 DEF Map
<1>4. F \in [1 .. Len(s) -> Seq(S)]
  BY <1>2, <1>3
<1>5. QED
  BY <1>1, <1>3, <1>4

LEMMA FlatMapType ==
  ASSUME NEW D, NEW S, NEW f, Maps(f, D, S), NEW s \in Seq(D)
  PROVE  FlatMap(f, s) \in Seq(S)
  BY Mapped, FlattenSeqType DEF FlatMap

LEMMA FlatMapEmpty == \A f : FlatMap(f, <<>>) = <<>>
<1> SUFFICES ASSUME NEW f  PROVE FlatMap(f, <<>>) = <<>>
  OBVIOUS
<1>1. Map(f, <<>>) = <<>>
  BY DEF Map
<1>2. QED
  BY <1>1, FlattenEmpty DEF FlatMap

LEMMA FlatMapConcat ==
  ASSUME NEW D, NEW S, NEW f, Maps(f, D, S), NEW s \in Seq(D), NEW t \in Seq(D)
  PROVE  FlatMap(f, s \o t) = FlatMap(f, s) \o FlatMap(f, t)
<1>0. PICK w : w = s \o t
  OBVIOUS
<1> DEFINE F == Map(f, s)
           G == Map(f, t)
           H == Map(f, w)
<1>1. Len(s) \in Nat /\ Len(t) \in Nat /\ w \in Seq(D) /\ Len(w) = Len(s) + Len(t)
      /\ \A i \in 1 .. Len(s) + Len(t) :
           w[i] = IF i <= Len(s) THEN s[i] ELSE t[i - Len(s)]
  BY <1>0, LenProperties, ConcatProperties
<1>2. F \in Seq(Seq(S)) /\ Len(F) = Len(s) /\ \A i \in 1 .. Len(s) : F[i] = f[s[i]]
  BY Mapped
<1>3. G \in Seq(Seq(S)) /\ Len(G) = Len(t) /\ \A i \in 1 .. Len(t) : G[i] = f[t[i]]
  BY Mapped
<1>4. H \in Seq(Seq(S)) /\ Len(H) = Len(w)
      /\ \A i \in 1 .. Len(w) : H[i] = f[w[i]]
  BY <1>1, Mapped
<1> HIDE DEF F, G, H
<1>5. F \o G \in Seq(Seq(S)) /\ Len(F \o G) = Len(F) + Len(G)
      /\ \A i \in 1 .. Len(F) + Len(G) :
           (F \o G)[i] = IF i <= Len(F) THEN F[i] ELSE G[i - Len(F)]
  BY <1>2, <1>3, ConcatProperties, ZenonT(30)
<1>6. ASSUME NEW i \in 1 .. Len(H)  PROVE H[i] = (F \o G)[i]
  <2>1. i \in 1 .. Len(s) + Len(t) /\ i \in 1 .. Len(F) + Len(G) /\ i \in 1 .. Len(w)
    BY <1>1, <1>2, <1>3, <1>4
  <2>2. CASE i <= Len(s)
    <3>1. i \in 1 .. Len(s)
      BY <2>1, <2>2
    <3>2. w[i] = s[i] /\ (F \o G)[i] = F[i]
      BY <1>1, <1>2, <1>5, <2>1, <2>2
    <3>3. QED
      BY <1>2, <1>4, <2>1, <3>1, <3>2
  <2>3. CASE ~(i <= Len(s))
    <3>1. i - Len(s) \in 1 .. Len(t)
      BY <1>1, <2>1, <2>3
    <3>2. w[i] = t[i - Len(s)] /\ (F \o G)[i] = G[i - Len(s)]
      BY <1>1, <1>2, <1>5, <2>1, <2>3
    <3>3. QED
      BY <1>3, <1>4, <2>1, <3>1, <3>2
  <2>4. QED
    BY <2>2, <2>3
<1>7. H = F \o G
  <2>1. Len(H) = Len(F \o G)
    BY <1>1, <1>2, <1>3, <1>4, <1>5
  <2>2. QED
    BY <1>4, <1>5, <1>6, <2>1, SeqEqual, Zenon
<1>8. FlattenSeq(F \o G) = FlattenSeq(F) \o FlattenSeq(G)
  BY <1>2, <1>3, FlattenConcat
<1>9. QED
  BY <1>0, <1>7, <1>8 DEF FlatMap, F, G, H

LEMMA FlattenOne ==
  ASSUME NEW S, NEW x \in Seq(S)
  PROVE  FlattenSeq(<<x>>) = x
<1>1. <<x>> = Append(<<>>, x) /\ <<>> \in Seq(Seq(S)) /\ <<>> \o x = x
  BY EmptySeq, ConcatEmptySeq
<1>2. FlattenSeq(Append(<<>>, x)) = FlattenSeq(<<>>) \o x
  BY <1>1, FlattenAppend
<1>3. QED
  BY <1>1, <1>2, FlattenEmpty

LEMMA FlatMapOne ==
  ASSUME NEW D, NEW S, NEW f, Maps(f, D, S), NEW d \in D
  PROVE  FlatMap(f, <<d>>) = f[d]
<1>1. Map(f, <<d>>) = <<f[d]>>
  BY DEF Map
<1>2. f[d] \in Seq(S)
  BY DEF Maps
<1>3. FlattenSeq(<<f[d]>>) = f[d]
  BY <1>2, FlattenOne
<1>4. QED
  BY <1>1, <1>3 DEF FlatMap

LEMMA FlatMapAppend ==
  ASSUME NEW D, NEW S, NEW f, Maps(f, D, S), NEW s \in Seq(D), NEW d \in D
  PROVE  FlatMap(f, Append(s, d)) = FlatMap(f, s) \o f[d]
<1>1. PICK e : e = <<d>>
  OBVIOUS
<1>2. Append(s, d) = s \o e /\ e \in Seq(D)
  BY <1>1, AppendIsConcat
<1>3. FlatMap(f, s \o e) = FlatMap(f, s) \o FlatMap(f, e)
  BY <1>2, FlatMapConcat
<1>4. FlatMap(f, e) = f[d]
  BY <1>1, FlatMapOne
<1>5. QED
  BY <1>2, <1>3, <1>4

LEMMA FlatMapJoin ==
  ASSUME NEW D, NEW S, NEW f, Maps(f, D, S), NEW s, NEW t, Joins(D, s, t, t)
  PROVE  FlatMap(f, s \o t) = FlatMap(f, s) \o FlatMap(f, t)
<1>1. s \in Seq(D) /\ t \in Seq(D)
  BY DEF Joins
<1>2. QED
  BY <1>1, FlatMapConcat

(* Two maps one after the other are one map.                               *)
LEMMA FlatMapTwice ==
  ASSUME NEW D, NEW E, NEW S, NEW f, Maps(f, E, S), NEW g, Maps(g, D, E),
         NEW h, Maps(h, D, S), \A d \in D : h[d] = FlatMap(f, g[d]),
         NEW s \in Seq(D)
  PROVE  FlatMap(f, FlatMap(g, s)) = FlatMap(h, s)
<1> DEFINE A == {n \in Nat : \A t \in Seq(D) :
                   Len(t) = n => FlatMap(f, FlatMap(g, t)) = FlatMap(h, t)}
<1>1. 0 \in A
  <2>1. ASSUME NEW t \in Seq(D), Len(t) = 0  PROVE FlatMap(f, FlatMap(g, t)) = FlatMap(h, t)
    <3>1. t = <<>>
      BY <2>1, EmptySeq
    <3>2. QED
      BY <3>1, FlatMapEmpty
  <2>2. QED
    BY <2>1
<1>2. ASSUME NEW n \in Nat, n \in A  PROVE n + 1 \in A
  <2>1. ASSUME NEW t \in Seq(D), Len(t) = n + 1
        PROVE  FlatMap(f, FlatMap(g, t)) = FlatMap(h, t)
    <3>1. t # <<>>
      BY <2>1, EmptySeq
    <3>2. PICK u \in Seq(D), d \in D : t = Append(u, d)
      BY <3>1, SequenceEmptyOrAppend
    <3>3. Len(u) = n
      BY <2>1, <3>2, AppendProperties, LenProperties
    <3>4. PICK x, y : x = FlatMap(g, u) /\ y = g[d]
      OBVIOUS
    <3>5. FlatMap(g, t) = x \o y /\ x \in Seq(E) /\ y \in Seq(E)
      <4>1. FlatMap(g, t) = FlatMap(g, u) \o g[d]
        BY <3>2, FlatMapAppend
      <4>2. FlatMap(g, u) \in Seq(E)
        BY FlatMapType
      <4>3. g[d] \in Seq(E)
        BY DEF Maps
      <4>4. QED
        BY <3>4, <4>1, <4>2, <4>3
    <3>6. FlatMap(h, t) = FlatMap(h, u) \o h[d]
      BY <3>2, FlatMapAppend
    <3>7. FlatMap(f, x \o y) = FlatMap(f, x) \o FlatMap(f, y)
      <4>1. Joins(E, x, y, y)
        BY <3>5 DEF Joins
      <4>2. QED
        BY <4>1, FlatMapJoin
    <3>8. FlatMap(f, FlatMap(g, u)) = FlatMap(h, u)
      BY <1>2, <3>3
    <3>9. QED
      BY <3>4, <3>5, <3>6, <3>7, <3>8
  <2>2. QED
    BY <2>1
<1> HIDE DEF A
<1>3. Nat \subseteq A
  BY <1>1, <1>2, Induction
<1>4. Len(s) \in A
  BY <1>3, LenProperties
<1>5. QED
  BY <1>4 DEF A

LEMMA FlatMapSame ==
  ASSUME NEW D, NEW f, Maps(f, D, D), \A d \in D : f[d] = <<d>>, NEW s \in Seq(D)
  PROVE  FlatMap(f, s) = s
<1> DEFINE A == {n \in Nat : \A t \in Seq(D) : Len(t) = n => FlatMap(f, t) = t}
<1>1. 0 \in A
  <2>1. ASSUME NEW t \in Seq(D), Len(t) = 0  PROVE FlatMap(f, t) = t
    <3>1. t = <<>>
      BY <2>1, EmptySeq
    <3>2. QED
      BY <3>1, FlatMapEmpty
  <2>2. QED
    BY <2>1
<1>2. ASSUME NEW n \in Nat, n \in A  PROVE n + 1 \in A
  <2>1. ASSUME NEW t \in Seq(D), Len(t) = n + 1  PROVE FlatMap(f, t) = t
    <3>1. t # <<>>
      BY <2>1, EmptySeq
    <3>2. PICK u \in Seq(D), d \in D : t = Append(u, d)
      BY <3>1, SequenceEmptyOrAppend
    <3>3. Len(u) = n
      BY <2>1, <3>2, AppendProperties, LenProperties
    <3>4. t = u \o <<d>> /\ <<d>> \in Seq(D)
      BY <3>2, AppendIsConcat
    <3>5. FlatMap(f, t) = FlatMap(f, u) \o f[d]
      BY <3>2, FlatMapAppend
    <3>6. QED
      BY <1>2, <3>3, <3>4, <3>5
  <2>2. QED
    BY <2>1
<1> HIDE DEF A
<1>3. Nat \subseteq A
  BY <1>1, <1>2, Induction
<1>4. Len(s) \in A
  BY <1>3, LenProperties
<1>5. QED
  BY <1>4 DEF A

-----------------------------------------------------------------------------
(* The tokenizer: bytes and the characters that stand for them.            *)

Octet == 0 .. 255

Utf8Of   == [c \in Code |-> Utf8(c)]
PieceOf  == [c \in Nat |-> IF c \in DOMAIN CharToByte THEN <<CharToByte[c]>> ELSE <<>>]
DecodeOf == [p \in String |-> PieceToBytes(p)]

LEMMA ByteToCharInjective ==
  /\ ByteToChar \in [Octet -> Nat]
  /\ \A a, b \in Octet : a < b => ByteToChar[a] # ByteToChar[b]
  /\ \A b \in SpecialChar : b \in Octet /\ ByteToChar[b] = b
<1> DEFINE Below(b) == {a \in 0 .. (b - 1) : a \notin Direct}
<1>1. ASSUME NEW b \in Octet  PROVE IsFiniteSet(Below(b)) /\ Cardinality(Below(b)) \in Nat
  <2>1. IsFiniteSet(0 .. (b - 1))
    BY FS_Interval DEF Octet
  <2>2. IsFiniteSet(Below(b))
    BY <2>1, FS_Subset
  <2>3. QED
    BY <2>2, FS_CardinalityType
<1>2. ASSUME NEW b \in Octet
      PROVE  ByteToChar[b] = IF b \in Direct THEN b ELSE 256 + Cardinality(Below(b))
  BY DEF ByteToChar, Octet
<1>3. ASSUME NEW a \in Octet, NEW b \in Octet, a < b, a \notin Direct
      PROVE  Cardinality(Below(a)) < Cardinality(Below(b))
  <2>1. Below(a) \cup {a} \subseteq Below(b) /\ a \notin Below(a)
    BY <1>3 DEF Octet
  <2> HIDE DEF Below
  <2>2. Cardinality(Below(a) \cup {a}) = Cardinality(Below(a)) + 1
    BY <1>1, <2>1, FS_AddElement
  <2>3. Cardinality(Below(a) \cup {a}) <= Cardinality(Below(b))
    BY <1>1, <2>1, FS_Subset
  <2>4. QED
    BY <1>1, <2>2, <2>3
<1> HIDE DEF Below
<1>4. ASSUME NEW b \in Octet  PROVE ByteToChar[b] \in Nat
  <2>1. Cardinality(Below(b)) \in Nat /\ b \in Nat
    BY <1>1 DEF Octet
  <2>2. QED
    BY <1>2, <2>1
<1>5. ASSUME NEW a \in Octet, NEW b \in Octet, a < b  PROVE ByteToChar[a] # ByteToChar[b]
  <2>1. a \in Int /\ b \in Int /\ a < 256 /\ b < 256
    BY DEF Octet
  <2>2. CASE a \in Direct \/ b \in Direct
    BY <1>1, <1>2, <1>5, <2>1, <2>2
  <2>3. CASE a \notin Direct /\ b \notin Direct
    BY <1>1, <1>2, <1>3, <1>5, <2>3
  <2>4. QED
    BY <2>2, <2>3
<1>6. ASSUME NEW b \in SpecialChar  PROVE b \in Octet /\ ByteToChar[b] = b
  <2>1. b \in Octet /\ b \in Direct
    BY DEF SpecialChar, Octet, Direct
  <2>2. QED
    BY <1>2, <2>1
<1>7. ByteToChar = [b \in Octet |-> ByteToChar[b]]
  BY DEF ByteToChar, Octet
<1>8. QED
  BY <1>4, <1>5, <1>6, <1>7

LEMMA CharToByteInverts ==
  /\ \A c \in DOMAIN CharToByte : CharToByte[c] \in Octet
  /\ \A b \in Octet : ByteToChar[b] \in DOMAIN CharToByte /\ CharToByte[ByteToChar[b]] = b
<1>1. DOMAIN CharToByte = {ByteToChar[b] : b \in Octet}
  BY ByteToCharInjective DEF CharToByte, Range
<1>2. ASSUME NEW c \in DOMAIN CharToByte
      PROVE  CharToByte[c] \in Octet /\ ByteToChar[CharToByte[c]] = c
  <2>1. CharToByte[c] = CHOOSE b \in 0 .. 255 : ByteToChar[b] = c
    BY DEF CharToByte
  <2>2. \E b \in 0 .. 255 : ByteToChar[b] = c
    BY <1>1 DEF Octet
  <2>3. QED
    BY <2>1, <2>2 DEF Octet
<1>3. ASSUME NEW b \in Octet  PROVE ByteToChar[b] \in DOMAIN CharToByte /\ CharToByte[ByteToChar[b]] = b
  <2>1. ByteToChar[b] \in DOMAIN CharToByte
    BY <1>1
  <2>2. PICK a \in Octet : a = CharToByte[ByteToChar[b]] /\ ByteToChar[a] = ByteToChar[b]
    BY <1>2, <2>1
  <2>3. ~(a < b) /\ ~(b < a)
    BY <2>2, ByteToCharInjective
  <2>4. a \in Int /\ b \in Int
    BY DEF Octet
  <2>5. QED
    BY <2>1, <2>2, <2>3, <2>4
<1>4. QED
  BY <1>2, <1>3

LEMMA MapTypes ==
  Maps(Utf8Of, Code, Octet) /\ Maps(PieceOf, Nat, Octet)
<1>1. ASSUME NEW c \in Code  PROVE Utf8(c) \in Seq(Octet)
  <2>1. c \in Nat /\ c <= 2047
    BY DEF Code
  <2>2. CASE c < 128
    BY <2>1, <2>2 DEF Utf8, Octet
  <2>3. CASE ~(c < 128)
    <3>1. c \div 64 \in 0 .. 31 /\ (c % 64) \in 0 .. 63
      BY <2>1
    <3>2. 192 + c \div 64 \in Octet /\ 128 + (c % 64) \in Octet
      BY <3>1 DEF Octet
    <3>3. QED
      BY <2>3, <3>2 DEF Utf8
  <2>4. QED
    BY <2>2, <2>3
<1>2. ASSUME NEW c \in Nat  PROVE PieceOf[c] \in Seq(Octet)
  BY CharToByteInverts DEF PieceOf
<1>3. QED
  BY <1>1, <1>2 DEF Maps, Utf8Of, PieceOf

LEMMA BytesAreMapped ==
  ASSUME NEW s \in Seq(Code)
  PROVE  Bytes(s) = FlatMap(Utf8Of, s) /\ Bytes(s) \in Seq(Octet)
<1>1. \A i \in DOMAIN s : s[i] \in Code
  BY LenProperties, ElementOfSeq
<1>2. [i \in DOMAIN s |-> Utf8(s[i])] = Map(Utf8Of, s)
  BY <1>1 DEF Map, Utf8Of
<1>3. QED
  BY <1>2, MapTypes, FlatMapType DEF Bytes, FlatMap

LEMMA PiecesAreMapped ==
  ASSUME NEW p \in String
  PROVE  PieceToBytes(p) = FlatMap(PieceOf, p) /\ PieceToBytes(p) \in Seq(Octet)
<1>1. \A i \in DOMAIN p : p[i] \in Nat
  BY LenProperties, ElementOfSeq DEF String
<1>2. [i \in DOMAIN p |-> IF p[i] \in DOMAIN CharToByte THEN <<CharToByte[p[i]]>> ELSE <<>>]
        = Map(PieceOf, p)
  BY <1>1 DEF Map, PieceOf
<1>3. QED
  BY <1>2, MapTypes, FlatMapType DEF PieceToBytes, FlatMap, String

LEMMA DecodeIsMapped ==
  /\ Maps(DecodeOf, String, Octet)
  /\ \A ids \in Seq(String) : Decode(ids) = FlatMap(DecodeOf, ids) /\ Decode(ids) \in Seq(Octet)
<1>1. Maps(DecodeOf, String, Octet)
  BY PiecesAreMapped DEF Maps, DecodeOf
<1>2. ASSUME NEW ids \in Seq(String)
      PROVE  Decode(ids) = FlatMap(DecodeOf, ids) /\ Decode(ids) \in Seq(Octet)
  <2>1. \A i \in DOMAIN ids : ids[i] \in String
    BY LenProperties, ElementOfSeq
  <2>2. [i \in DOMAIN ids |-> PieceToBytes(ids[i])] = Map(DecodeOf, ids)
    BY <2>1 DEF Map, DecodeOf
  <2>3. QED
    BY <1>1, <2>2, FlatMapType DEF Decode, FlatMap
<1>3. QED
  BY <1>1, <1>2

LEMMA BytesConcat ==
  ASSUME NEW s \in Seq(Code), NEW t \in Seq(Code)
  PROVE  Bytes(s \o t) = Bytes(s) \o Bytes(t)
<1>1. PICK w \in Seq(Code) : w = s \o t
  BY ConcatProperties
<1>2. FlatMap(Utf8Of, s \o t) = FlatMap(Utf8Of, s) \o FlatMap(Utf8Of, t)
  BY MapTypes, FlatMapConcat
<1>3. QED
  BY <1>1, <1>2, BytesAreMapped

LEMMA DecodeConcat ==
  ASSUME NEW s \in Seq(String), NEW t \in Seq(String)
  PROVE  Decode(s \o t) = Decode(s) \o Decode(t)
<1>1. PICK w \in Seq(String) : w = s \o t
  BY ConcatProperties
<1>2. FlatMap(DecodeOf, s \o t) = FlatMap(DecodeOf, s) \o FlatMap(DecodeOf, t)
  BY DecodeIsMapped, FlatMapConcat
<1>3. QED
  BY <1>1, <1>2, DecodeIsMapped

LEMMA DecodeOne ==
  ASSUME NEW p \in String
  PROVE  Decode(<<p>>) = PieceToBytes(p)
<1>1. PICK w : w = <<p>> /\ w \in Seq(String)
  <2>1. <<p>> \in Seq(String)
    OBVIOUS
  <2>2. QED
    BY <2>1
<1>2. FlatMap(DecodeOf, <<p>>) = DecodeOf[p]
  BY DecodeIsMapped, FlatMapOne
<1>3. QED
  BY <1>1, <1>2, DecodeIsMapped DEF DecodeOf

LEMMA EmptyText ==
  Bytes(<<>>) = <<>> /\ Decode(<<>>) = <<>> /\ PieceToBytes(<<>>) = <<>>
<1>1. <<>> \in Seq(Code) /\ <<>> \in Seq(String) /\ <<>> \in String
  BY EmptySeq DEF String
<1>2. QED
  BY <1>1, BytesAreMapped, DecodeIsMapped, PiecesAreMapped, FlatMapEmpty

(* Symbols joined are decoded as symbols one by one.                       *)
LEMMA DecodeJoined ==
  ASSUME NEW syms \in Seq(String)
  PROVE  PieceToBytes(FlattenSeq(syms)) = Decode(syms) /\ FlattenSeq(syms) \in String
<1> DEFINE self == [p \in String |-> p]
<1>1. Maps(self, String, Nat)
  BY DEF Maps, String
<1>2. Map(self, syms) = syms
  <2>1. \A i \in DOMAIN syms : syms[i] \in String
    BY LenProperties, ElementOfSeq
  <2>2. Map(self, syms) = [i \in DOMAIN syms |-> syms[i]]
    BY <2>1 DEF Map
  <2>3. syms = [i \in DOMAIN syms |-> syms[i]]
    BY LenProperties
  <2>4. QED
    BY <2>2, <2>3
<1>3. \A p \in String : DecodeOf[p] = FlatMap(PieceOf, self[p])
  BY PiecesAreMapped DEF DecodeOf
<1> HIDE DEF self
<1>4. FlatMap(PieceOf, FlatMap(self, syms)) = FlatMap(DecodeOf, syms)
  BY <1>1, <1>3, MapTypes, DecodeIsMapped, FlatMapTwice
<1>5. FlatMap(self, syms) = FlattenSeq(syms)
  BY <1>2 DEF FlatMap
<1>6. FlattenSeq(syms) \in String
  BY FlattenSeqType DEF String
<1>7. QED
  BY <1>4, <1>5, <1>6, PiecesAreMapped, DecodeIsMapped

(* A word in symbols is decoded to its bytes.                              *)
LEMMA SymbolsOfWord ==
  ASSUME NEW w \in Seq(Code)
  PROVE  /\ ByteSymbols(w) \in Seq(String)
         /\ PieceToBytes(FlattenSeq(ByteSymbols(w))) = Bytes(w)
<1> DEFINE g == [b \in Octet |-> <<ByteToChar[b]>>]
           h == [b \in Octet |-> <<b>>]
<1>1. PICK bytes \in Seq(Octet) : bytes = Bytes(w)
  BY BytesAreMapped
<1>2. Maps(g, Octet, Nat) /\ Maps(h, Octet, Octet)
  BY ByteToCharInjective DEF Maps
<1>3. ASSUME NEW b \in Octet  PROVE h[b] = FlatMap(PieceOf, g[b])
  <2>1. ByteToChar[b] \in Nat
    BY ByteToCharInjective
  <2>2. FlatMap(PieceOf, <<ByteToChar[b]>>) = PieceOf[ByteToChar[b]]
    BY <2>1, MapTypes, FlatMapOne
  <2>3. PieceOf[ByteToChar[b]] = <<b>>
    BY <2>1, CharToByteInverts DEF PieceOf
  <2>4. QED
    BY <2>2, <2>3
<1>4. Map(g, bytes) = ByteSymbols(w)
  <2>1. \A i \in DOMAIN bytes : bytes[i] \in Octet
    BY LenProperties, ElementOfSeq
  <2>2. QED
    BY <1>1, <2>1 DEF Map, ByteSymbols
<1>5. ByteSymbols(w) \in Seq(String)
  <2>1. Map(g, bytes) \in Seq(Seq(Nat))
    BY <1>2, Mapped
  <2>2. QED
    BY <1>4, <2>1 DEF String
<1>6. \A b \in Octet : h[b] = <<b>>
  OBVIOUS
<1> HIDE DEF g, h
<1>7. FlatMap(PieceOf, FlatMap(g, bytes)) = FlatMap(h, bytes)
  BY <1>2, <1>3, MapTypes, FlatMapTwice
<1>8. FlatMap(h, bytes) = bytes
  BY <1>2, <1>6, FlatMapSame
<1>9. FlatMap(g, bytes) = FlattenSeq(ByteSymbols(w))
  BY <1>4 DEF FlatMap
<1>10. FlattenSeq(ByteSymbols(w)) \in String
  BY <1>5, DecodeJoined
<1>11. QED
  BY <1>1, <1>5, <1>7, <1>8, <1>9, <1>10, PiecesAreMapped

(* The characters of a special token stand for themselves.                 *)
LEMMA SpecialBytes ==
  ASSUME NEW t \in Seq(SpecialChar)
  PROVE  PieceToBytes(t) = Bytes(t) /\ t \in String /\ t \in Seq(Code)
<1>1. t \in String /\ t \in Seq(Code)
  <2>1. SpecialChar \subseteq Nat /\ SpecialChar \subseteq Code
    BY DEF SpecialChar, Code
  <2>2. QED
    BY <2>1, SeqMonotonic DEF String
<1>2. ASSUME NEW c \in SpecialChar  PROVE PieceOf[c] = Utf8Of[c]
  <2>1. CharToByte[c] = c /\ c \in DOMAIN CharToByte
    BY ByteToCharInjective, CharToByteInverts
  <2>2. c \in Nat /\ c \in Code /\ c < 128
    BY DEF SpecialChar, Code
  <2>3. PieceOf[c] = <<c>>
    BY <2>1, <2>2 DEF PieceOf
  <2>4. Utf8Of[c] = <<c>>
    BY <2>2 DEF Utf8Of, Utf8
  <2>5. QED
    BY <2>3, <2>4
<1>3. Map(PieceOf, t) = Map(Utf8Of, t)
  <2>1. \A i \in DOMAIN t : t[i] \in SpecialChar
    BY LenProperties, ElementOfSeq
  <2>2. QED
    BY <1>2, <2>1 DEF Map
<1>4. QED
  BY <1>1, <1>3, PiecesAreMapped, BytesAreMapped DEF FlatMap

(* A symbol that is no token is decoded by its characters.                 *)
LEMMA LookupBytes ==
  ASSUME NEW syms \in Seq(String)
  PROVE  LET tokens == FlattenSeq([i \in DOMAIN syms |-> Lookup(syms[i])])
         IN  tokens \in Seq(String) /\ Decode(tokens) = Decode(syms)
<1> DEFINE LookupOf == [p \in String |-> Lookup(p)]
<1>1. ASSUME NEW p \in String
      PROVE  Lookup(p) \in Seq(String) /\ Decode(Lookup(p)) = PieceToBytes(p)
  <2>1. CASE Known(p)
    BY <2>1, DecodeOne DEF Lookup
  <2>2. CASE ~Known(p)
    <3> DEFINE single == [c \in Nat |-> <<c>>]
               chars  == Map(single, p)
    <3>1. Maps(single, Nat, Nat) /\ \A c \in Nat : single[c] = <<c>>
      BY DEF Maps
    <3>2. Lookup(p) = chars
      <4>1. \A i \in DOMAIN p : p[i] \in Nat
        BY LenProperties, ElementOfSeq DEF String
      <4>2. QED
        BY <2>2, <4>1 DEF Lookup, Map
    <3> HIDE DEF single
    <3>3. chars \in Seq(String)
      BY <3>1, Mapped DEF String
    <3>4. FlattenSeq(chars) = p
      BY <3>1, FlatMapSame DEF FlatMap, String
    <3> HIDE DEF chars
    <3>5. QED
      BY <3>2, <3>3, <3>4, DecodeJoined
  <2>3. QED
    BY <2>1, <2>2
<1>2. Maps(LookupOf, String, String)
  BY <1>1 DEF Maps
<1>3. \A p \in String : DecodeOf[p] = FlatMap(DecodeOf, LookupOf[p])
  BY <1>1, DecodeIsMapped DEF DecodeOf
<1>4. Map(LookupOf, syms) = [i \in DOMAIN syms |-> Lookup(syms[i])]
  <2>1. \A i \in DOMAIN syms : syms[i] \in String
    BY LenProperties, ElementOfSeq
  <2>2. QED
    BY <2>1 DEF Map
<1> HIDE DEF LookupOf
<1>5. FlatMap(DecodeOf, FlatMap(LookupOf, syms)) = FlatMap(DecodeOf, syms)
  BY <1>2, <1>3, DecodeIsMapped, FlatMapTwice
<1>6. FlatMap(LookupOf, syms) \in Seq(String)
  BY <1>2, FlatMapType
<1>7. FlatMap(LookupOf, syms) = FlattenSeq([i \in DOMAIN syms |-> Lookup(syms[i])])
  BY <1>4 DEF FlatMap
<1>8. QED
  BY <1>5, <1>6, <1>7, DecodeIsMapped

-----------------------------------------------------------------------------
(* Words and pairs.                                                        *)

LEMMA Greatest ==
  ASSUME NEW n \in Nat, NEW A, A \subseteq 0 .. n, A # {}
  PROVE  Max(A) \in A /\ \A a \in A : a <= Max(A)
<1> DEFINE B == {m \in Nat : \E a \in A : m = n - a}
<1>1. B # {} /\ B \subseteq Nat
  <2>1. PICK a \in A : TRUE
    OBVIOUS
  <2>2. n - a \in Nat
    BY <2>1
  <2>3. QED
    BY <2>1, <2>2
<1>2. PICK m \in B : \A k \in B : m <= k
  BY <1>1, LeastNatural
<1>3. PICK x \in A : m = n - x
  BY <1>2
<1>4. ASSUME NEW a \in A  PROVE x >= a
  <2>1. a \in Nat /\ x \in Nat /\ n - a \in Nat
    OBVIOUS
  <2>2. n - a \in B
    BY <2>1
  <2>3. m <= n - a
    BY <1>2, <2>2
  <2>4. QED
    BY <1>3, <2>1, <2>3
<1>5. Max(A) \in A /\ \A a \in A : Max(A) >= a
  BY <1>4 DEF Max
<1>6. ASSUME NEW a \in A  PROVE a <= Max(A)
  <2>1. PICK y \in A : y = Max(A) /\ y >= a
    BY <1>5
  <2>2. a \in Int /\ y \in Int
    OBVIOUS
  <2>3. a <= y
    BY <2>1, <2>2
  <2>4. QED
    BY <2>1, <2>3
<1>7. QED
  BY <1>5, <1>6

LEMMA RunEndType ==
  ASSUME NEW s \in Seq(Code), NEW i \in 1 .. Len(s)
  PROVE  RunEnd(s, i) \in i .. Len(s)
<1> DEFINE A == {j \in i .. Len(s) : \A k \in i .. j : Class(s[k]) = Class(s[i])}
<1>1. Len(s) \in Nat
  BY LenProperties
<1>2. i \in A
  <2>1. \A k \in i .. i : k = i
    OBVIOUS
  <2>2. QED
    BY <1>1, <2>1
<1>3. A \subseteq 0 .. Len(s) /\ A # {} /\ A \subseteq i .. Len(s)
  BY <1>1, <1>2
<1> HIDE DEF A
<1>4. Max(A) \in A
  BY <1>1, <1>3, Greatest
<1>5. QED
  BY <1>3, <1>4 DEF A, RunEnd

LEMMA WordLenType ==
  ASSUME NEW s \in Seq(Code), s # <<>>
  PROVE  WordLen(s) \in 0 .. Len(s)
<1> DEFINE n == Len(s)
           cat_start == IF s[1] = Space THEN 2 ELSE 1
<1>1. n \in Nat \ {0} /\ 1 \in 1 .. n
  BY EmptySeq
<1>2. CASE s[1] = Apostrophe /\ MatchContraction(s) # {}
  <2>1. PICK t \in MatchContraction(s) : WordLen(s) = Len(t)
    BY <1>2 DEF WordLen
  <2>2. t \in Range(Contractions) /\ Len(t) <= Len(s)
    BY <2>1 DEF MatchContraction, IsPrefix
  <2>3. Len(t) \in Nat
    <3>1. PICK k \in DOMAIN Contractions : t = Contractions[k]
      BY <2>2 DEF Range
    <3>2. Contractions \in Seq(Seq(Nat))
      BY DEF Contractions
    <3>3. t \in Seq(Nat)
      BY <3>1, <3>2, ElementOfSeq, LenProperties
    <3>4. QED
      BY <3>3, LenProperties
  <2>4. QED
    BY <1>1, <2>1, <2>2, <2>3
<1>3. CASE /\ ~(s[1] = Apostrophe /\ MatchContraction(s) # {})
           /\ cat_start <= Len(s) /\ Class(s[cat_start]) # "space"
  <2>1. WordLen(s) = RunEnd(s, cat_start)
    BY <1>3 DEF WordLen
  <2>2. cat_start \in 1 .. Len(s)
    BY <1>1, <1>3
  <2> HIDE DEF cat_start
  <2>3. RunEnd(s, cat_start) \in cat_start .. Len(s)
    BY <2>2, RunEndType
  <2>4. QED
    BY <1>1, <2>1, <2>2, <2>3
<1>4. CASE /\ ~(s[1] = Apostrophe /\ MatchContraction(s) # {})
           /\ ~(cat_start <= Len(s) /\ Class(s[cat_start]) # "space")
  <2>1. WordLen(s) = SpaceRun(s)
    BY <1>4 DEF WordLen
  <2>2. PICK j \in 1 .. Len(s) : j = RunEnd(s, 1)
    BY <1>1, RunEndType
  <2>3. SpaceRun(s) = IF j < Len(s) /\ j > 1 THEN j - 1 ELSE j
    BY <2>2 DEF SpaceRun
  <2>4. QED
    BY <1>1, <2>1, <2>2, <2>3
<1>5. QED
  BY <1>2, <1>3, <1>4

(* merge_symbols takes a pair there is.                                    *)
LEMMA BestPairType ==
  ASSUME table \in Tables, NEW s \in Seq(String), Ranked(s) # {}
  PROVE  BestPair(s) \in 1 .. Len(s) - 1
<1> DEFINE rank(i) == Max(Rank(s[i], s[i + 1]))
           better(i, j) == rank(i) < rank(j) \/ (rank(i) = rank(j) /\ i <= j)
<1>0. Len(s) \in Nat
  BY LenProperties
<1>1. ASSUME NEW i \in Ranked(s)  PROVE rank(i) \in Nat
  <2>1. table.merges \in Seq(String \X String)
    BY TablesAssumption
  <2>2. Len(table.merges) \in Nat /\ DOMAIN table.merges = 1 .. Len(table.merges)
    BY <2>1, LenProperties
  <2>3. PICK A : A = Rank(s[i], s[i + 1])
    OBVIOUS
  <2>4. A # {}
    BY <2>3 DEF Ranked
  <2>5. A \subseteq 1 .. Len(table.merges)
    BY <2>2, <2>3 DEF Rank
  <2>6. A \subseteq 0 .. Len(table.merges)
    BY <2>2, <2>5
  <2>7. Max(A) \in A /\ A \subseteq Nat
    <3>1. PICK n \in Nat : n = Len(table.merges)
      BY <2>2
    <3>2. A \subseteq 0 .. n
      BY <2>6, <3>1
    <3>3. Max(A) \in A
      BY <2>4, <3>2, Greatest
    <3>4. A \subseteq Nat
      BY <3>2
    <3>5. QED
      BY <3>3, <3>4
  <2>8. Max(A) \in Nat
    BY <2>7
  <2>9. QED
    BY <2>3, <2>8
<1>2. Ranked(s) \subseteq Nat /\ Ranked(s) \subseteq 1 .. Len(s) - 1
  BY <1>0 DEF Ranked
<1> HIDE DEF rank
<1>3. PICK i \in Ranked(s) : \A j \in Ranked(s) : rank(i) <= rank(j)
  <2> DEFINE R == {n \in Nat : \E i \in Ranked(s) : n = rank(i)}
  <2>1. R # {} /\ R \subseteq Nat
    BY <1>1
  <2>2. PICK n \in R : \A m \in R : n <= m
    BY <2>1, LeastNatural
  <2>3. QED
    BY <1>1, <2>2
<1>4. PICK k \in Ranked(s) : rank(k) = rank(i) /\ \A j \in Ranked(s) : rank(j) = rank(i) => k <= j
  <2> DEFINE R == {n \in Ranked(s) : rank(n) = rank(i)}
  <2>1. R # {} /\ R \subseteq Nat
    BY <1>2
  <2>2. PICK n \in R : \A m \in R : n <= m
    BY <2>1, LeastNatural
  <2>3. QED
    BY <2>2
<1>5. \A j \in Ranked(s) : better(k, j)
  <2>1. ASSUME NEW j \in Ranked(s)  PROVE better(k, j)
    <3>1. rank(k) \in Nat /\ rank(j) \in Nat /\ rank(k) <= rank(j) /\ (rank(j) = rank(k) => k <= j)
      BY <1>1, <1>3, <1>4
    <3>2. QED
      BY <3>1
  <2>2. QED
    BY <2>1
<1>6. BestPair(s) = CHOOSE a \in Ranked(s) : \A j \in Ranked(s) : better(a, j)
  BY DEF BestPair, rank
<1>7. BestPair(s) \in Ranked(s)
  BY <1>5, <1>6
<1>8. QED
  BY <1>2, <1>7

(* A merge leaves what the symbols spell.                                  *)
LEMMA MergeKeepsText ==
  ASSUME NEW s \in Seq(String), NEW i \in 1 .. Len(s) - 1
  PROVE  MergeAt(s, i) \in Seq(String) /\ FlattenSeq(MergeAt(s, i)) = FlattenSeq(s)
<1>0. Len(s) \in Nat
  BY LenProperties
<1>1. PICK x, y : x = s[i] /\ y = s[i + 1]
  OBVIOUS
<1>2. PICK front : front = SubSeq(s, 1, i - 1)
  OBVIOUS
<1>3. PICK back : back = SubSeq(s, i + 2, Len(s))
  OBVIOUS
<1>4. x \in Seq(Nat) /\ y \in Seq(Nat) /\ x \o y \in Seq(Nat)
  <2>1. i \in 1 .. Len(s) /\ i + 1 \in 1 .. Len(s)
    BY <1>0
  <2>2. QED
    BY <1>1, <2>1, ElementOfSeq, ConcatProperties DEF String
<1>5. front \in Seq(Seq(Nat)) /\ back \in Seq(Seq(Nat))
  <2>1. \A k \in 1 .. Len(s) : s[k] \in Seq(Nat)
    BY ElementOfSeq DEF String
  <2>2. 1 \in Int /\ i - 1 \in Int /\ \A k \in 1 .. i - 1 : s[k] \in Seq(Nat)
    BY <1>0, <2>1
  <2>3. i + 2 \in Int /\ Len(s) \in Int /\ \A k \in i + 2 .. Len(s) : s[k] \in Seq(Nat)
    BY <1>0, <2>1
  <2>4. front \in Seq(Seq(Nat))
    BY <1>2, <2>2, SubSeqProperties
  <2>5. back \in Seq(Seq(Nat))
    BY <1>3, <2>3, SubSeqProperties
  <2>6. QED
    BY <2>4, <2>5
<1>6. PICK ex, ey, exy : ex = <<x>> /\ ey = <<y>> /\ exy = <<x \o y>>
  OBVIOUS
<1>7. /\ ex \in Seq(Seq(Nat)) /\ ey \in Seq(Seq(Nat)) /\ exy \in Seq(Seq(Nat))
      /\ FlattenSeq(ex) = x /\ FlattenSeq(ey) = y /\ FlattenSeq(exy) = x \o y
  <2>1. ex \in Seq(Seq(Nat)) /\ ey \in Seq(Seq(Nat)) /\ exy \in Seq(Seq(Nat))
    BY <1>4, <1>6
  <2>2. QED
    BY <1>4, <1>6, <2>1, FlattenOne
<1>8. s = (front \o (ex \o ey)) \o back
  <2>1. SubSeq(s, i, i + 1) = ex \o ey
    <3>1. i \in 1 .. Len(s) /\ i + 1 \in i .. Len(s) /\ i + 1 \in 1 .. Len(s) /\ i + 1 \in i + 1 .. Len(s)
          /\ i + 1 - 1 = i
      BY <1>0
    <3>2. s \in Seq(Seq(Nat))
      BY DEF String
    <3>3. i + 1 \in Int /\ i \in Int /\ \A k \in i .. i + 1 : s[k] \in Seq(Nat)
      BY <3>1, <3>2, ElementOfSeq
    <3>4. PICK z : z = SubSeq(s, i, i + 1)
      OBVIOUS
    <3>5. z \in Seq(Seq(Nat)) /\ Len(z) = 2 /\ z[1] = x /\ z[2] = y
      <4>1. z \in Seq(Seq(Nat)) /\ Len(z) = IF i <= i + 1 THEN i + 1 - i + 1 ELSE 0
        BY <3>3, <3>4, SubSeqProperties
      <4>2. \A k \in 1 .. i + 1 - i + 1 : z[k] = s[i + k - 1]
        BY <3>3, <3>4, SubSeqProperties
      <4>3. z[1] = s[i + 1 - 1] /\ z[2] = s[i + 2 - 1]
        BY <3>1, <4>2
      <4>4. i + 1 - 1 = i /\ i + 2 - 1 = i + 1
        BY <3>1
      <4>5. QED
        BY <1>1, <3>1, <4>1, <4>3, <4>4
    <3>6. ex \o ey \in Seq(Seq(Nat)) /\ Len(ex \o ey) = 2 /\ (ex \o ey)[1] = x /\ (ex \o ey)[2] = y
      <4>1. Len(ex) = 1 /\ Len(ey) = 1 /\ ex[1] = x /\ ey[1] = y
        BY <1>6
      <4>2. PICK z2 : z2 = ex \o ey
        OBVIOUS
      <4>3. /\ z2 \in Seq(Seq(Nat)) /\ Len(z2) = Len(ex) + Len(ey)
            /\ \A k \in 1 .. Len(ex) + Len(ey) :
                 z2[k] = IF k <= Len(ex) THEN ex[k] ELSE ey[k - Len(ex)]
        BY <1>7, <4>2, ConcatProperties, Zenon
      <4>4. Len(z2) = 2 /\ z2[1] = ex[1] /\ z2[2] = ey[1]
        BY <4>1, <4>3
      <4>5. QED
        BY <4>1, <4>2, <4>3, <4>4
    <3>7. \A k \in 1 .. 2 : k = 1 \/ k = 2
      OBVIOUS
    <3>8. z = ex \o ey
      BY <3>5, <3>6, <3>7, SeqEqual
    <3>9. QED
      BY <3>4, <3>8
  <2>2. 1 \in 1 .. Len(s) + 1 /\ i - 1 \in 1 - 1 .. Len(s) /\ i + 1 \in i - 1 .. Len(s)
        /\ i - 1 + 1 = i
    BY <1>0
  <2>3. SubSeq(s, 1, i - 1) \o SubSeq(s, i - 1 + 1, i + 1) = SubSeq(s, 1, i + 1)
    BY <2>2, ConcatAdjacentSubSeq
  <2>4. i + 1 \in 1 - 1 .. Len(s) /\ Len(s) \in i + 1 .. Len(s) /\ i + 1 + 1 = i + 2
    BY <1>0
  <2>5. SubSeq(s, 1, i + 1) \o SubSeq(s, i + 1 + 1, Len(s)) = SubSeq(s, 1, Len(s))
    BY <2>2, <2>4, ConcatAdjacentSubSeq
  <2>6. SubSeq(s, 1, Len(s)) = s
    BY SubSeqFull
  <2>7. QED
    BY <1>2, <1>3, <2>1, <2>2, <2>3, <2>4, <2>5, <2>6
<1>9. MergeAt(s, i) = (front \o exy) \o back
  BY <1>1, <1>2, <1>3, <1>6 DEF MergeAt
<1>10. /\ front \o exy \in Seq(Seq(Nat)) /\ ex \o ey \in Seq(Seq(Nat))
       /\ front \o (ex \o ey) \in Seq(Seq(Nat)) /\ (front \o exy) \o back \in Seq(Seq(Nat))
  BY <1>5, <1>7, ConcatProperties
<1>11. FlattenSeq((front \o exy) \o back) = (FlattenSeq(front) \o (x \o y)) \o FlattenSeq(back)
  <2>1. Joins(Seq(Nat), front, exy, exy) /\ Joins(Seq(Nat), front \o exy, back, back)
    BY <1>5, <1>7, <1>10 DEF Joins
  <2>2. FlattenSeq(front \o exy) = FlattenSeq(front) \o FlattenSeq(exy)
    BY <2>1, FlattenJoin
  <2>3. FlattenSeq((front \o exy) \o back) = FlattenSeq(front \o exy) \o FlattenSeq(back)
    BY <2>1, FlattenJoin
  <2>4. QED
    BY <1>7, <2>2, <2>3
<1>12. FlattenSeq((front \o (ex \o ey)) \o back) = (FlattenSeq(front) \o (x \o y)) \o FlattenSeq(back)
  <2>1. /\ Joins(Seq(Nat), ex, ey, ey) /\ Joins(Seq(Nat), front, ex \o ey, ex \o ey)
        /\ Joins(Seq(Nat), front \o (ex \o ey), back, back)
    BY <1>5, <1>7, <1>10 DEF Joins
  <2>2. FlattenSeq(ex \o ey) = FlattenSeq(ex) \o FlattenSeq(ey)
    BY <2>1, FlattenJoin
  <2>3. FlattenSeq(front \o (ex \o ey)) = FlattenSeq(front) \o FlattenSeq(ex \o ey)
    BY <2>1, FlattenJoin
  <2>4. FlattenSeq((front \o (ex \o ey)) \o back)
          = FlattenSeq(front \o (ex \o ey)) \o FlattenSeq(back)
    BY <2>1, FlattenJoin
  <2>5. QED
    BY <1>7, <2>2, <2>3, <2>4
<1>13. QED
  BY <1>8, <1>9, <1>10, <1>11, <1>12 DEF String

(* What find_next_special finds: a special token that is there, no other   *)
(* before it and no longer one at its place.                               *)
LEMMA NextSpecial ==
  ASSUME table \in Tables, NEW s \in Seq(Code), Found(s) # {}
  PROVE  \E p \in 1 .. Len(s), t \in table.special :
           /\ FindNextSpecial(s) = <<p, t>> /\ At(s, t, p)
           /\ \A u \in table.special : \A q \in 1 .. p :
                At(s, u, q) => q = p /\ Len(u) <= Len(t)
<1> DEFINE least(f) == \A g \in Found(s) : f[1] < g[1] \/ (f[1] = g[1] /\ Len(f[2]) >= Len(g[2]))
<1>0. Len(s) \in Nat
  BY LenProperties
<1>1. ASSUME NEW f \in Found(s)
      PROVE  f[1] \in 1 .. Len(s) /\ f[2] \in table.special /\ At(s, f[2], f[1])
             /\ f = <<f[1], f[2]>> /\ Len(f[2]) \in 0 .. Len(s)
  <2>1. f[1] \in 1 .. Len(s) /\ f[2] \in table.special /\ At(s, f[2], f[1]) /\ f = <<f[1], f[2]>>
    BY DEF Found
  <2>2. f[2] \in Seq(SpecialChar)
    BY <2>1, TablesAssumption
  <2>3. Len(f[2]) \in Nat
    BY <2>2, LenProperties
  <2>4. f[1] + Len(f[2]) - 1 <= Len(s)
    BY <2>1 DEF At
  <2>5. QED
    BY <1>0, <2>1, <2>3, <2>4
<1>2. PICK a \in Found(s) : \A g \in Found(s) : a[1] <= g[1]
  <2> DEFINE P == {n \in Nat : \E f \in Found(s) : n = f[1]}
  <2>0. \A f \in Found(s) : f[1] \in Nat
    BY <1>0, <1>1
  <2>1. P # {} /\ P \subseteq Nat
    BY <2>0
  <2>2. PICK n \in P : \A m \in P : n <= m
    BY <2>1, LeastNatural
  <2>3. PICK f \in Found(s) : n = f[1]
    BY <2>2
  <2>4. \A g \in Found(s) : g[1] \in P
    BY <2>0
  <2>5. QED
    BY <2>2, <2>3, <2>4
<1>3. PICK f \in Found(s) : f[1] = a[1]
                            /\ \A g \in Found(s) : g[1] = a[1] => Len(g[2]) <= Len(f[2])
  <2> DEFINE L == {n \in 0 .. Len(s) : \E g \in Found(s) : g[1] = a[1] /\ n = Len(g[2])}
  <2>1. L # {} /\ L \subseteq 0 .. Len(s)
    BY <1>1
  <2> HIDE DEF L
  <2>2. Max(L) \in L /\ \A n \in L : n <= Max(L)
    BY <1>0, <2>1, Greatest
  <2>3. PICK f \in Found(s) : f[1] = a[1] /\ Max(L) = Len(f[2])
    BY <2>2 DEF L
  <2>4. \A g \in Found(s) : g[1] = a[1] => Len(g[2]) <= Max(L)
    BY <1>1, <2>2 DEF L
  <2>5. QED
    BY <2>3, <2>4
<1>4. least(f)
  <2>1. ASSUME NEW g \in Found(s)
        PROVE  f[1] < g[1] \/ (f[1] = g[1] /\ Len(f[2]) >= Len(g[2]))
    <3>1. /\ f[1] \in Nat /\ g[1] \in Nat /\ f[1] <= g[1]
          /\ Len(f[2]) \in Nat /\ Len(g[2]) \in Nat
          /\ (g[1] = f[1] => Len(g[2]) <= Len(f[2]))
      BY <1>0, <1>1, <1>2, <1>3
    <3>2. QED
      BY <3>1
  <2>2. QED
    BY <2>1
<1>5. PICK h \in Found(s) : h = FindNextSpecial(s) /\ least(h)
  BY <1>4 DEF FindNextSpecial
<1>6. ASSUME NEW u \in table.special, NEW q \in 1 .. h[1], At(s, u, q)
      PROVE  q = h[1] /\ Len(u) <= Len(h[2])
  <2>1. q \in 1 .. Len(s) /\ q \in Nat /\ h[1] \in Nat
    BY <1>0, <1>1
  <2>2. <<q, u>> \in Found(s)
    BY <1>6, <2>1 DEF Found
  <2>3. PICK g \in Found(s) : g = <<q, u>>
    BY <2>2
  <2>4. g[1] = q /\ g[2] = u
    BY <2>3
  <2>5. Len(u) \in Nat /\ Len(h[2]) \in Nat
    BY <1>0, <1>1, <2>4
  <2>6. h[1] < q \/ (h[1] = q /\ Len(h[2]) >= Len(u))
    BY <1>5, <2>4
  <2>7. QED
    BY <2>1, <2>5, <2>6
<1>7. QED
  BY <1>1, <1>5, <1>6

-----------------------------------------------------------------------------
(* The invariant of encode: the types, and that what is returned is all.   *)

TokInv ==
  /\ table \in Tables
  /\ add_bos \in BOOLEAN /\ add_eos \in BOOLEAN /\ done \in BOOLEAN
  /\ text \in Seq(Code) /\ rest \in Seq(Code) /\ span \in Seq(Code)
  /\ words \in Seq(Seq(Code))
  /\ symbols \in Seq(String)
  /\ cut \in Seq(table.special) /\ (cut = <<>> \/ cut = <<cut[1]>>)
  /\ out \in Seq(String)
  /\ done => GapDone /\ cut = <<>> /\ rest = <<>>

LEMMA SubSeqType ==
  ASSUME NEW S, NEW s \in Seq(S), NEW m \in Nat \ {0}, NEW n \in Nat, n <= Len(s)
  PROVE  SubSeq(s, m, n) \in Seq(S)
<1>1. \A i \in m .. n : i \in 1 .. Len(s)
  BY LenProperties
<1>2. \A i \in m .. n : s[i] \in S
  BY <1>1, ElementOfSeq
<1>3. QED
  BY <1>2, SubSeqProperties

LEMMA Specials ==
  ASSUME table \in Tables, NEW t \in table.special
  PROVE  /\ t \in Seq(SpecialChar) /\ t \in Seq(Code) /\ t \in String
         /\ Len(t) \in Nat \ {0}
<1>1. t \in Seq(SpecialChar) /\ t # <<>>
  BY TablesAssumption
<1>2. QED
  BY <1>1, SpecialBytes, EmptySeq

(* Where ScanSpecial finds something, it cuts rest in three.               *)
LEMMA ScanCuts ==
  ASSUME table \in Tables, rest \in Seq(Code), Found(rest) # {}, ScanSpecial
  PROVE  \E p \in 1 .. Len(rest), t \in table.special :
           /\ span' \in Seq(Code) /\ rest' \in Seq(Code) /\ cut' = <<t>>
           /\ rest = (span' \o t) \o rest'
           /\ Len(span') = p - 1
           /\ \A u \in table.special : \A q \in 1 .. p :
                At(rest, u, q) => q = p /\ Len(u) <= Len(t)
<1>1. PICK p \in 1 .. Len(rest), t \in table.special :
        /\ FindNextSpecial(rest) = <<p, t>> /\ At(rest, t, p)
        /\ \A u \in table.special : \A q \in 1 .. p :
             At(rest, u, q) => q = p /\ Len(u) <= Len(t)
  BY NextSpecial
<1>2. PICK n \in Nat : n = Len(rest)
  BY LenProperties
<1>3. PICK l \in Nat \ {0} : l = Len(t)
  BY Specials
<1>4. p + l - 1 <= n /\ SubSeq(rest, p, p + l - 1) = t
  BY <1>1, <1>2, <1>3 DEF At
<1>5. span' = SubSeq(rest, 1, p - 1) /\ cut' = <<t>> /\ rest' = SubSeq(rest, p + l, n)
  BY <1>1, <1>2, <1>3 DEF ScanSpecial
<1>6. /\ 1 \in 1 .. n + 1 /\ p - 1 \in 1 - 1 .. n /\ p + l - 1 \in p - 1 .. n
      /\ p + l - 1 \in 1 - 1 .. n /\ n \in p + l - 1 .. n
      /\ p - 1 + 1 = p /\ p + l - 1 + 1 = p + l /\ p - 1 \in Nat /\ p - 1 <= n
      /\ p + l \in Nat \ {0} /\ 1 \in Nat \ {0}
  BY <1>2, <1>3, <1>4
<1>7. SubSeq(rest, 1, p - 1) \o t = SubSeq(rest, 1, p + l - 1)
  BY <1>2, <1>4, <1>6, ConcatAdjacentSubSeq
<1>8. SubSeq(rest, 1, p + l - 1) \o SubSeq(rest, p + l, n) = SubSeq(rest, 1, n)
  BY <1>2, <1>6, ConcatAdjacentSubSeq
<1>9. rest = (span' \o t) \o rest'
  BY <1>2, <1>5, <1>7, <1>8, SubSeqFull
<1>10. span' \in Seq(Code) /\ rest' \in Seq(Code)
  BY <1>2, <1>5, <1>6, SubSeqType
<1>11. Len(span') = p - 1
  <2>1. \A i \in 1 .. p - 1 : i \in 1 .. Len(rest)
    BY <1>2, <1>6
  <2>2. \A i \in 1 .. p - 1 : rest[i] \in Code
    BY <2>1, ElementOfSeq
  <2>3. Len(SubSeq(rest, 1, p - 1)) = IF 1 <= p - 1 THEN p - 1 - 1 + 1 ELSE 0
    BY <1>6, <2>2, SubSeqProperties
  <2>4. QED
    BY <1>5, <1>6, <2>3
<1>12. QED
  BY <1>1, <1>5, <1>9, <1>10, <1>11

(* Pretokenize cuts the gap in two.                                        *)
LEMMA PretokenizeCuts ==
  ASSUME span \in Seq(Code), words \in Seq(Seq(Code)), Pretokenize
  PROVE  \E w \in Seq(Code) :
           /\ span' \in Seq(Code) /\ span = w \o span'
           /\ words' \in Seq(Seq(Code))
           /\ FlattenSeq(words') = FlattenSeq(words) \o w
<1>1. PICK n \in 0 .. Len(span) : n = WordLen(span)
  BY WordLenType DEF Pretokenize
<1>2. PICK w : w = SubSeq(span, 1, n)
  OBVIOUS
<1>3. /\ words' = IF n > 0 THEN Append(words, w) ELSE words
      /\ span' = SubSeq(span, n + 1, Len(span))
  BY <1>1, <1>2 DEF Pretokenize
<1>4. /\ Len(span) \in Nat /\ n \in Nat /\ 1 \in 1 .. Len(span) + 1 /\ n \in 1 - 1 .. Len(span)
      /\ Len(span) \in n .. Len(span) /\ 1 \in Nat \ {0} /\ n + 1 \in Nat \ {0}
  <2>1. Len(span) \in Nat
    BY LenProperties
  <2>2. QED
    BY <2>1
<1>5. w \in Seq(Code) /\ span' \in Seq(Code)
  BY <1>2, <1>3, <1>4, SubSeqType
<1>6. span = w \o span'
  <2>1. SubSeq(span, 1, n) \o SubSeq(span, n + 1, Len(span)) = SubSeq(span, 1, Len(span))
    BY <1>4, ConcatAdjacentSubSeq
  <2>2. QED
    BY <1>2, <1>3, <2>1, SubSeqFull
<1>7. CASE n > 0
  BY <1>3, <1>5, <1>6, <1>7, AppendProperties, FlattenAppend
<1>8. CASE ~(n > 0)
  <2>1. w = <<>>
    BY <1>2, <1>4, <1>8, SubSeqEmpty
  <2>2. FlattenSeq(words) \o w = FlattenSeq(words)
    BY <2>1, FlattenSeqType, ConcatEmptySeq
  <2>3. QED
    BY <1>3, <1>5, <1>6, <1>8, <2>2
<1>9. QED
  BY <1>7, <1>8

LEMMA HeadAndTail ==
  ASSUME NEW S, NEW F \in Seq(Seq(S)), F # <<>>
  PROVE  /\ Head(F) \in Seq(S) /\ Tail(F) \in Seq(Seq(S))
         /\ FlattenSeq(F) = Head(F) \o FlattenSeq(Tail(F))
<1>1. PICK h \in Seq(S), T \in Seq(Seq(S)) : h = Head(F) /\ T = Tail(F)
  BY HeadTailProperties
<1>2. PICK one : one = <<h>>
  OBVIOUS
<1>3. one \in Seq(Seq(S)) /\ FlattenSeq(one) = h
  BY <1>2, FlattenOne
<1>4. F = one \o T
  <2>1. 1 \in 1 .. Len(F) + 1 /\ 1 \in 1 - 1 .. Len(F) /\ Len(F) \in 1 .. Len(F) /\ 1 \in 1 .. Len(F)
    BY EmptySeq
  <2>2. SubSeq(F, 1, Len(F)) = <<F[1]>> \o SubSeq(F, 1 + 1, Len(F))
    BY <2>1, SubSeqRecursiveFirst
  <2>3. Head(SubSeq(F, 1, Len(F))) = F[1] /\ Tail(SubSeq(F, 1, Len(F))) = SubSeq(F, 1 + 1, Len(F))
    BY <2>1, HeadTailOfSubSeq
  <2>4. SubSeq(F, 1, Len(F)) = F
    BY SubSeqFull
  <2>5. QED
    BY <1>1, <1>2, <2>2, <2>3, <2>4
<1>5. Joins(Seq(S), one, T, T)
  BY <1>1, <1>3 DEF Joins
<1>6. FlattenSeq(one \o T) = FlattenSeq(one) \o FlattenSeq(T)
  BY <1>5, FlattenJoin
<1>7. QED
  BY <1>1, <1>3, <1>4, <1>6

LEMMA TokInvInit == Init => TokInv
<1> SUFFICES ASSUME Init  PROVE TokInv
  OBVIOUS
<1>1. text \in Seq(Code)
  BY TextsAssumption DEF Init
<1>2. out \in Seq(String)
  BY TextsAssumption, EmptySeq DEF Init
<1>3. QED
  BY <1>1, <1>2, EmptySeq DEF Init, TokInv

LEMMA TokInvStep == TokInv /\ [Next]_vars => TokInv'
<1> SUFFICES ASSUME TokInv, [Next]_vars  PROVE TokInv'
  OBVIOUS
<1>0. /\ table \in Tables
      /\ text \in Seq(Code) /\ rest \in Seq(Code) /\ span \in Seq(Code)
      /\ words \in Seq(Seq(Code)) /\ symbols \in Seq(String) /\ out \in Seq(String)
  BY DEF TokInv
<1>1. CASE ScanSpecial
  <2>0. ~done
    BY <1>1 DEF ScanSpecial, TokInv
  <2>1. CASE Found(rest) = {}
    BY <1>0, <1>1, <2>0, <2>1, EmptySeq DEF ScanSpecial, TokInv, tokenizer
  <2>2. CASE Found(rest) # {}
    <3>1. PICK t \in table.special : cut' = <<t>> /\ span' \in Seq(Code) /\ rest' \in Seq(Code)
      BY <1>0, <1>1, <2>2, ScanCuts
    <3>2. cut' \in Seq(table.special) /\ cut' = <<cut'[1]>>
      <4>1. PICK A : A = table.special
        OBVIOUS
      <4>2. t \in A
        BY <3>1, <4>1
      <4>3. <<t>> \in Seq(A) /\ <<t>>[1] = t
        BY <4>2
      <4>4. QED
        BY <3>1, <4>1, <4>3
    <3>3. QED
      BY <1>0, <1>1, <2>0, <3>1, <3>2 DEF ScanSpecial, TokInv, tokenizer
  <2>3. QED
    BY <2>1, <2>2
<1>2. CASE PushSpecial
  <2>0. ~done
    BY <1>2 DEF PushSpecial, TokInv
  <2>1. cut \in Seq(String)
    <3>1. table.special \subseteq String
      BY <1>0, Specials
    <3>2. QED
      BY <3>1, SeqMonotonic DEF TokInv
  <2>2. out' \in Seq(String)
    BY <1>0, <1>2, <2>1, ConcatProperties DEF PushSpecial
  <2>3. QED
    BY <1>2, <2>0, <2>2, EmptySeq DEF PushSpecial, TokInv, tokenizer
<1>3. CASE Pretokenize
  <2>0. ~done
    BY <1>3 DEF Pretokenize, TokInv, GapDone
  <2>1. span' \in Seq(Code) /\ words' \in Seq(Seq(Code))
    BY <1>0, <1>3, PretokenizeCuts
  <2>2. QED
    BY <1>3, <2>0, <2>1 DEF Pretokenize, TokInv, tokenizer
<1>4. CASE BpeEncode
  <2>0. ~done
    BY <1>4 DEF BpeEncode, TokInv, GapDone
  <2>1. Head(words) \in Seq(Code) /\ words' \in Seq(Seq(Code))
    BY <1>0, <1>4, HeadAndTail DEF BpeEncode
  <2>2. symbols' \in Seq(String)
    BY <1>4, <2>1, SymbolsOfWord DEF BpeEncode
  <2>3. QED
    BY <1>4, <2>0, <2>1, <2>2 DEF BpeEncode, TokInv, tokenizer
<1>5. CASE MergeSymbols
  <2>0. ~done
    <3>1. symbols # <<>>
      BY <1>5, EmptySeq DEF MergeSymbols, Ranked
    <3>2. QED
      BY <3>1 DEF TokInv, GapDone
  <2>1. BestPair(symbols) \in 1 .. Len(symbols) - 1
    BY <1>0, <1>5, BestPairType DEF MergeSymbols
  <2>2. symbols' \in Seq(String)
    BY <1>0, <1>5, <2>1, MergeKeepsText DEF MergeSymbols
  <2>3. QED
    BY <1>5, <2>0, <2>2 DEF MergeSymbols, TokInv, tokenizer
<1>6. CASE EmitSymbols
  <2>0. ~done
    BY <1>6 DEF EmitSymbols, TokInv, GapDone
  <2>1. out' \in Seq(String)
    BY <1>0, <1>6, LookupBytes, ConcatProperties DEF EmitSymbols
  <2>2. QED
    BY <1>6, <2>0, <2>1, EmptySeq DEF EmitSymbols, TokInv, tokenizer
<1>7. CASE Return
  <2>1. out' \in Seq(String)
    BY <1>0, <1>7, TextsAssumption, AppendProperties DEF Return
  <2>2. QED
    BY <1>7, <2>1 DEF Return, TokInv, GapDone, tokenizer
<1>8. CASE UNCHANGED vars
  BY <1>8 DEF vars, TokInv, GapDone
<1>9. QED
  BY <1>1, <1>2, <1>3, <1>4, <1>5, <1>6, <1>7, <1>8 DEF Next

PartsTyped ==
  /\ Decode(out) \in Seq(Octet) /\ PieceToBytes(Joined) \in Seq(Octet)
  /\ Bytes(FlattenSeq(words)) \in Seq(Octet) /\ Bytes(span) \in Seq(Octet)
  /\ Bytes(FlattenSeq(cut)) \in Seq(Octet) /\ Bytes(rest) \in Seq(Octet)
  /\ Bytes(text) \in Seq(Octet)
  /\ PieceToBytes(Bos) \in Seq(Octet) /\ PieceToBytes(Eos) \in Seq(Octet)

LEMMA PartsAreBytes == TokInv => PartsTyped
<1> SUFFICES ASSUME TokInv  PROVE PartsTyped
  OBVIOUS
<1>1. Joined \in String /\ FlattenSeq(words) \in Seq(Code)
  BY DecodeJoined, FlattenSeqType DEF TokInv, Joined
<1>2. FlattenSeq(cut) \in Seq(Code)
  <2>1. table.special \subseteq Seq(Code)
    BY Specials DEF TokInv
  <2>2. cut \in Seq(Seq(Code))
    BY <2>1, SeqMonotonic DEF TokInv
  <2>3. QED
    BY <2>2, FlattenSeqType
<1>3. QED
  BY <1>1, <1>2, TextsAssumption, DecodeIsMapped, PiecesAreMapped, BytesAreMapped DEF TokInv, PartsTyped

LEMMA PartsAreBytesNext == TokInv' => PartsTyped'
  BY PartsAreBytes, PTL

(* The bytes spelled by what is pushed, in work and left.                  *)
Spelled(o, s, w, p, c, r) == ((((o \o s) \o w) \o p) \o c) \o r

LEMMA AllIsSpelled ==
  NothingLost <=>
    Spelled(Decode(out), PieceToBytes(Joined), Bytes(FlattenSeq(words)), Bytes(span),
            Bytes(FlattenSeq(cut)), Bytes(rest))
      = ((IF add_bos THEN PieceToBytes(Bos) ELSE <<>>) \o Bytes(text))
          \o (IF done /\ add_eos THEN PieceToBytes(Eos) ELSE <<>>)
  BY DEF NothingLost, Spelled

(* Each step moves bytes from one part to another, in their order.         *)
LEMMA NothingLostStep == TokInv /\ TokInv' /\ NothingLost /\ [Next]_vars => NothingLost'
<1> SUFFICES ASSUME TokInv, TokInv', NothingLost, [Next]_vars  PROVE NothingLost'
  OBVIOUS
<1>1. PICK o, s, w, p, c, r :
        /\ o = Decode(out) /\ s = PieceToBytes(Joined) /\ w = Bytes(FlattenSeq(words))
        /\ p = Bytes(span) /\ c = Bytes(FlattenSeq(cut)) /\ r = Bytes(rest)
  OBVIOUS
<1>2. /\ o \in Seq(Octet) /\ s \in Seq(Octet) /\ w \in Seq(Octet)
      /\ p \in Seq(Octet) /\ c \in Seq(Octet) /\ r \in Seq(Octet)
  BY <1>1, PartsAreBytes DEF PartsTyped
<1>3. PICK o2, s2, w2, p2, c2, r2 :
        /\ o2 = Decode(out') /\ s2 = PieceToBytes(Joined') /\ w2 = Bytes(FlattenSeq(words'))
        /\ p2 = Bytes(span') /\ c2 = Bytes(FlattenSeq(cut')) /\ r2 = Bytes(rest')
  OBVIOUS
<1>4. /\ o2 \in Seq(Octet) /\ s2 \in Seq(Octet) /\ w2 \in Seq(Octet)
      /\ p2 \in Seq(Octet) /\ c2 \in Seq(Octet) /\ r2 \in Seq(Octet)
  BY <1>3, PartsAreBytesNext DEF PartsTyped
<1>5. /\ symbols = <<>> => s = <<>>
      /\ words = <<>> => w = <<>>
      /\ span = <<>> => p = <<>>
      /\ cut = <<>> => c = <<>>
      /\ rest = <<>> => r = <<>>
      /\ symbols' = <<>> => s2 = <<>>
      /\ words' = <<>> => w2 = <<>>
      /\ span' = <<>> => p2 = <<>>
      /\ cut' = <<>> => c2 = <<>>
      /\ rest' = <<>> => r2 = <<>>
  BY <1>1, <1>3, EmptyText, FlattenEmpty DEF Joined
<1>6. /\ out' = out => o2 = o
      /\ symbols' = symbols => s2 = s
      /\ words' = words => w2 = w
      /\ span' = span => p2 = p
      /\ cut' = cut => c2 = c
      /\ rest' = rest => r2 = r
  BY <1>1, <1>3 DEF Joined
<1>7. ASSUME Spelled(o2, s2, w2, p2, c2, r2) = Spelled(o, s, w, p, c, r),
             UNCHANGED <<tokenizer, done>>
      PROVE  NothingLost'
  <2>1. Spelled(o2, s2, w2, p2, c2, r2)
          = ((IF add_bos THEN PieceToBytes(Bos) ELSE <<>>) \o Bytes(text))
              \o (IF done /\ add_eos THEN PieceToBytes(Eos) ELSE <<>>)
    BY <1>1, <1>7, AllIsSpelled
  <2>2. Spelled(Decode(out'), PieceToBytes(Joined'), Bytes(FlattenSeq(words')), Bytes(span'),
                Bytes(FlattenSeq(cut')), Bytes(rest'))
          = ((IF add_bos' THEN PieceToBytes(Bos) ELSE <<>>) \o Bytes(text'))
              \o (IF done' /\ add_eos' THEN PieceToBytes(Eos) ELSE <<>>)
    BY <1>3, <1>7, <2>1 DEF tokenizer
  <2>3. QED
    BY <2>2 DEF NothingLost, Spelled
<1>8. CASE ScanSpecial
  <2>1. s = <<>> /\ w = <<>> /\ p = <<>> /\ c = <<>> /\ s2 = <<>> /\ w2 = <<>> /\ o2 = o
        /\ UNCHANGED <<tokenizer, done>>
    BY <1>5, <1>6, <1>8 DEF ScanSpecial, GapDone
  <2>2. r = (p2 \o c2) \o r2
    <3>1. CASE Found(rest) = {}
      <4>1. p2 = r /\ c2 = <<>> /\ r2 = <<>>
        BY <1>1, <1>3, <1>5, <1>8, <3>1 DEF ScanSpecial
      <4>2. QED
        BY <1>2, <4>1, ConcatEmptySeq
    <3>2. CASE Found(rest) # {}
      <4>1. PICK t \in table.special :
              /\ span' \in Seq(Code) /\ rest' \in Seq(Code) /\ cut' = <<t>>
              /\ rest = (span' \o t) \o rest'
        BY <1>8, <3>2, ScanCuts DEF TokInv
      <4>2. PICK gap, left : gap = span' /\ left = rest'
        OBVIOUS
      <4>3. t \in Seq(Code) /\ FlattenSeq(cut') = t
        BY <4>1, Specials, FlattenOne DEF TokInv
      <4>4. Bytes((gap \o t) \o left) = (Bytes(gap) \o Bytes(t)) \o Bytes(left)
        <5>1. PICK x \in Seq(Code) : x = gap \o t
          BY <4>1, <4>2, <4>3, ConcatProperties
        <5>2. Bytes(x \o left) = Bytes(x) \o Bytes(left)
          BY <4>1, <4>2, <5>1, BytesConcat
        <5>3. Bytes(x) = Bytes(gap) \o Bytes(t)
          BY <4>1, <4>2, <4>3, <5>1, BytesConcat
        <5>4. QED
          BY <5>1, <5>2, <5>3
      <4>5. QED
        BY <1>1, <1>3, <4>1, <4>2, <4>3, <4>4
    <3>3. QED
      BY <3>1, <3>2
  <2>3. Spelled(o, s, w, p, c, r) = o \o r
    BY <1>2, <2>1, ConcatEmptySeq DEF Spelled
  <2>4. Spelled(o2, s2, w2, p2, c2, r2) = ((o \o p2) \o c2) \o r2
    BY <1>2, <2>1, ConcatEmptySeq DEF Spelled
  <2>5. ((o \o p2) \o c2) \o r2 = o \o ((p2 \o c2) \o r2)
    <3>1. JoinsFour(Octet, o, p2, c2, r2)
      BY <1>2, <1>4 DEF Joins, JoinsFour
    <3>2. QED
      BY <3>1, JoinFour, SMTT(30)
  <2>6. QED
    BY <1>7, <2>1, <2>2, <2>3, <2>4, <2>5
<1>9. CASE PushSpecial
  <2>1. s = <<>> /\ w = <<>> /\ p = <<>> /\ s2 = <<>> /\ w2 = <<>> /\ p2 = <<>> /\ c2 = <<>>
        /\ r2 = r /\ UNCHANGED <<tokenizer, done>>
    BY <1>5, <1>6, <1>9 DEF PushSpecial, GapDone
  <2>2. o2 = o \o c
    <3>1. PICK t \in table.special : cut = <<t>>
      BY <1>9, ElementOfSeq, EmptySeq, LenProperties DEF PushSpecial, TokInv
    <3>2. t \in Seq(Code) /\ t \in String /\ PieceToBytes(t) = Bytes(t)
      BY <3>1, Specials, SpecialBytes DEF TokInv
    <3>3. PICK one : one = <<t>>
      OBVIOUS
    <3>4. one \in Seq(String) /\ Decode(one) = PieceToBytes(t) /\ FlattenSeq(one) = t
      BY <3>2, <3>3, DecodeOne, FlattenOne
    <3>5. Decode(out \o one) = Decode(out) \o Decode(one)
      BY <3>4, DecodeConcat DEF TokInv
    <3>6. QED
      BY <1>1, <1>3, <1>9, <3>1, <3>2, <3>3, <3>4, <3>5 DEF PushSpecial
  <2>3. Spelled(o2, s2, w2, p2, c2, r2) = Spelled(o, s, w, p, c, r)
    BY <1>2, <1>4, <2>1, <2>2, ConcatEmptySeq DEF Spelled
  <2>4. QED
    BY <1>7, <2>1, <2>3
<1>10. CASE Pretokenize
  <2>1. o2 = o /\ s2 = s /\ c2 = c /\ r2 = r /\ UNCHANGED <<tokenizer, done>>
    BY <1>6, <1>10 DEF Pretokenize
  <2>2. PICK word \in Seq(Code) :
          /\ span' \in Seq(Code) /\ span = word \o span'
          /\ FlattenSeq(words') = FlattenSeq(words) \o word
    BY <1>10, PretokenizeCuts DEF TokInv
  <2>3. PICK b \in Seq(Octet) : b = Bytes(word)
    BY <2>2, BytesAreMapped
  <2>4. p = b \o p2 /\ w2 = w \o b
    <3>1. PICK gap, all : gap = span' /\ all = FlattenSeq(words)
      OBVIOUS
    <3>2. gap \in Seq(Code) /\ all \in Seq(Code)
      BY <2>2, <3>1, FlattenSeqType DEF TokInv
    <3>3. Bytes(word \o gap) = b \o Bytes(gap)
      BY <2>2, <2>3, <3>2, BytesConcat
    <3>4. Bytes(all \o word) = Bytes(all) \o b
      BY <2>2, <2>3, <3>2, BytesConcat
    <3>5. QED
      BY <1>1, <1>3, <2>2, <3>1, <3>3, <3>4
  <2>5. PICK x \in Seq(Octet) : x = o \o s
    BY <1>2, ConcatProperties
  <2>6. (x \o (w \o b)) \o p2 = (x \o w) \o (b \o p2)
    <3>1. JoinsFour(Octet, x, w, b, p2)
      BY <1>2, <1>4, <2>3, <2>5 DEF Joins, JoinsFour
    <3>2. QED
      BY <3>1, JoinFour, SMTT(30)
  <2>7. QED
    BY <1>7, <2>1, <2>4, <2>5, <2>6 DEF Spelled
<1>11. CASE BpeEncode
  <2>1. o2 = o /\ s = <<>> /\ p = <<>> /\ p2 = <<>> /\ c2 = c /\ r2 = r
        /\ UNCHANGED <<tokenizer, done>>
    BY <1>5, <1>6, <1>11 DEF BpeEncode
  <2>2. w = s2 \o w2
    <3>1. PICK h, t : h = Head(words) /\ t = Tail(words)
      OBVIOUS
    <3>2. h \in Seq(Code) /\ t \in Seq(Seq(Code)) /\ FlattenSeq(words) = h \o FlattenSeq(t)
      BY <1>11, <3>1, HeadAndTail DEF BpeEncode, TokInv
    <3>3. FlattenSeq(t) \in Seq(Code)
      BY <3>2, FlattenSeqType
    <3>4. Bytes(FlattenSeq(words)) = Bytes(h) \o Bytes(FlattenSeq(t))
      BY <3>2, <3>3, BytesConcat
    <3>5. s2 = Bytes(h)
      BY <1>3, <1>11, <3>1, <3>2, SymbolsOfWord DEF BpeEncode, Joined
    <3>6. QED
      BY <1>1, <1>3, <1>11, <3>1, <3>4, <3>5 DEF BpeEncode
  <2>3. (o \o s) \o w = (o \o s2) \o w2
    <3>1. o \o <<>> = o
      BY <1>2, ConcatEmptySeq
    <3>2. Joins(Octet, o, s2, w2)
      BY <1>2, <1>4 DEF Joins
    <3>3. (o \o s2) \o w2 = o \o (s2 \o w2)
      BY <3>2, Join
    <3>4. QED
      BY <2>1, <2>2, <3>1, <3>3
  <2>4. QED
    BY <1>7, <2>1, <2>3 DEF Spelled
<1>12. CASE MergeSymbols
  <2>1. o2 = o /\ w2 = w /\ p2 = p /\ c2 = c /\ r2 = r /\ UNCHANGED <<tokenizer, done>>
    BY <1>6, <1>12 DEF MergeSymbols
  <2>2. BestPair(symbols) \in 1 .. Len(symbols) - 1
    BY <1>12, BestPairType DEF MergeSymbols, TokInv
  <2>3. FlattenSeq(symbols') = FlattenSeq(symbols)
    BY <1>12, <2>2, MergeKeepsText DEF MergeSymbols, TokInv
  <2>4. s2 = s
    BY <1>1, <1>3, <2>3 DEF Joined
  <2>5. QED
    BY <1>7, <2>1, <2>4
<1>13. CASE EmitSymbols
  <2>1. w2 = w /\ p2 = p /\ c2 = c /\ r2 = r /\ s2 = <<>> /\ UNCHANGED <<tokenizer, done>>
    BY <1>5, <1>6, <1>13 DEF EmitSymbols
  <2>2. o2 = o \o s
    <3>1. PICK tokens : tokens = FlattenSeq([i \in DOMAIN symbols |-> Lookup(symbols[i])])
      OBVIOUS
    <3>2. tokens \in Seq(String) /\ Decode(tokens) = Decode(symbols)
      BY <3>1, LookupBytes DEF TokInv
    <3>3. Decode(out \o tokens) = Decode(out) \o Decode(tokens)
      BY <3>2, DecodeConcat DEF TokInv
    <3>4. PieceToBytes(Joined) = Decode(symbols)
      BY DecodeJoined DEF TokInv, Joined
    <3>5. QED
      BY <1>1, <1>3, <1>13, <3>1, <3>2, <3>3, <3>4 DEF EmitSymbols
  <2>3. o2 \o s2 = o \o s
    BY <1>4, <2>1, <2>2, ConcatEmptySeq
  <2>4. QED
    BY <1>7, <2>1, <2>3 DEF Spelled
<1>14. CASE Return
  <2>1. /\ s = <<>> /\ w = <<>> /\ p = <<>> /\ c = <<>> /\ r = <<>>
        /\ s2 = <<>> /\ w2 = <<>> /\ p2 = <<>> /\ c2 = <<>> /\ r2 = <<>>
        /\ ~done /\ done' /\ UNCHANGED tokenizer
    BY <1>5, <1>6, <1>14 DEF Return, GapDone
  <2>2. PICK b \in Seq(Octet), e \in Seq(Octet), t \in Seq(Octet) :
          /\ b = (IF add_bos THEN PieceToBytes(Bos) ELSE <<>>)
          /\ e = (IF add_eos THEN PieceToBytes(Eos) ELSE <<>>)
          /\ t = Bytes(text)
    BY PartsAreBytes, EmptySeq DEF PartsTyped
  <2>3. o = b \o t
    <3>1. Spelled(o, s, w, p, c, r) = o
      BY <1>2, <2>1, ConcatEmptySeq DEF Spelled
    <3>2. (b \o t) \o <<>> = b \o t
      BY <2>2, ConcatProperties, ConcatEmptySeq
    <3>3. QED
      BY <1>1, <2>1, <2>2, <3>1, <3>2, AllIsSpelled
  <2>4. o2 = o \o e
    <3>1. CASE add_eos
      <4>1. PICK one : one = <<Eos>>
        OBVIOUS
      <4>2. one \in Seq(String) /\ Decode(one) = e
        BY <2>2, <3>1, <4>1, TextsAssumption, DecodeOne
      <4>3. out' = out \o one
        BY <1>14, <3>1, <4>1, TextsAssumption, AppendIsConcat DEF Return, TokInv
      <4>4. Decode(out \o one) = Decode(out) \o Decode(one)
        BY <4>2, DecodeConcat DEF TokInv
      <4>5. QED
        BY <1>1, <1>3, <4>2, <4>3, <4>4
    <3>2. CASE ~add_eos
      <4>1. o2 = o /\ e = <<>>
        BY <1>6, <1>14, <2>2, <3>2 DEF Return
      <4>2. QED
        BY <1>2, <4>1, ConcatEmptySeq
    <3>3. QED
      BY <3>1, <3>2
  <2>5. Spelled(o2, s2, w2, p2, c2, r2) = o2
    BY <1>4, <2>1, ConcatEmptySeq DEF Spelled
  <2>6. Spelled(Decode(out'), PieceToBytes(Joined'), Bytes(FlattenSeq(words')), Bytes(span'),
                Bytes(FlattenSeq(cut')), Bytes(rest'))
          = ((IF add_bos' THEN PieceToBytes(Bos) ELSE <<>>) \o Bytes(text'))
              \o (IF done' /\ add_eos' THEN PieceToBytes(Eos) ELSE <<>>)
    BY <1>3, <2>1, <2>2, <2>3, <2>4, <2>5 DEF tokenizer
  <2>7. QED
    BY <2>6 DEF NothingLost, Spelled
<1>15. CASE UNCHANGED vars
  <2>1. o2 = o /\ s2 = s /\ w2 = w /\ p2 = p /\ c2 = c /\ r2 = r
        /\ UNCHANGED <<tokenizer, done>>
    BY <1>6, <1>15 DEF vars, tokenizer
  <2>2. QED
    BY <1>7, <2>1
<1>16. QED
  BY <1>8, <1>9, <1>10, <1>11, <1>12, <1>13, <1>14, <1>15 DEF Next

(* What encode pushed, what it works on and what is left spell its input   *)
(* byte by byte, whatever the tables say: the merges and the lookup move   *)
(* bytes and never change them, and every byte has a character.            *)
THEOREM EncodeKeepsTheText == Spec => []NothingLost
<1>1. Init => NothingLost
  <2> SUFFICES ASSUME Init  PROVE NothingLost
    OBVIOUS
  <2>1. TokInv
    BY TokInvInit
  <2>2. PICK b \in Seq(Octet), t \in Seq(Octet) :
          /\ b = (IF add_bos THEN PieceToBytes(Bos) ELSE <<>>) /\ t = Bytes(text)
    BY <2>1, PartsAreBytes, EmptySeq DEF PartsTyped
  <2>3. Decode(out) = b
    BY <2>2, TextsAssumption, DecodeOne, EmptyText DEF Init
  <2>4. /\ PieceToBytes(Joined) = <<>> /\ Bytes(FlattenSeq(words)) = <<>> /\ Bytes(span) = <<>>
        /\ Bytes(FlattenSeq(cut)) = <<>> /\ Bytes(rest) = t /\ ~done
    BY <2>2, EmptyText, FlattenEmpty DEF Init, Joined
  <2>5. (b \o t) \o <<>> = b \o t
    BY <2>2, ConcatProperties, ConcatEmptySeq
  <2>6. Spelled(Decode(out), PieceToBytes(Joined), Bytes(FlattenSeq(words)), Bytes(span),
                Bytes(FlattenSeq(cut)), Bytes(rest)) = b \o t
    BY <2>2, <2>3, <2>4, ConcatEmptySeq DEF Spelled
  <2>7. QED
    BY <2>2, <2>4, <2>5, <2>6, AllIsSpelled
<1>2. QED
  BY <1>1, TokInvInit, TokInvStep, NothingLostStep, PTL DEF Spec

(* SpecialsAreWhole behind its test that there is a gap.                   *)
Whole(specials, s, c, r) ==
  \A t \in specials : \A p \in 1 .. Len(s) + 1 :
    (p <= Len(s) \/ c # <<>>) /\ At(s \o FlattenSeq(c) \o r, t, p)
      => p = Len(s) + 1 /\ Len(t) <= Len(c[1])

LEMMA WholeIsWhole ==
  SpecialsAreWhole <=> GapDone \/ Whole(table.special, span, cut, rest)
  BY DEF SpecialsAreWhole, Whole

(* A special token that occurs behind w occurs in the whole, further on.   *)
LEMMA AtBehind ==
  ASSUME NEW w \in Seq(Code), NEW s \in Seq(Code), NEW t \in Seq(Code),
         Len(t) \in Nat \ {0}, NEW p \in Nat \ {0}, At(s, t, p)
  PROVE  At(w \o s, t, p + Len(w))
<1>1. PICK n \in Nat, m \in Nat, l \in Nat \ {0} : n = Len(w) /\ m = Len(s) /\ l = Len(t)
  BY LenProperties
<1>2. p + l - 1 <= m /\ SubSeq(s, p, p + l - 1) = t
  BY <1>1 DEF At
<1>3. Len(w \o s) = n + m
  BY <1>1, ConcatProperties
<1>4. /\ p + n \in n + 1 .. n + m /\ p + n + l - 1 \in n + 1 .. n + m
      /\ p + n - n = p /\ p + n + l - 1 - n = p + l - 1 /\ p + n + l - 1 <= n + m
  BY <1>1, <1>2
<1>5. SubSeq(w \o s, p + n, p + n + l - 1) = SubSeq(s, p + n - n, p + n + l - 1 - n)
  BY <1>1, <1>4, SubSeqOfConcat2
<1>6. QED
  BY <1>1, <1>2, <1>3, <1>4, <1>5 DEF At

LEMMA CutType ==
  ASSUME TokInv
  PROVE  FlattenSeq(cut) \in Seq(Code)
<1>1. table.special \subseteq Seq(Code)
  BY Specials DEF TokInv
<1>2. cut \in Seq(Seq(Code))
  BY <1>1, SeqMonotonic DEF TokInv
<1>3. QED
  BY <1>2, FlattenSeqType

LEMMA WholeStep ==
  TokInv /\ SpecialsAreWhole /\ [Next]_vars => SpecialsAreWhole'
<1> SUFFICES ASSUME TokInv, SpecialsAreWhole, [Next]_vars  PROVE SpecialsAreWhole'
  OBVIOUS
<1>0. /\ table \in Tables /\ rest \in Seq(Code) /\ span \in Seq(Code)
      /\ words \in Seq(Seq(Code))
  BY DEF TokInv
<1>1. SpecialsAreWhole' <=> GapDone' \/ Whole(table'.special, span', cut', rest')
  BY DEF SpecialsAreWhole, Whole, At, GapDone
<1>2. CASE ScanSpecial
  <2>1. table' = table
    BY <1>2 DEF ScanSpecial, tokenizer
  <2>2. CASE Found(rest) = {}
    <3>1. span' = rest /\ cut' = <<>> /\ rest' = <<>>
      BY <1>2, <2>2 DEF ScanSpecial
    <3>2. rest \o FlattenSeq(<<>>) \o <<>> = rest
      BY <1>0, FlattenEmpty, ConcatEmptySeq
    <3>3. ASSUME NEW t \in table.special, NEW p \in 1 .. Len(rest), At(rest, t, p)
          PROVE  FALSE
      <4>1. <<p, t>> \in Found(rest)
        BY <3>3 DEF Found
      <4>2. QED
        BY <2>2, <4>1
    <3>4. \A p \in 1 .. Len(rest) + 1 : p <= Len(rest) => p \in 1 .. Len(rest)
      BY <1>0, LenProperties
    <3>5. Whole(table.special, rest, <<>>, <<>>)
      BY <3>2, <3>3, <3>4 DEF Whole
    <3>6. QED
      BY <1>1, <2>1, <3>1, <3>5
  <2>3. CASE Found(rest) # {}
    <3>1. PICK p \in 1 .. Len(rest), t \in table.special :
            /\ span' \in Seq(Code) /\ rest' \in Seq(Code) /\ cut' = <<t>>
            /\ rest = (span' \o t) \o rest'
            /\ Len(span') = p - 1
            /\ \A u \in table.special : \A q \in 1 .. p :
                 At(rest, u, q) => q = p /\ Len(u) <= Len(t)
      BY <1>0, <1>2, <2>3, ScanCuts
    <3>2. p \in Nat /\ p - 1 + 1 = p
      BY <1>0, LenProperties
    <3>3. FlattenSeq(<<t>>) = t
      BY <1>0, Specials, FlattenOne
    <3>4. span' \o FlattenSeq(<<t>>) \o rest' = rest /\ <<t>>[1] = t /\ Len(span') + 1 = p
      BY <3>1, <3>2, <3>3
    <3>5. Whole(table.special, span', <<t>>, rest')
      BY <3>1, <3>4 DEF Whole
    <3>6. QED
      BY <1>1, <2>1, <3>1, <3>5
  <2>4. QED
    BY <2>2, <2>3
<1>3. CASE Pretokenize
  <2>1. PICK w \in Seq(Code) : span' \in Seq(Code) /\ span = w \o span'
    BY <1>0, <1>3, PretokenizeCuts
  <2>2. PICK gap, c, left, C : gap = span' /\ c = cut /\ left = rest /\ C = FlattenSeq(c)
    OBVIOUS
  <2>3. table' = table /\ cut' = c /\ rest' = left /\ ~GapDone
    BY <1>3, <2>2 DEF Pretokenize, tokenizer, GapDone
  <2>4. gap \in Seq(Code) /\ left \in Seq(Code) /\ C \in Seq(Code)
    BY <1>0, <2>1, <2>2, CutType
  <2>5. PICK n \in Nat, m \in Nat : n = Len(w) /\ m = Len(gap)
    BY <2>4, LenProperties
  <2>6. Len(span) = n + m
    BY <2>1, <2>2, <2>4, <2>5, ConcatProperties
  <2>7. PICK ahead \in Seq(Code) : ahead = (gap \o C) \o left
    BY <2>4, ConcatProperties
  <2>8. (span \o C) \o left = w \o ahead
    <3>1. JoinsFour(Code, w, gap, C, left)
      BY <2>4 DEF Joins, JoinsFour
    <3>2. ((w \o gap) \o C) \o left = w \o ((gap \o C) \o left)
      BY <3>1, JoinFour, SMTT(30)
    <3>3. QED
      BY <2>1, <2>2, <2>7, <3>2
  <2>9. Whole(table.special, span, c, left)
    BY <2>2, <2>3, WholeIsWhole
  <2>10. ASSUME NEW t \in table.special, NEW p \in 1 .. m + 1,
               p <= m \/ c # <<>>, At(ahead, t, p)
        PROVE  p = m + 1 /\ Len(t) <= Len(c[1])
    <3>1. t \in Seq(Code) /\ Len(t) \in Nat \ {0}
      BY <1>0, Specials
    <3>2. p \in Nat \ {0} /\ p + n \in 1 .. n + m + 1 /\ (p <= m => p + n <= n + m)
      BY <2>5
    <3>3. At(w \o ahead, t, p + n)
      BY <2>5, <2>10, <3>1, <3>2, AtBehind
    <3>4. p + n = n + m + 1 /\ Len(t) <= Len(c[1])
      BY <2>2, <2>6, <2>8, <2>9, <2>10, <3>2, <3>3 DEF Whole
    <3>5. QED
      BY <3>2, <3>4
  <2>11. Whole(table.special, gap, c, left)
    BY <2>2, <2>5, <2>7, <2>10 DEF Whole
  <2>12. QED
    BY <1>1, <2>2, <2>3, <2>11
<1>4. CASE GapDone /\ GapDone'
  BY <1>1, <1>4
<1>5. CASE ~GapDone /\ UNCHANGED <<table, span, cut, rest>>
  BY <1>1, <1>5, WholeIsWhole
<1>6. CASE GapDone /\ UNCHANGED <<span, words, symbols>>
  BY <1>1, <1>6 DEF GapDone
<1>7. CASE PushSpecial \/ Return
  BY <1>6, <1>7 DEF PushSpecial, Return
<1>8. CASE BpeEncode \/ EmitSymbols
  BY <1>5, <1>8 DEF BpeEncode, EmitSymbols, GapDone, tokenizer
<1>9. CASE MergeSymbols
  <2>1. symbols # <<>>
    BY <1>9, EmptySeq DEF MergeSymbols, Ranked
  <2>2. QED
    BY <1>5, <1>9, <2>1 DEF MergeSymbols, GapDone, tokenizer
<1>10. CASE UNCHANGED vars
  BY <1>5, <1>6, <1>10 DEF vars
<1>11. QED
  BY <1>2, <1>3, <1>7, <1>8, <1>9, <1>10 DEF Next

(* The gap never holds a place where a special token begins, and the one   *)
(* cut behind it is the longest there: words cannot split a special token, *)
(* however the tokens overlap.                                             *)
THEOREM SpecialsStayWhole == Spec => []SpecialsAreWhole
<1>1. Init => SpecialsAreWhole
  BY DEF Init, SpecialsAreWhole, GapDone
<1>2. QED
  BY <1>1, TokInvInit, TokInvStep, WholeStep, PTL DEF Spec

-----------------------------------------------------------------------------
(* Characters.                                                             *)

Char == Seq(Byte \cup {"U+FFFD"})
Pieces(s) == [i \in DOMAIN s |-> Piece(s, i)]

LEMMA Widths ==
  /\ \A b \in Byte : Width(b) \in 0 .. 3
  /\ Width("cont") = 0
  BY DEF Width, Byte

(* Everything that is asked of a byte is asked of it and what is before it,*)
(* or of it and what it leads.                                             *)
LEMMA ContinuesBefore ==
  ASSUME NEW s \in Seq(Byte), NEW t \in Seq(Byte),
         NEW j \in 1 .. Len(s), NEW i \in 1 .. j - 1
  PROVE  Continues(s \o t, i, j) <=> Continues(s, i, j)
<1>1. Len(s) \in Nat /\ Len(t) \in Nat
  BY LenProperties
<1>2. \A k \in 1 .. Len(s) : (s \o t)[k] = s[k]
  BY <1>1, ConcatProperties
<1>3. i \in 1 .. Len(s) /\ \A k \in i + 1 .. j : k \in 1 .. Len(s)
  BY <1>1
<1>4. QED
  BY <1>2, <1>3 DEF Continues

LEMMA ContinuesAfter ==
  ASSUME NEW s \in Seq(Byte), NEW t \in Seq(Byte),
         NEW j \in 1 .. Len(t), NEW i \in 1 .. j - 1
  PROVE  Continues(s \o t, Len(s) + i, Len(s) + j) <=> Continues(t, i, j)
<1>1. Len(s) \in Nat /\ Len(t) \in Nat
  BY LenProperties
<1>2. \A k \in 1 .. Len(t) : (s \o t)[Len(s) + k] = t[k]
  <2>1. ASSUME NEW k \in 1 .. Len(t)  PROVE (s \o t)[Len(s) + k] = t[k]
    <3>1. Len(s) + k \in 1 .. Len(s) + Len(t) /\ ~(Len(s) + k <= Len(s)) /\ Len(s) + k - Len(s) = k
      BY <1>1
    <3>2. QED
      BY <3>1, ConcatProperties
  <2>2. QED
    BY <2>1
<1>3. i \in 1 .. Len(t) /\ t[i] \in Byte /\ Width(t[i]) \in 0 .. 3
  BY <1>1, Widths, ElementOfSeq
<1>4. (\A k \in Len(s) + i + 1 .. Len(s) + j : (s \o t)[k] = "cont")
        <=> \A k \in i + 1 .. j : t[k] = "cont"
  <2>1. ASSUME \A k \in Len(s) + i + 1 .. Len(s) + j : (s \o t)[k] = "cont",
               NEW k \in i + 1 .. j
        PROVE  t[k] = "cont"
    <3>1. k \in 1 .. Len(t) /\ Len(s) + k \in Len(s) + i + 1 .. Len(s) + j
      BY <1>1
    <3>2. QED
      BY <1>2, <2>1, <3>1
  <2>2. ASSUME \A k \in i + 1 .. j : t[k] = "cont",
               NEW k \in Len(s) + i + 1 .. Len(s) + j
        PROVE  (s \o t)[k] = "cont"
    <3>1. k - Len(s) \in 1 .. Len(t) /\ k - Len(s) \in i + 1 .. j /\ Len(s) + (k - Len(s)) = k
      BY <1>1
    <3>2. (s \o t)[Len(s) + (k - Len(s))] = t[k - Len(s)]
      BY <1>2, <3>1
    <3>3. QED
      BY <2>2, <3>1, <3>2
  <2>3. QED
    BY <2>1, <2>2
<1>5. (s \o t)[Len(s) + i] = t[i]
  BY <1>2, <1>3
<1>6. (Len(s) + i < Len(s) + j /\ Len(s) + j < Len(s) + i + Width(t[i]))
        <=> (i < j /\ j < i + Width(t[i]))
  BY <1>1, <1>3
<1>7. QED
  BY <1>4, <1>5, <1>6 DEF Continues

(* A lead is never inside a character.                                     *)
LEMMA LeadStarts ==
  ASSUME NEW s \in Seq(Byte), NEW i \in 1 .. Len(s), Width(s[i]) > 0
  PROVE  Starts(s, i)
<1>1. ASSUME NEW j \in 1 .. i - 1, Continues(s, j, i)  PROVE FALSE
  <2>1. i \in j + 1 .. i
    BY LenProperties
  <2>2. s[i] = "cont"
    BY <1>1, <2>1 DEF Continues
  <2>3. QED
    BY <2>2, Widths
<1>2. QED
  BY <1>1 DEF Starts

(* In a valid text no character reaches over the end.                      *)
LEMMA ValidEnds ==
  ASSUME NEW s \in Seq(Byte), Valid(s), NEW i \in 1 .. Len(s)
  PROVE  i + Width(s[i]) <= Len(s) + 1
<1>1. Len(s) \in Nat /\ DOMAIN s = 1 .. Len(s) /\ s[i] \in Byte /\ Width(s[i]) \in 0 .. 3
  BY LenProperties, ElementOfSeq, Widths
<1>2. CASE Width(s[i]) = 0
  BY <1>1, <1>2
<1>3. CASE Width(s[i]) > 0
  <2>1. Complete(s, i)
    BY <1>1, <1>3, LeadStarts DEF Valid
  <2>2. i + Width(s[i]) - 1 <= Len(s)
    BY <2>1 DEF Complete
  <2>3. QED
    BY <1>1, <2>2
<1>4. QED
  BY <1>1, <1>2, <1>3

LEMMA StartsBefore ==
  ASSUME NEW s \in Seq(Byte), NEW t \in Seq(Byte), NEW j \in 1 .. Len(s)
  PROVE  Starts(s \o t, j) <=> Starts(s, j)
  BY ContinuesBefore DEF Starts

LEMMA StartsAfter ==
  ASSUME NEW s \in Seq(Byte), NEW t \in Seq(Byte), Valid(s), NEW j \in 1 .. Len(t)
  PROVE  Starts(s \o t, Len(s) + j) <=> Starts(t, j)
<1>0. Len(s) \in Nat /\ Len(t) \in Nat
  BY LenProperties
<1>1. ASSUME Starts(s \o t, Len(s) + j), NEW i \in 1 .. j - 1
      PROVE  ~Continues(t, i, j)
  <2>1. Len(s) + i \in 1 .. Len(s) + j - 1
    BY <1>0
  <2>2. QED
    BY <1>1, <2>1, ContinuesAfter DEF Starts
<1>2. ASSUME Starts(t, j), NEW i \in 1 .. Len(s) + j - 1
      PROVE  ~Continues(s \o t, i, Len(s) + j)
  <2>1. CASE i <= Len(s)
    <3>1. i \in 1 .. Len(s)
      BY <1>0, <2>1
    <3>2. (s \o t)[i] = s[i] /\ s[i] \in Byte /\ Width(s[i]) \in 0 .. 3
      BY <1>0, <3>1, ConcatProperties, ElementOfSeq, Widths
    <3>3. i + Width(s[i]) <= Len(s) + 1
      BY <3>1, ValidEnds
    <3>4. ~(Len(s) + j < i + Width((s \o t)[i]))
      BY <1>0, <3>2, <3>3
    <3>5. QED
      BY <3>4 DEF Continues
  <2>2. CASE i > Len(s)
    <3>1. i - Len(s) \in 1 .. j - 1 /\ Len(s) + (i - Len(s)) = i
      BY <1>0, <2>2
    <3>2. ~Continues(t, i - Len(s), j)
      BY <1>2, <3>1 DEF Starts
    <3>3. ~Continues(s \o t, Len(s) + (i - Len(s)), Len(s) + j)
      BY <3>1, <3>2, ContinuesAfter
    <3>4. QED
      BY <3>1, <3>3
  <2>3. QED
    BY <1>0, <2>1, <2>2
<1>3. QED
  BY <1>1, <1>2 DEF Starts

LEMMA CompleteBefore ==
  ASSUME NEW s \in Seq(Byte), NEW t \in Seq(Byte), NEW i \in 1 .. Len(s), Complete(s, i)
  PROVE  /\ Complete(s \o t, i)
         /\ Width((s \o t)[i]) = Width(s[i]) /\ i + Width(s[i]) - 1 \in i .. Len(s)
<1>1. Len(s) \in Nat /\ Len(t) \in Nat /\ Len(s \o t) = Len(s) + Len(t)
      /\ \A k \in 1 .. Len(s) : (s \o t)[k] = s[k]
  BY LenProperties, ConcatProperties
<1>2. s[i] \in Byte /\ Width(s[i]) \in 0 .. 3
  BY ElementOfSeq, Widths
<1>3. i + Width(s[i]) - 1 >= i /\ i + Width(s[i]) - 1 <= Len(s)
      /\ \A j \in i + 1 .. i + Width(s[i]) - 1 : s[j] = "cont"
  BY DEF Complete
<1>4. i + Width(s[i]) - 1 \in i .. Len(s) /\ i + Width(s[i]) - 1 <= Len(s \o t)
      /\ \A j \in i + 1 .. i + Width(s[i]) - 1 : j \in 1 .. Len(s)
  BY <1>1, <1>2, <1>3
<1>5. QED
  BY <1>1, <1>3, <1>4 DEF Complete

LEMMA CompleteAfter ==
  ASSUME NEW s \in Seq(Byte), NEW t \in Seq(Byte), NEW i \in 1 .. Len(t)
  PROVE  /\ Complete(s \o t, Len(s) + i) <=> Complete(t, i)
         /\ (s \o t)[Len(s) + i] = t[i]
<1>1. Len(s) \in Nat /\ Len(t) \in Nat /\ Len(s \o t) = Len(s) + Len(t)
  BY LenProperties, ConcatProperties
<1>2. ASSUME NEW k \in 1 .. Len(t)  PROVE (s \o t)[Len(s) + k] = t[k]
  <2>1. Len(s) + k \in 1 .. Len(s) + Len(t) /\ ~(Len(s) + k <= Len(s)) /\ Len(s) + k - Len(s) = k
    BY <1>1
  <2>2. QED
    BY <2>1, ConcatProperties
<1>3. t[i] \in Byte /\ Width(t[i]) \in 0 .. 3
  BY ElementOfSeq, Widths
<1> DEFINE w == Width(t[i])
<1>4. /\ Len(s) + i + w - 1 >= Len(s) + i <=> i + w - 1 >= i
      /\ Len(s) + i + w - 1 <= Len(s \o t) <=> i + w - 1 <= Len(t)
  BY <1>1, <1>3
<1>5. ASSUME i + w - 1 <= Len(t)
      PROVE  (\A j \in Len(s) + i + 1 .. Len(s) + i + w - 1 : (s \o t)[j] = "cont")
               <=> \A j \in i + 1 .. i + w - 1 : t[j] = "cont"
  <2>1. ASSUME \A j \in Len(s) + i + 1 .. Len(s) + i + w - 1 : (s \o t)[j] = "cont",
               NEW j \in i + 1 .. i + w - 1
        PROVE  t[j] = "cont"
    <3>1. j \in 1 .. Len(t) /\ Len(s) + j \in Len(s) + i + 1 .. Len(s) + i + w - 1
      BY <1>1, <1>3, <1>5
    <3>2. QED
      BY <1>2, <2>1, <3>1
  <2>2. ASSUME \A j \in i + 1 .. i + w - 1 : t[j] = "cont",
               NEW j \in Len(s) + i + 1 .. Len(s) + i + w - 1
        PROVE  (s \o t)[j] = "cont"
    <3>1. j - Len(s) \in 1 .. Len(t) /\ j - Len(s) \in i + 1 .. i + w - 1
          /\ Len(s) + (j - Len(s)) = j
      BY <1>1, <1>3, <1>5
    <3>2. (s \o t)[Len(s) + (j - Len(s))] = t[j - Len(s)]
      BY <1>2, <3>1
    <3>3. QED
      BY <2>2, <3>1, <3>2
  <2>3. QED
    BY <2>1, <2>2
<1>6. (s \o t)[Len(s) + i] = t[i]
  BY <1>2
<1>7. QED
  BY <1>4, <1>5, <1>6 DEF Complete

(* After a valid text, another begins on its own.                          *)
LEMMA ValidConcat ==
  ASSUME NEW s \in Seq(Byte), NEW t \in Seq(Byte), Valid(s)
  PROVE  Valid(s \o t) <=> Valid(t)
<1>1. Len(s) \in Nat /\ Len(t) \in Nat /\ s \o t \in Seq(Byte)
      /\ DOMAIN s = 1 .. Len(s) /\ DOMAIN t = 1 .. Len(t)
      /\ DOMAIN (s \o t) = 1 .. Len(s) + Len(t)
  BY LenProperties, ConcatProperties
<1>2. ASSUME Valid(s \o t), NEW i \in 1 .. Len(t), Starts(t, i)  PROVE Complete(t, i)
  <2>1. Len(s) + i \in DOMAIN (s \o t)
    BY <1>1
  <2>2. Starts(s \o t, Len(s) + i)
    BY <1>2, StartsAfter
  <2>3. Complete(s \o t, Len(s) + i)
    BY <1>2, <2>1, <2>2 DEF Valid
  <2>4. QED
    BY <2>3, CompleteAfter
<1>3. ASSUME Valid(t), NEW i \in 1 .. Len(s) + Len(t), Starts(s \o t, i)
      PROVE  Complete(s \o t, i)
  <2>1. CASE i <= Len(s)
    <3>1. i \in 1 .. Len(s)
      BY <1>1, <2>1
    <3>2. Complete(s, i)
      BY <1>1, <1>3, <3>1, StartsBefore DEF Valid
    <3>3. QED
      BY <3>1, <3>2, CompleteBefore
  <2>2. CASE i > Len(s)
    <3>1. i - Len(s) \in 1 .. Len(t) /\ Len(s) + (i - Len(s)) = i
      BY <1>1, <2>2
    <3>2. Starts(t, i - Len(s))
      BY <1>3, <3>1, StartsAfter
    <3>3. Complete(t, i - Len(s))
      BY <1>1, <1>3, <3>1, <3>2 DEF Valid
    <3>4. Complete(s \o t, Len(s) + (i - Len(s)))
      BY <3>1, <3>3, CompleteAfter
    <3>5. QED
      BY <3>1, <3>4
  <2>3. QED
    BY <1>1, <2>1, <2>2
<1>4. QED
  BY <1>1, <1>2, <1>3 DEF Valid

LEMMA ValidEmpty == Valid(<<>>)
  BY DEF Valid

LEMMA PieceType ==
  ASSUME NEW s \in Seq(Byte), NEW i \in 1 .. Len(s)
  PROVE  Piece(s, i) \in Seq(Char)
<1> DEFINE B == Byte \cup {"U+FFFD"}
           w == Width(s[i])
<1>1. Len(s) \in Nat /\ w \in 0 .. 3
  BY LenProperties, ElementOfSeq, Widths
<1>2. CASE ~Starts(s, i)
  BY <1>2, EmptySeq DEF Piece
<1>3. CASE Starts(s, i) /\ ~Complete(s, i)
  <2>1. REPLACEMENT \in Char
    BY DEF REPLACEMENT, Char
  <2>2. QED
    BY <1>3, <2>1 DEF Piece
<1>4. CASE Starts(s, i) /\ Complete(s, i)
  <2>1. i + w - 1 \in Int /\ i \in Int /\ i + w - 1 <= Len(s)
    BY <1>1, <1>4 DEF Complete
  <2>2. \A k \in i .. i + w - 1 : s[k] \in B
    <3>1. ASSUME NEW k \in i .. i + w - 1  PROVE s[k] \in B
      <4>1. k \in 1 .. Len(s)
        BY <1>1, <2>1
      <4>2. QED
        BY <4>1, ElementOfSeq
    <3>2. QED
      BY <3>1
  <2> HIDE DEF w, B
  <2>3. SubSeq(s, i, i + w - 1) \in Seq(B)
    BY <2>1, <2>2, SubSeqProperties
  <2>4. <<SubSeq(s, i, i + w - 1)>> \in Seq(Char)
    BY <2>3 DEF Char, B
  <2>5. QED
    BY <1>4, <2>4 DEF Piece, w
<1>5. QED
  BY <1>2, <1>3, <1>4

LEMMA PiecesType ==
  ASSUME NEW s \in Seq(Byte)
  PROVE  /\ Pieces(s) \in Seq(Seq(Char)) /\ Len(Pieces(s)) = Len(s)
         /\ \A i \in 1 .. Len(s) : Pieces(s)[i] = Piece(s, i)
<1>1. Len(s) \in Nat /\ DOMAIN s = 1 .. Len(s)
  BY LenProperties
<1>2. Pieces(s) = [i \in 1 .. Len(s) |-> Piece(s, i)]
  BY <1>1 DEF Pieces
<1>3. Pieces(s) \in [1 .. Len(s) -> Seq(Char)]
  BY <1>2, PieceType
<1>4. QED
  BY <1>1, <1>2, <1>3

LEMMA LossyType ==
  ASSUME NEW s \in Seq(Byte)
  PROVE  Lossy(s) \in Seq(Char) /\ Lossy(s) = FlattenSeq(Pieces(s))
<1>1. Lossy(s) = FlattenSeq(Pieces(s))
  BY DEF Lossy, Pieces
<1>2. QED
  BY <1>1, PiecesType, FlattenSeqType

LEMMA LossyConcat ==
  ASSUME NEW s \in Seq(Byte), NEW t \in Seq(Byte), Valid(s)
  PROVE  Lossy(s \o t) = Lossy(s) \o Lossy(t)
<1>1. Len(s) \in Nat /\ Len(t) \in Nat /\ s \o t \in Seq(Byte) /\ Len(s \o t) = Len(s) + Len(t)
      /\ DOMAIN s = 1 .. Len(s)
  BY LenProperties, ConcatProperties
<1>2. ASSUME NEW i \in 1 .. Len(s)  PROVE Piece(s \o t, i) = Piece(s, i)
  <2>1. CASE ~Starts(s, i)
    BY <2>1, StartsBefore DEF Piece
  <2>2. CASE Starts(s, i)
    <3> DEFINE w == Width(s[i])
    <3>1. Complete(s, i)
      BY <1>1, <2>2 DEF Valid
    <3>2. Complete(s \o t, i) /\ Width((s \o t)[i]) = w /\ i + w - 1 \in i .. Len(s)
      BY <3>1, CompleteBefore
    <3> HIDE DEF w
    <3>3. i + w - 1 \in 1 .. Len(s)
      BY <1>1, <3>2
    <3>4. SubSeq(s \o t, i, i + w - 1) = SubSeq(s, i, i + w - 1)
      BY <3>3, SubSeqOfConcat1
    <3>5. Starts(s \o t, i)
      BY <2>2, StartsBefore
    <3>6. QED
      BY <2>2, <3>1, <3>2, <3>4, <3>5 DEF Piece, w
  <2>3. QED
    BY <2>1, <2>2
<1>3. ASSUME NEW i \in 1 .. Len(t)  PROVE Piece(s \o t, Len(s) + i) = Piece(t, i)
  <2> DEFINE w == Width(t[i])
  <2>1. Width((s \o t)[Len(s) + i]) = w /\ w \in 0 .. 3
    BY CompleteAfter, ElementOfSeq, Widths
  <2>2. (Starts(s \o t, Len(s) + i) <=> Starts(t, i))
        /\ (Complete(s \o t, Len(s) + i) <=> Complete(t, i))
    BY StartsAfter, CompleteAfter
  <2>3. ASSUME Complete(t, i)
        PROVE  SubSeq(s \o t, Len(s) + i, Len(s) + i + w - 1) = SubSeq(t, i, i + w - 1)
    <3>1. i + w - 1 >= i /\ i + w - 1 <= Len(t)
      BY <2>3 DEF Complete
    <3> HIDE DEF w
    <3> DEFINE m == Len(s) + i
               n == Len(s) + i + w - 1
    <3>2. /\ m \in Len(s) + 1 .. Len(s) + Len(t)
          /\ n \in Len(s) + 1 .. Len(s) + Len(t)
          /\ m - Len(s) = i /\ n - Len(s) = i + w - 1
      BY <1>1, <2>1, <3>1
    <3> HIDE DEF m, n
    <3>3. SubSeq(s \o t, m, n) = SubSeq(t, m - Len(s), n - Len(s))
      BY <3>2, SubSeqOfConcat2
    <3>4. QED
      BY <3>2, <3>3 DEF m, n
  <2> HIDE DEF w
  <2>4. QED
    BY <2>1, <2>2, <2>3 DEF Piece, w
<1>4. Pieces(s \o t) = Pieces(s) \o Pieces(t)
  <2>1. /\ Pieces(s \o t) \in Seq(Seq(Char)) /\ Pieces(s) \in Seq(Seq(Char))
        /\ Pieces(t) \in Seq(Seq(Char)) /\ Len(Pieces(s)) = Len(s) /\ Len(Pieces(t)) = Len(t)
        /\ Len(Pieces(s \o t)) = Len(s) + Len(t)
    BY <1>1, PiecesType
  <2>2. /\ Pieces(s) \o Pieces(t) \in Seq(Seq(Char))
        /\ Len(Pieces(s) \o Pieces(t)) = Len(s) + Len(t)
        /\ \A i \in 1 .. Len(s) + Len(t) : (Pieces(s) \o Pieces(t))[i] =
              IF i <= Len(s) THEN Pieces(s)[i] ELSE Pieces(t)[i - Len(s)]
    <3> DEFINE F == Pieces(s)
               G == Pieces(t)
    <3> HIDE DEF F, G
    <3>1. F \in Seq(Seq(Char)) /\ G \in Seq(Seq(Char)) /\ Len(F) = Len(s) /\ Len(G) = Len(t)
      BY <2>1 DEF F, G
    <3>2. /\ F \o G \in Seq(Seq(Char)) /\ Len(F \o G) = Len(F) + Len(G)
          /\ \A i \in 1 .. Len(F) + Len(G) :
               (F \o G)[i] = IF i <= Len(F) THEN F[i] ELSE G[i - Len(F)]
      BY <3>1, ConcatProperties, Zenon
    <3>3. QED
      BY <3>1, <3>2 DEF F, G
  <2>3. ASSUME NEW i \in 1 .. Len(s) + Len(t)
        PROVE  Pieces(s \o t)[i] = (Pieces(s) \o Pieces(t))[i]
    <3>1. Pieces(s \o t)[i] = Piece(s \o t, i)
      BY <1>1, PiecesType
    <3>2. CASE i <= Len(s)
      <4>1. i \in 1 .. Len(s)
        BY <1>1, <3>2
      <4>2. QED
        BY <1>2, <2>2, <3>1, <3>2, <4>1, PiecesType
    <3>3. CASE i > Len(s)
      <4>1. i - Len(s) \in 1 .. Len(t) /\ Len(s) + (i - Len(s)) = i /\ ~(i <= Len(s))
        BY <1>1, <3>3
      <4>2. Piece(s \o t, i) = Piece(t, i - Len(s))
        BY <1>3, <4>1
      <4>3. Pieces(t)[i - Len(s)] = Piece(t, i - Len(s))
        BY <4>1, PiecesType
      <4>4. QED
        BY <2>2, <3>1, <4>1, <4>2, <4>3
    <3>4. i <= Len(s) \/ i > Len(s)
      BY <1>1
    <3>5. QED
      BY <3>2, <3>3, <3>4
  <2>4. QED
    BY <2>1, <2>2, <2>3, SeqEqual, Zenon
<1>5. Pieces(s) \in Seq(Seq(Char)) /\ Pieces(t) \in Seq(Seq(Char))
  BY PiecesType
<1>6. FlattenSeq(Pieces(s \o t)) = FlattenSeq(Pieces(s)) \o FlattenSeq(Pieces(t))
  BY <1>4, <1>5, FlattenConcat
<1>7. QED
  BY <1>1, <1>6, LossyType

(* from_utf8 answers with the longest valid beginning.                     *)
LEMMA LongestValid ==
  ASSUME NEW s \in Seq(Byte)
  PROVE  /\ ValidUpTo(s) \in 0 .. Len(s) /\ Valid(SubSeq(s, 1, ValidUpTo(s)))
         /\ \A n \in 0 .. Len(s) : Valid(SubSeq(s, 1, n)) => n <= ValidUpTo(s)
<1> DEFINE V == {n \in 0 .. Len(s) : Valid(SubSeq(s, 1, n))}
           W == {m \in Nat : \E n \in V : m = Len(s) - n}
<1>1. Len(s) \in Nat
  BY LenProperties
<1>2. 0 \in V
  <2>1. SubSeq(s, 1, 0) = <<>>
    BY SubSeqEmpty
  <2>2. Valid(SubSeq(s, 1, 0))
    BY <2>1, ValidEmpty, Zenon
  <2>3. QED
    BY <1>1, <2>2
<1>3. W # {} /\ W \subseteq Nat
  <2>1. Len(s) = Len(s) - 0
    BY <1>1
  <2>2. QED
    BY <1>1, <1>2, <2>1
<1> HIDE DEF V
<1>4. PICK m \in W : \A k \in W : m <= k
  BY <1>3, LeastNatural
<1>5. PICK n \in V : m = Len(s) - n
  BY <1>4
<1>6. ASSUME NEW k \in V  PROVE n >= k
  <2>1. k \in 0 .. Len(s) /\ n \in 0 .. Len(s)
    BY DEF V
  <2>2. Len(s) - k \in W
    BY <1>1, <2>1
  <2>3. m <= Len(s) - k
    BY <1>4, <2>2
  <2>4. QED
    BY <1>1, <1>5, <2>1, <2>3
<1>7. ValidUpTo(s) \in V /\ \A k \in V : ValidUpTo(s) >= k
  BY <1>6 DEF ValidUpTo, Max, V
<1>8. QED
  BY <1>1, <1>7 DEF V

LEMMA WholeIsValid ==
  ASSUME NEW s \in Seq(Byte), ValidUpTo(s) = Len(s)
  PROVE  Valid(s)
<1>1. Valid(SubSeq(s, 1, Len(s)))
  BY LongestValid
<1>2. QED
  BY <1>1, SubSeqFull

(* What flush_utf8 keeps begins with nothing that could be printed.        *)
Stuck(s) == \A n \in 1 .. Len(s) : ~Valid(SubSeq(s, 1, n))

LEMMA Flushed ==
  ASSUME NEW s \in Seq(Byte)
  PROVE  \E p \in Seq(Byte), r \in Seq(Byte) :
           /\ p = SubSeq(s, 1, ValidUpTo(s)) /\ r = SubSeq(s, ValidUpTo(s) + 1, Len(s))
           /\ s = p \o r /\ Valid(p) /\ Stuck(r)
<1> DEFINE v == ValidUpTo(s)
           p == SubSeq(s, 1, v)
           r == SubSeq(s, v + 1, Len(s))
<1>1. v \in 0 .. Len(s) /\ Valid(p) /\ Len(s) \in Nat
  BY LongestValid, LenProperties, Zenon
<1> HIDE DEF v
<1>3. \A i \in 1 .. Len(s) : s[i] \in Byte
  BY ElementOfSeq
<1>4. p \in Seq(Byte) /\ Len(p) = v
  <2>1. \A i \in 1 .. v : s[i] \in Byte
    BY <1>1, <1>3
  <2>2. 1 \in Int /\ v \in Int
    BY <1>1
  <2>3. p \in Seq(Byte) /\ Len(p) = IF 1 <= v THEN v - 1 + 1 ELSE 0
    BY <2>1, <2>2, SubSeqProperties
  <2>4. QED
    BY <1>1, <2>3
<1>5. r \in Seq(Byte) /\ Len(r) = Len(s) - v
  <2>1. \A i \in v + 1 .. Len(s) : s[i] \in Byte
    BY <1>1, <1>3
  <2>2. v + 1 \in Int /\ Len(s) \in Int
    BY <1>1
  <2>3. r \in Seq(Byte) /\ Len(r) = IF v + 1 <= Len(s) THEN Len(s) - (v + 1) + 1 ELSE 0
    BY <2>1, <2>2, SubSeqProperties
  <2>4. QED
    BY <1>1, <2>3
<1>6. s = p \o r
  <2>1. 1 \in 1 .. Len(s) + 1 /\ v \in 1 - 1 .. Len(s) /\ Len(s) \in v .. Len(s)
    BY <1>1
  <2>2. SubSeq(s, 1, v) \o SubSeq(s, v + 1, Len(s)) = SubSeq(s, 1, Len(s))
    BY <2>1, ConcatAdjacentSubSeq
  <2>3. QED
    BY <2>2, SubSeqFull
<1> HIDE DEF p, r
<1>7. ASSUME NEW n \in 1 .. Len(r), Valid(SubSeq(r, 1, n))  PROVE FALSE
  <2> DEFINE q == SubSeq(r, 1, n)
  <2>1. q \in Seq(Byte)
    <3>1. 1 \in Int /\ n \in Int /\ \A i \in 1 .. n : r[i] \in Byte
      BY <1>1, <1>5, ElementOfSeq
    <3>2. QED
      BY <3>1, SubSeqProperties
  <2>2. p \o q = SubSeq(s, 1, v + n)
    <3>1. SubSeq(r, 1, n) = SubSeq(s, v + 1, v + n)
      <4> DEFINE a == Len(p) + 1
                 b == Len(p) + n
      <4>1. a \in Len(p) + 1 .. Len(p) + Len(r) /\ b \in Len(p) + 1 .. Len(p) + Len(r)
            /\ a - Len(p) = 1 /\ b - Len(p) = n /\ a = v + 1 /\ b = v + n
        BY <1>1, <1>4, <1>5
      <4> HIDE DEF a, b
      <4>2. SubSeq(p \o r, a, b) = SubSeq(r, a - Len(p), b - Len(p))
        <5>1. p \in Seq(Byte) /\ r \in Seq(Byte)
          BY <1>4, <1>5
        <5>2. a \in Len(p) + 1 .. Len(p) + Len(r) /\ b \in Len(p) + 1 .. Len(p) + Len(r)
          BY <4>1
        <5>3. QED
          BY <5>1, <5>2, SubSeqOfConcat2
      <4>3. QED
        BY <1>6, <4>1, <4>2
    <3>2. 1 \in 1 .. Len(s) + 1 /\ v \in 1 - 1 .. Len(s) /\ v + n \in v .. Len(s)
      BY <1>1, <1>5
    <3>3. SubSeq(s, 1, v) \o SubSeq(s, v + 1, v + n) = SubSeq(s, 1, v + n)
      BY <3>2, ConcatAdjacentSubSeq
    <3>4. QED
      BY <3>1, <3>3 DEF p
  <2> HIDE DEF q
  <2>3. Valid(q)
    BY <1>7 DEF q
  <2>4. Valid(p \o q)
    BY <1>1, <1>4, <2>1, <2>3, ValidConcat
  <2>5. v + n \in 0 .. Len(s)
    BY <1>1, <1>5
  <2>6. v + n <= v
    BY <2>2, <2>4, <2>5, LongestValid DEF v
  <2>7. QED
    BY <1>1, <2>6
<1>8. Stuck(r)
  BY <1>7 DEF Stuck
<1>9. QED
  BY <1>1, <1>4, <1>5, <1>6, <1>8 DEF p, r, v

(* The first character of a valid text is a valid text.                    *)
LEMMA FirstCharacter ==
  ASSUME NEW s \in Seq(Byte), NEW n \in 1 .. Len(s), n = Width(s[1]), Complete(s, 1)
  PROVE  Valid(SubSeq(s, 1, n))
<1> DEFINE c == SubSeq(s, 1, n)
<1>1. Len(s) \in Nat /\ n \in 1 .. Len(s) /\ 1 \in 1 .. Len(s) /\ 1 \in 1 .. n
  BY LenProperties
<1>2. c \in Seq(Byte) /\ Len(c) = n /\ \A i \in 1 .. n : c[i] = s[i]
  <2>1. 1 \in Int /\ n \in Int /\ \A i \in 1 .. n : s[i] \in Byte
    BY <1>1, ElementOfSeq
  <2>2. c \in Seq(Byte) /\ Len(c) = n /\ \A i \in 1 .. n - 1 + 1 : c[i] = s[1 + i - 1]
    BY <1>1, <2>1, SubSeqProperties
  <2>3. QED
    BY <1>1, <2>2
<1>3. \A j \in 2 .. n : s[j] = "cont"
  <2>1. 1 + Width(s[1]) - 1 = n
    BY <1>1
  <2>2. QED
    BY <2>1 DEF Complete
<1> HIDE DEF c
<1>4. ASSUME NEW i \in 1 .. n, Starts(c, i)  PROVE i = 1
  <2>1. SUFFICES ASSUME i # 1  PROVE FALSE
    OBVIOUS
  <2>2. 1 \in 1 .. i - 1 /\ 1 < i /\ i < 1 + n /\ \A k \in 1 + 1 .. i : k \in 2 .. n /\ k \in 1 .. n
    BY <1>1, <2>1
  <2>3. Width(c[1]) = n /\ \A k \in 1 + 1 .. i : c[k] = "cont"
    BY <1>1, <1>2, <1>3, <2>2
  <2>4. Continues(c, 1, i)
    BY <2>2, <2>3 DEF Continues
  <2>5. QED
    BY <1>4, <2>2, <2>4 DEF Starts
<1>5. Complete(c, 1)
  <2>1. Width(c[1]) = n /\ 1 + n - 1 = n
    BY <1>1, <1>2
  <2>2. \A j \in 1 + 1 .. n : c[j] = "cont"
    BY <1>1, <1>2, <1>3
  <2>3. 1 + Width(c[1]) - 1 = n /\ n >= 1 /\ n <= Len(c)
    BY <1>1, <1>2, <2>1
  <2>4. QED
    BY <2>2, <2>3 DEF Complete
<1>6. DOMAIN c = 1 .. n
  BY <1>2, LenProperties
<1>7. QED
  BY <1>4, <1>5, <1>6 DEF Valid, c

LEMMA StuckBegins ==
  ASSUME NEW s \in Seq(Byte), Stuck(s), NEW tail \in Seq(Byte), Valid(s \o tail)
  PROVE  Begins(s)
<1>1. SUFFICES ASSUME s # <<>>
               PROVE  Width(s[1]) > Len(s) /\ \A k \in 2 .. Len(s) : s[k] = "cont"
  BY DEF Begins
<1>2. /\ Len(s) \in Nat \ {0} /\ Len(tail) \in Nat /\ s \o tail \in Seq(Byte)
      /\ Len(s \o tail) = Len(s) + Len(tail)
      /\ DOMAIN (s \o tail) = 1 .. Len(s) + Len(tail)
  BY <1>1, EmptySeq, LenProperties, ConcatProperties
<1>3. \A i \in 1 .. Len(s) : (s \o tail)[i] = s[i]
  BY <1>2, ConcatProperties
<1>4. Starts(s \o tail, 1)
  BY DEF Starts
<1>5. Complete(s \o tail, 1)
  BY <1>2, <1>4 DEF Valid
<1>6. s[1] \in Byte /\ Width(s[1]) \in 0 .. 3 /\ 1 \in 1 .. Len(s)
  BY <1>2, ElementOfSeq, Widths
<1>7. /\ Width(s[1]) >= 1
      /\ \A j \in 2 .. Width(s[1]) : (s \o tail)[j] = "cont"
  <2>1. (s \o tail)[1] = s[1] /\ 1 + Width(s[1]) - 1 = Width(s[1]) /\ 1 + 1 = 2
    BY <1>3, <1>6
  <2>2. QED
    BY <1>5, <2>1 DEF Complete
<1>8. Width(s[1]) > Len(s)
  <2>1. SUFFICES ASSUME Width(s[1]) <= Len(s)  PROVE FALSE
    BY <1>2, <1>6
  <2>2. Width(s[1]) \in 1 .. Len(s)
    BY <1>2, <1>6, <1>7, <2>1
  <2>3. \A j \in 2 .. Width(s[1]) : s[j] = "cont"
    BY <1>2, <1>3, <1>7, <2>2
  <2>4. Complete(s, 1)
    <3>1. 1 + Width(s[1]) - 1 = Width(s[1]) /\ 1 + 1 = 2
      BY <1>6
    <3>2. QED
      BY <2>2, <2>3, <3>1 DEF Complete
  <2>5. Valid(SubSeq(s, 1, Width(s[1])))
    BY <2>2, <2>4, FirstCharacter
  <2>6. QED
    BY <2>2, <2>5 DEF Stuck
<1>9. \A k \in 2 .. Len(s) : s[k] = "cont"
  BY <1>2, <1>3, <1>6, <1>7, <1>8
<1>10. QED
  BY <1>8, <1>9

-----------------------------------------------------------------------------
(* The stream.                                                             *)

(* Until the rest is printed, the answer is what is printed, which ends    *)
(* where a character ends, and what waits, of which nothing can be printed.*)
Split(printed) ==
  /\ AllBytes = printed \o pending
  /\ Valid(printed) /\ Stuck(pending)
  /\ screen = Lossy(printed)

StreamInv ==
  /\ pc \in {"sample", "forward", "rest", "done", "failed"}
  /\ chosen \in Seq(Tokens) /\ pending \in Seq(Byte)
  /\ pc # "done" => \E printed \in Seq(Byte) : Split(printed)
  /\ pc = "done" => pending = <<>> /\ screen = Lossy(AllBytes)

LEMMA StreamInitInv == StreamInit => StreamInv
<1> SUFFICES ASSUME StreamInit  PROVE StreamInv
  OBVIOUS
<1>1. AllBytes = <<>>
  BY FlattenEmpty DEF StreamInit, AllBytes
<1>2. Lossy(<<>>) = <<>>
  <2>1. Pieces(<<>>) \in Seq(Seq(Char)) /\ Len(Pieces(<<>>)) = 0
    BY EmptySeq, PiecesType
  <2>2. Pieces(<<>>) = <<>>
    BY <2>1, EmptySeq
  <2>3. QED
    BY <2>2, LossyType, EmptySeq, FlattenEmpty
<1>3. Stuck(<<>>)
  BY DEF Stuck
<1>4. <<>> \in Seq(Byte) /\ <<>> \o <<>> = <<>> /\ <<>> \in Seq(Tokens)
  BY EmptySeq, ConcatEmptySeq
<1>5. Split(<<>>)
  BY <1>1, <1>2, <1>3, <1>4, ValidEmpty DEF StreamInit, Split
<1>6. QED
  BY <1>4, <1>5 DEF StreamInit, StreamInv

LEMMA AnswerType ==
  ASSUME StreamInv
  PROVE  AllBytes \in Seq(Byte) /\ chosen \in Seq(Seq(Byte))
<1>1. chosen \in Seq(Seq(Byte))
  BY TokensAssumption, SeqMonotonic DEF StreamInv
<1>2. QED
  BY <1>1, FlattenSeqType DEF AllBytes

LEMMA StreamStep == StreamInv /\ [StreamNext]_streamVars => StreamInv'
<1> SUFFICES ASSUME StreamInv, [StreamNext]_streamVars  PROVE StreamInv'
  OBVIOUS
<1> USE DEF StreamInv
<1>1. CASE Stop
  <2>1. PICK printed \in Seq(Byte) : Split(printed)
    BY <1>1 DEF Stop
  <2>2. Split(printed)'
    BY <1>1, <2>1 DEF Stop, Split, AllBytes, Stuck
  <2>3. QED
    BY <1>1, <2>2 DEF Stop
<1>2. CASE Forward
  <2>1. PICK printed \in Seq(Byte) : Split(printed)
    BY <1>2 DEF Forward
  <2>2. Split(printed)'
    BY <1>2, <2>1 DEF Forward, Split, AllBytes, Stuck
  <2>3. QED
    BY <1>2, <2>2 DEF Forward
<1>3. CASE Stream
  <2>1. PICK printed \in Seq(Byte) : Split(printed)
    BY <1>3 DEF Stream
  <2>2. PICK next \in Tokens :
          /\ chosen' = Append(chosen, next)
          /\ screen' = screen \o Lossy(SubSeq(pending \o next, 1, ValidUpTo(pending \o next)))
          /\ pending' = SubSeq(pending \o next, ValidUpTo(pending \o next) + 1,
                               Len(pending \o next))
    BY <1>3 DEF Stream, Printable
  <2>3. next \in Seq(Byte) /\ pending \o next \in Seq(Byte)
    BY TokensAssumption, ConcatProperties
  <2>4. PICK p \in Seq(Byte), r \in Seq(Byte) :
          /\ p = SubSeq(pending \o next, 1, ValidUpTo(pending \o next))
          /\ r = SubSeq(pending \o next, ValidUpTo(pending \o next) + 1, Len(pending \o next))
          /\ pending \o next = p \o r /\ Valid(p) /\ Stuck(r)
    BY <2>3, Flushed
  <2>5. pending \o next = p \o r /\ Valid(p) /\ Stuck(r)
    BY <2>4
  <2>6. printed \o p \in Seq(Byte) /\ Valid(printed \o p)
        /\ Lossy(printed \o p) = Lossy(printed) \o Lossy(p)
    BY <2>1, <2>5, ConcatProperties, ValidConcat, LossyConcat DEF Split
  <2>7. AllBytes' = (printed \o p) \o r
    <3>1. AllBytes' = AllBytes \o next
      BY <2>2, <2>3, AnswerType, FlattenAppend DEF AllBytes
    <3>2. AllBytes \o next = printed \o (pending \o next)
      <4>1. AllBytes = printed \o pending /\ pending \in Seq(Byte)
        BY <2>1 DEF Split
      <4>2. Joins(Byte, printed, pending, next)
        BY <2>3, <4>1 DEF Joins
      <4>3. (printed \o pending) \o next = printed \o (pending \o next)
        BY <4>2, Join
      <4>4. QED
        BY <4>1, <4>3
    <3>3. Joins(Byte, printed, p, r)
      BY <2>1, <2>4 DEF Joins
    <3>4. (printed \o p) \o r = printed \o (p \o r)
      BY <3>3, Join
    <3>5. QED
      BY <2>5, <3>1, <3>2, <3>4
  <2>8. screen' = Lossy(printed \o p) /\ pending' = r
    BY <2>1, <2>2, <2>4, <2>6 DEF Split
  <2>9. Split(printed \o p)'
    BY <2>5, <2>6, <2>7, <2>8 DEF Split, Stuck
  <2>10. chosen' \in Seq(Tokens) /\ pc' = "forward"
    BY <1>3, <2>2, AppendProperties DEF Stream
  <2>11. QED
    BY <2>5, <2>6, <2>8, <2>9, <2>10
<1>4. CASE Rest
  <2>1. PICK printed \in Seq(Byte) : Split(printed)
    BY <1>4 DEF Rest
  <2>2. Lossy(AllBytes) = Lossy(printed) \o Lossy(pending)
    BY <2>1, LossyConcat DEF Split
  <2>3. screen' = Lossy(AllBytes) /\ AllBytes' = AllBytes
    BY <1>4, <2>1, <2>2 DEF Rest, Remainder, Split, AllBytes
  <2>4. QED
    BY <1>4, <2>3, EmptySeq DEF Rest
<1>5. CASE UNCHANGED streamVars
  <2>1. AllBytes' = AllBytes
    BY <1>5 DEF streamVars, AllBytes
  <2>2. CASE pc = "done"
    BY <1>5, <2>1, <2>2 DEF streamVars
  <2>3. CASE pc # "done"
    <3>1. PICK printed \in Seq(Byte) : Split(printed)
      BY <2>3
    <3>2. Split(printed)'
      BY <1>5, <2>1, <3>1 DEF streamVars, Split, Stuck
    <3>3. QED
      BY <1>5, <2>3, <3>2 DEF streamVars
  <2>4. QED
    BY <2>2, <2>3
<1>6. QED
  BY <1>1, <1>2, <1>3, <1>4, <1>5 DEF StreamNext

LEMMA PrefixOfConcat ==
  ASSUME NEW S, NEW s \in Seq(S), NEW t \in Seq(S)
  PROVE  IsPrefix(s, s \o t)
<1>1. Len(s) \in Nat /\ Len(t) \in Nat /\ Len(s \o t) = Len(s) + Len(t)
  BY LenProperties, ConcatProperties
<1>2. SubSeq(s \o t, 1, Len(s)) = SubSeq(s, 1, Len(s))
  <2>1. CASE Len(s) = 0
    BY <2>1, SubSeqEmpty
  <2>2. CASE Len(s) # 0
    <3>1. 1 \in 1 .. Len(s) /\ Len(s) \in 1 .. Len(s)
      BY <1>1, <2>2
    <3>2. QED
      BY <3>1, SubSeqOfConcat1
  <2>3. QED
    BY <2>1, <2>2
<1>3. QED
  BY <1>1, <1>2 DEF IsPrefix

(* Whatever pieces the tokens cut the text into, the screen shows a        *)
(* beginning of what decoding all of them at once gives, and in the end    *)
(* all of it: flush_utf8 stops where a character ends, and what follows    *)
(* such a place is decoded alone as in its context.                        *)
THEOREM ScreenShowsTheAnswer == StreamSpec => []ScreenIsDecode
<1>1. StreamInv => ScreenIsDecode
  <2> SUFFICES ASSUME StreamInv  PROVE ScreenIsDecode
    OBVIOUS
  <2>1. Lossy(AllBytes) \in Seq(Char)
    BY AnswerType, LossyType
  <2>2. CASE pc = "done"
    <3>1. Lossy(AllBytes) \o <<>> = Lossy(AllBytes) /\ <<>> \in Seq(Char)
      BY <2>1, ConcatEmptySeq, EmptySeq
    <3>2. IsPrefix(Lossy(AllBytes), Lossy(AllBytes))
      BY <2>1, <3>1, PrefixOfConcat
    <3>3. QED
      BY <2>2, <3>2 DEF StreamInv, ScreenIsDecode
  <2>3. CASE pc # "done"
    <3>1. PICK printed \in Seq(Byte) : Split(printed)
      BY <2>3 DEF StreamInv
    <3>2. pending \in Seq(Byte) /\ Lossy(AllBytes) = Lossy(printed) \o Lossy(pending)
      BY <3>1, LossyConcat DEF Split, StreamInv
    <3>3. QED
      BY <2>3, <3>1, <3>2, LossyType, PrefixOfConcat DEF Split, ScreenIsDecode
  <2>4. QED
    BY <2>2, <2>3
<1>2. QED
  BY <1>1, StreamInitInv, StreamStep, PTL DEF StreamSpec

(* While the tokens make valid text, nothing that could be printed waits:  *)
(* the bytes flush_utf8 keeps are the beginning of one character.          *)
THEOREM OnlyBeginningsWait == StreamSpec => []NoCharacterWaits
<1>1. StreamInv => NoCharacterWaits
  <2> SUFFICES ASSUME StreamInv,
                      NEW tail \in {<<>>, <<"cont">>, <<"cont", "cont">>},
                      ValidUpTo(AllBytes \o tail) = Len(AllBytes \o tail)
               PROVE  Begins(pending)
    BY DEF NoCharacterWaits
  <2>1. CASE pc = "done"
    BY <2>1 DEF StreamInv, Begins
  <2>2. CASE pc # "done"
    <3>1. PICK printed \in Seq(Byte) : Split(printed)
      BY <2>2 DEF StreamInv
    <3>2. tail \in Seq(Byte) /\ pending \in Seq(Byte)
      <4>1. "cont" \in Byte
        BY DEF Byte
      <4>2. <<>> \in Seq(Byte) /\ <<"cont">> \in Seq(Byte) /\ <<"cont", "cont">> \in Seq(Byte)
        BY <4>1
      <4>3. QED
        BY <4>2 DEF StreamInv
    <3>3. AllBytes \o tail \in Seq(Byte) /\ pending \o tail \in Seq(Byte)
      BY <3>2, AnswerType, ConcatProperties
    <3>4. Valid(AllBytes \o tail)
      BY <3>3, WholeIsValid
    <3>5. AllBytes \o tail = printed \o (pending \o tail)
      BY <3>1, <3>2, ConcatAssociative DEF Split
    <3>6. Valid(pending \o tail)
      BY <3>1, <3>3, <3>4, <3>5, ValidConcat DEF Split
    <3>7. QED
      BY <3>1, <3>2, <3>6, StuckBegins DEF Split
  <2>3. QED
    BY <2>1, <2>2
<1>2. QED
  BY <1>1, StreamInitInv, StreamStep, PTL DEF StreamSpec

-----------------------------------------------------------------------------
(* The inductive invariant of a draw.                                      *)

Sorted(order) ==
  \A x, y \in 1 .. Logits : x < y => AtLeast(logits[order[x]], logits[order[y]])

CallTypes ==
  /\ logits \in [1 .. Logits -> Levels \union Special]
  /\ greedy \in BOOLEAN /\ exp \in Exps /\ top_k \in TopKs /\ top_p \in TopPs

GreedyInv == greedy => /\ drawing \in {"sort", "done"}
                       /\ drawing = "done" => result = Argmax

CandidatesInv ==
  ~greedy /\ drawing # "sort" =>
    \E order \in Bijection(1 .. Logits, 1 .. Logits) :
      Sorted(order) /\ candidates = [x \in 1 .. Kept(Logits) |-> order[x]]

(* Before there are probabilities.                                         *)
Beginning == drawing \in {"sort", "softmax"} => turn = 1 /\ cum = 0 /\ ~fallback

(* The sums stay below top_p up to here.                                   *)
ShortOf(n) == top_p < One => \A x \in 1 .. n : Totals(probs)[x] < top_p

ProbsInv ==
  /\ probs \in [1 .. Kept(Logits) -> Nat]
  /\ \A x \in 1 .. Kept(Logits) :
       probs[x] # 0 => Weight(candidates[x]) # 0

LoopInv ==
  /\ cutoff \in 1 .. Kept(Logits) /\ turn \in 1 .. cutoff
  /\ drawing = "nucleus" => cutoff = Kept(Logits) /\ ShortOf(turn - 1)
  /\ drawing # "nucleus" => ShortOf(cutoff - 1)
  /\ drawing = "draw" => turn = 1 /\ cum = 0
  /\ drawing \in {"nucleus", "walk"} => cum = Totals(probs)[turn - 1]
  /\ drawing = "walk" => /\ drawn \in 0 .. Totals(probs)[cutoff]
                         /\ turn > 1 => cum < drawn

DrawnInv == drawing = "done" => /\ result = candidates[turn]
                                /\ turn > 1 => probs[turn] # 0

(* Without a softmax all probabilities are NaNs, and no comparison holds.  *)
NaNInv ==
  /\ probs = [x \in 1 .. Kept(Logits) |-> NaN]
  /\ cutoff = Kept(Logits) /\ turn \in 1 .. cutoff
  /\ drawing = "walk" => drawn = NaN
  /\ IF drawing = "done" THEN fallback /\ result = candidates[1] ELSE ~fallback

Drawing == ~greedy /\ drawing \in {"nucleus", "draw", "walk", "done"}

SampleInv ==
  /\ CallTypes /\ GreedyInv /\ CandidatesInv /\ Beginning
  /\ drawing \in {"sort", "softmax", "nucleus", "draw", "walk", "done"}
  /\ greedy => ~fallback
  /\ Drawing /\ ~Undefined => ~fallback /\ ProbsInv /\ LoopInv /\ DrawnInv
  /\ Drawing /\ Undefined => NaNInv

(* Powers of two.                                                          *)

PowUpto(m, f) == f = [n \in 0 .. m |-> IF n = 0 THEN 1 ELSE 2 * f[n - 1]]

LEMMA PowUptoAt ==
  ASSUME NEW m \in Nat, NEW f, PowUpto(m, f), NEW n \in 0 .. m
  PROVE  f[n] = IF n = 0 THEN 1 ELSE 2 * f[n - 1]
<1> DEFINE body == [k \in 0 .. m |-> IF k = 0 THEN 1 ELSE 2 * f[k - 1]]
<1>1. f = body
  BY DEF PowUpto
<1>2. body[n] = IF n = 0 THEN 1 ELSE 2 * f[n - 1]
  OBVIOUS
<1> HIDE DEF body
<1>3. QED
  BY <1>1, <1>2

LEMMA PowUptoExists ==
  ASSUME NEW m \in Nat
  PROVE  \E f : PowUpto(m, f)
<1> DEFINE A == {k \in Nat : \E f : PowUpto(k, f)}
<1>1. 0 \in A
  <2> DEFINE f == [n \in 0 .. 0 |-> 1]
  <2>1. f = [n \in 0 .. 0 |-> IF n = 0 THEN 1 ELSE 2 * f[n - 1]]
    OBVIOUS
  <2>2. PowUpto(0, f)
    BY <2>1 DEF PowUpto
  <2>3. QED
    BY <2>2
<1>2. ASSUME NEW k \in Nat, k \in A  PROVE k + 1 \in A
  <2>1. PICK f : PowUpto(k, f)
    BY <1>2
  <2> DEFINE g == [n \in 0 .. k + 1 |-> IF n = k + 1 THEN 2 * f[k] ELSE f[n]]
             body == [n \in 0 .. k + 1 |-> IF n = 0 THEN 1 ELSE 2 * g[n - 1]]
  <2>2. ASSUME NEW n \in 0 .. k + 1  PROVE g[n] = body[n]
    <3>1. CASE n = k + 1
      <4>1. k \in 0 .. k + 1 /\ k # k + 1 /\ n # 0 /\ n - 1 = k
        BY <3>1
      <4>2. g[k] = f[k] /\ g[n] = 2 * f[k] /\ body[n] = 2 * g[k]
        BY <3>1, <4>1
      <4>3. QED
        BY <4>2
    <3>2. CASE n # k + 1
      <4>1. n \in 0 .. k /\ g[n] = f[n]
        BY <3>2
      <4>2. f[n] = IF n = 0 THEN 1 ELSE 2 * f[n - 1]
        BY <2>1, <4>1, PowUptoAt
      <4>3. n # 0 => n - 1 \in 0 .. k + 1 /\ n - 1 # k + 1
        BY <3>2
      <4>4. n # 0 => g[n - 1] = f[n - 1]
        BY <4>3
      <4>5. body[n] = IF n = 0 THEN 1 ELSE 2 * g[n - 1]
        OBVIOUS
      <4>6. QED
        BY <4>1, <4>2, <4>4, <4>5
    <3>3. QED
      BY <3>1, <3>2
  <2>3. g = body
    BY <2>2
  <2>4. PowUpto(k + 1, g)
    BY <2>3 DEF PowUpto
  <2>5. QED
    BY <2>4
<1> HIDE DEF A
<1>3. m \in A
  BY <1>1, <1>2, Induction
<1>4. QED
  BY <1>3 DEF A

LEMMA PowUptoAgree ==
  ASSUME NEW m \in Nat, NEW k \in Nat, NEW f, NEW g, PowUpto(m, f), PowUpto(k, g)
  PROVE  \A n \in Nat : n <= m /\ n <= k => f[n] = g[n]
<1> DEFINE A == {n \in Nat : n <= m /\ n <= k => f[n] = g[n]}
<1>1. 0 \in A
  <2>1. 0 \in 0 .. m /\ 0 \in 0 .. k
    OBVIOUS
  <2>2. f[0] = 1 /\ g[0] = 1
    BY <2>1, PowUptoAt
  <2>3. QED
    BY <2>2
<1>2. ASSUME NEW n \in Nat, n \in A  PROVE n + 1 \in A
  <2>1. CASE n + 1 <= m /\ n + 1 <= k
    <3>1. n + 1 \in 0 .. m /\ n + 1 \in 0 .. k /\ n + 1 # 0 /\ (n + 1) - 1 = n /\ f[n] = g[n]
      BY <1>2, <2>1
    <3>2. f[n + 1] = 2 * f[n] /\ g[n + 1] = 2 * g[n]
      BY <3>1, PowUptoAt
    <3>3. QED
      BY <3>1, <3>2
  <2>2. QED
    BY <2>1
<1> HIDE DEF A
<1>3. Nat \subseteq A
  BY <1>1, <1>2, Induction
<1>4. QED
  BY <1>3 DEF A

LEMMA PowIs ==
  /\ Pow[0] = 1
  /\ \A n \in Nat : Pow[n + 1] = 2 * Pow[n]
<1> DEFINE IsPow(f) == f = [n \in Nat |-> IF n = 0 THEN 1 ELSE 2 * f[n - 1]]
           at(n) == CHOOSE f : PowUpto(n, f)
           all == [n \in Nat |-> at(n)[n]]
           body == [n \in Nat |-> IF n = 0 THEN 1 ELSE 2 * all[n - 1]]
<1>1. ASSUME NEW n \in Nat  PROVE all[n] = body[n]
  <2>0. \A k \in Nat : PowUpto(k, at(k))
    BY PowUptoExists
  <2> HIDE DEF at
  <2>1. n \in 0 .. n
    OBVIOUS
  <2>2. at(n)[n] = IF n = 0 THEN 1 ELSE 2 * at(n)[n - 1]
    BY <2>0, <2>1, PowUptoAt
  <2>3. CASE n = 0
    BY <2>2, <2>3
  <2>4. CASE n # 0
    <3>1. n - 1 \in Nat /\ n - 1 <= n /\ n - 1 <= n - 1
      BY <2>4
    <3>2. PowUpto(n, at(n)) /\ PowUpto(n - 1, at(n - 1))
      BY <2>0, <3>1
    <3>3. at(n)[n - 1] = at(n - 1)[n - 1]
      BY <3>1, <3>2, PowUptoAgree
    <3>4. all[n - 1] = at(n - 1)[n - 1] /\ all[n] = at(n)[n] /\ body[n] = 2 * all[n - 1]
      BY <2>4, <3>1
    <3>5. QED
      BY <2>2, <2>4, <3>3, <3>4
  <2>5. QED
    BY <2>3, <2>4
<1>2. all = body
  BY <1>1
<1> HIDE DEF all
<1>3. IsPow(all)
  BY <1>2
<1>4. IsPow(CHOOSE f : IsPow(f))
  BY <1>3
<1>5. Pow = CHOOSE f : IsPow(f)
  BY DEF Pow
<1>6. IsPow(Pow)
  BY <1>4, <1>5
<1>7. ASSUME NEW n \in Nat  PROVE Pow[n] = IF n = 0 THEN 1 ELSE 2 * Pow[n - 1]
  <2> DEFINE rhs == [k \in Nat |-> IF k = 0 THEN 1 ELSE 2 * Pow[k - 1]]
  <2>1. Pow = rhs
    BY <1>6
  <2>2. rhs[n] = IF n = 0 THEN 1 ELSE 2 * Pow[n - 1]
    OBVIOUS
  <2> HIDE DEF rhs
  <2>3. QED
    BY <2>1, <2>2
<1>8. ASSUME NEW n \in Nat  PROVE Pow[n + 1] = 2 * Pow[n]
  <2>1. n + 1 \in Nat /\ n + 1 # 0 /\ (n + 1) - 1 = n
    OBVIOUS
  <2>2. QED
    BY <1>7, <2>1
<1>9. QED
  BY <1>7, <1>8

LEMMA PowType == \A n \in Nat : Pow[n] \in Nat /\ n < Pow[n]
<1> DEFINE A == {n \in Nat : Pow[n] \in Nat /\ n < Pow[n]}
<1>1. 0 \in A
  BY PowIs
<1>2. ASSUME NEW n \in Nat, n \in A  PROVE n + 1 \in A
  BY <1>2, PowIs
<1> HIDE DEF A
<1>3. Nat \subseteq A
  BY <1>1, <1>2, Induction
<1>4. QED
  BY <1>3 DEF A

LEMMA PowSum ==
  ASSUME NEW m \in Nat
  PROVE  \A n \in Nat : Pow[m + n] = Pow[m] * Pow[n]
<1> DEFINE A == {n \in Nat : Pow[m + n] = Pow[m] * Pow[n]}
<1>1. 0 \in A
  <2>1. Pow[m + 0] = Pow[m] /\ Pow[m] \in Nat /\ Pow[0] = 1
    BY PowIs, PowType
  <2>2. QED
    BY <2>1
<1>2. ASSUME NEW n \in Nat, n \in A  PROVE n + 1 \in A
  <2>1. m + (n + 1) = (m + n) + 1 /\ m + n \in Nat
    OBVIOUS
  <2>2. Pow[m + (n + 1)] = 2 * Pow[m + n] /\ Pow[n + 1] = 2 * Pow[n]
    BY <2>1, PowIs
  <2>3. PICK a, b : a = Pow[m] /\ b = Pow[n]
    OBVIOUS
  <2>4. a \in Nat /\ b \in Nat
    BY <2>3, PowType
  <2>5. 2 * (a * b) = a * (2 * b)
    BY <2>4
  <2>6. QED
    BY <1>2, <2>2, <2>3, <2>5
<1> HIDE DEF A
<1>3. Nat \subseteq A
  BY <1>1, <1>2, Induction
<1>4. QED
  BY <1>3 DEF A

LEMMA PowMonotone ==
  ASSUME NEW m \in Nat, NEW n \in Nat, m <= n
  PROVE  Pow[m] <= Pow[n]
<1>1. PICK k \in Nat : n = m + k
  <2>1. n - m \in Nat /\ n = m + (n - m)
    OBVIOUS
  <2>2. QED
    BY <2>1
<1>2. PICK a, b : a = Pow[m] /\ b = Pow[k]
  OBVIOUS
<1>3. a \in Nat /\ b \in Nat \ {0}
  BY <1>2, PowType
<1>4. Pow[n] = a * b
  BY <1>1, <1>2, PowSum
<1>5. a <= a * b
  BY <1>3
<1>6. QED
  BY <1>2, <1>4, <1>5

-----------------------------------------------------------------------------
(* Rounding.                                                               *)

LEMMA ExponentIs ==
  ASSUME NEW n \in Nat, NEW d \in Nat \ {0}
  PROVE  /\ Exponent(n, d) \in Nat
         /\ n < d * Pow[Bits + Exponent(n, d)]
         /\ \A x \in 0 .. (Exponent(n, d) - 1) : n >= d * Pow[Bits + x]
<1> DEFINE A == {e \in Nat : n < d * Pow[Bits + e]}
           Least(e) == n < d * Pow[Bits + e] /\ \A x \in 0 .. (e - 1) : n >= d * Pow[Bits + x]
<1>0. Bits \in Nat
  BY FormatAssumption
<1>1. n \in A
  <2>1. PICK b : b = Pow[Bits + n]
    OBVIOUS
  <2>2. b \in Nat /\ Bits + n < b
    BY <1>0, <2>1, PowType
  <2>3. n < d * b
    BY <1>0, <2>2
  <2>4. QED
    BY <2>1, <2>3
<1>2. PICK m \in A : \A e \in A : m <= e
  BY <1>1, LeastNatural
<1>3. m \in 0 .. n
  BY <1>1, <1>2
<1>4. ASSUME NEW x \in 0 .. (m - 1)  PROVE n >= d * Pow[Bits + x]
  <2>1. x \in Nat /\ x \notin A /\ Bits + x \in Nat
    BY <1>0, <1>2
  <2>2. ~(n < d * Pow[Bits + x])
    BY <2>1
  <2>3. PICK b : b = Pow[Bits + x]
    OBVIOUS
  <2>4. b \in Nat
    BY <2>1, <2>3, PowType
  <2>5. d * b \in Nat
    BY <2>4
  <2>6. QED
    BY <2>2, <2>3, <2>5
<1>5. Least(m)
  BY <1>2, <1>4
<1>6. Exponent(n, d) = CHOOSE e \in 0 .. n : Least(e)
  BY DEF Exponent
<1> HIDE DEF Least
<1>7. Exponent(n, d) \in 0 .. n /\ Least(Exponent(n, d))
  BY <1>3, <1>5, <1>6
<1>8. QED
  BY <1>7 DEF Least

IsFloat(f) == \E m \in 0 .. Pow[Bits], e \in Nat : f = m * Pow[e]

(* n = d * p * q + s, and f is q or q + 1 units p.                         *)
Rounded(n, d, f, e, p, q, s) ==
  /\ e \in Nat /\ p \in Nat \ {0} /\ q \in Nat /\ s \in Nat
  /\ p = Pow[e] /\ n = (d * p) * q + s /\ s < d * p
  /\ f = q * p \/ f = (q + 1) * p
  /\ f = (q + 1) * p => 2 * s >= d * p
  /\ f = q * p => 2 * s <= d * p
  /\ q < Pow[Bits]
  /\ e > 0 => q >= Pow[Bits - 1]

LEMMA RoundIs ==
  ASSUME NEW n \in Nat, NEW d \in Nat \ {0}
  PROVE  \E e, p, q, s : Rounded(n, d, RoundQ(n, d), e, p, q, s)
<1> DEFINE e == Exponent(n, d)
           p == Pow[e]
           u == d * p
           q == n \div u
           s == n % u
           f == RoundQ(n, d)
<1>0. Bits \in Nat \ {0}
  BY FormatAssumption
<1>1. e \in Nat /\ n < d * Pow[Bits + e] /\ \A x \in 0 .. (e - 1) : n >= d * Pow[Bits + x]
  BY ExponentIs
<1>2. f = (IF 2 * s > u \/ (2 * s = u /\ q % 2 = 1) THEN q + 1 ELSE q) * p
  BY DEF RoundQ
<1> HIDE DEF e
<1>3. p \in Nat \ {0}
  BY <1>1, PowType
<1> HIDE DEF p
<1>4. u \in Nat \ {0}
  BY <1>3
<1> HIDE DEF u
<1>5. q \in Nat /\ s \in Nat /\ s < u /\ n = u * q + s
  BY <1>4
<1> HIDE DEF q, s, f
<1>6. f = q * p \/ f = (q + 1) * p
  BY <1>2
<1>7. q * p # (q + 1) * p
  BY <1>3, <1>5
<1>8. (f = (q + 1) * p => 2 * s >= u) /\ (f = q * p => 2 * s <= u)
  BY <1>2, <1>4, <1>5, <1>7
<1>9. q < Pow[Bits]
  <2>1. Pow[Bits + e] = Pow[Bits] * p
    BY <1>0, <1>1, PowSum DEF p
  <2>2. PICK b : b = Pow[Bits]
    OBVIOUS
  <2>3. b \in Nat
    BY <1>0, <2>2, PowType
  <2>4. d * (b * p) = u * b
    BY <1>3, <2>3 DEF u
  <2>5. n < u * b
    BY <1>1, <2>1, <2>2, <2>4
  <2>5a. u * q \in Nat /\ u * b \in Nat
    BY <1>4, <1>5, <2>3
  <2>5b. u * q < u * b
    BY <1>5, <2>5, <2>5a
  <2>6. q < b
    BY <1>4, <1>5, <2>3, <2>5b
  <2>7. QED
    BY <2>2, <2>6
<1>10. ASSUME e > 0  PROVE q >= Pow[Bits - 1]
  <2>1. e - 1 \in 0 .. (e - 1) /\ Bits + (e - 1) = (Bits - 1) + e /\ Bits - 1 \in Nat
    BY <1>0, <1>1, <1>10
  <2>2. n >= d * Pow[(Bits - 1) + e]
    BY <1>1, <2>1
  <2>3. Pow[(Bits - 1) + e] = Pow[Bits - 1] * p
    BY <1>1, <2>1, PowSum DEF p
  <2>4. PICK b : b = Pow[Bits - 1]
    OBVIOUS
  <2>5. b \in Nat
    BY <2>1, <2>4, PowType
  <2>6. d * (b * p) = u * b
    BY <1>3, <2>5 DEF u
  <2>7. u * b <= n
    BY <2>2, <2>3, <2>4, <2>6
  <2>7a. u * q \in Nat /\ u * b \in Nat /\ u * (q + 1) = u * q + u
    BY <1>4, <1>5, <2>5
  <2>7b. u * b < u * (q + 1)
    BY <1>4, <1>5, <2>7, <2>7a
  <2>8. b < q + 1
    BY <1>4, <1>5, <2>5, <2>7b
  <2>9. QED
    BY <1>5, <2>4, <2>5, <2>8
<1>11. Rounded(n, d, f, e, p, q, s)
  BY <1>1, <1>3, <1>5, <1>6, <1>8, <1>9, <1>10 DEF Rounded, p, u
<1>12. QED
  BY <1>11 DEF f

LEMMA RoundType ==
  ASSUME NEW n \in Nat, NEW d \in Nat \ {0}
  PROVE  RoundQ(n, d) \in Nat /\ IsFloat(RoundQ(n, d))
<1>1. PICK e, p, q, s : Rounded(n, d, RoundQ(n, d), e, p, q, s)
  BY RoundIs
<1>2. PICK f : f = RoundQ(n, d)
  OBVIOUS
<1>3. PICK m \in {q, q + 1} : f = m * p
  BY <1>1, <1>2 DEF Rounded
<1>4. Pow[Bits] \in Nat /\ q \in Nat /\ p \in Nat /\ q < Pow[Bits]
  BY <1>1, PowType, FormatAssumption DEF Rounded
<1>5. m \in 0 .. Pow[Bits]
  BY <1>4
<1>6. f = m * Pow[e] /\ e \in Nat
  BY <1>1, <1>3 DEF Rounded
<1>7. IsFloat(f)
  BY <1>5, <1>6 DEF IsFloat
<1>8. f \in Nat
  BY <1>3, <1>4
<1>9. QED
  BY <1>2, <1>7, <1>8

LEMMA MulLess ==
  ASSUME NEW a \in Nat, NEW b \in Nat, NEW u \in Nat, a < b
  PROVE  u * a <= u * b /\ u * a + u <= u * b
<1>1. PICK c \in Nat : b = a + 1 + c
  <2>1. b - (a + 1) \in Nat /\ b = a + 1 + (b - (a + 1))
    OBVIOUS
  <2>2. QED
    BY <2>1
<1>2. u * c \in Nat /\ u * (a + 1 + c) = u * a + u + u * c /\ u * a \in Nat
  OBVIOUS
<1>3. QED
  BY <1>1, <1>2

LEMMA MulOrder ==
  ASSUME NEW a \in Nat, NEW b \in Nat, NEW u \in Nat \ {0}, u * a <= u * b
  PROVE  a <= b
<1>1. SUFFICES ASSUME b < a  PROVE FALSE
  OBVIOUS
<1>2. u * b + u <= u * a
  BY <1>1, MulLess
<1>3. u * a \in Nat /\ u * b \in Nat
  OBVIOUS
<1>4. QED
  BY <1>2, <1>3

(* What is not above a float does not round above it, and what is not      *)
(* below one does not round below it.                                      *)
LEMMA RoundBelow ==
  ASSUME NEW n \in Nat, NEW d \in Nat \ {0}, NEW f, IsFloat(f), n <= d * f
  PROVE  RoundQ(n, d) <= f
<1>1. PICK e, p, q, s : Rounded(n, d, RoundQ(n, d), e, p, q, s)
  BY RoundIs
<1>2. PICK r : r = RoundQ(n, d)
  OBVIOUS
<1>3. PICK m \in 0 .. Pow[Bits], k \in Nat : f = m * Pow[k]
  BY DEF IsFloat
<1>4. Bits \in Nat \ {0} /\ Pow[Bits] \in Nat /\ m \in Nat /\ f \in Nat
  <2>1. Bits \in Nat \ {0}
    BY FormatAssumption
  <2>2. Pow[Bits] \in Nat /\ Pow[k] \in Nat
    BY <2>1, PowType
  <2>3. m \in Nat
    BY <2>2
  <2>4. m * Pow[k] \in Nat
    BY <2>2, <2>3
  <2>5. QED
    BY <1>3, <2>1, <2>2, <2>3, <2>4
<1>5. PICK u : u = d * p
  OBVIOUS
<1>6. /\ e \in Nat /\ p \in Nat \ {0} /\ q \in Nat /\ s \in Nat /\ u \in Nat \ {0}
      /\ p = Pow[e] /\ n = u * q + s /\ s < u
      /\ r = q * p \/ r = (q + 1) * p
      /\ r = (q + 1) * p => 2 * s >= u
      /\ e > 0 => q >= Pow[Bits - 1]
  BY <1>1, <1>2, <1>5 DEF Rounded
<1>7. ASSUME NEW j \in Nat, f = j * p  PROVE r <= f
  <2>1. d * f = u * j
    BY <1>5, <1>6, <1>7
  <2>2. u * q + s <= u * j
    BY <1>6, <2>1
  <2>3. u * q \in Nat /\ u * j \in Nat
    BY <1>6
  <2>4. u * q <= u * j
    BY <1>6, <2>2, <2>3
  <2>5. q <= j
    BY <1>6, <2>4, MulOrder
  <2>6. CASE q = j
    <3>1. s = 0
      BY <1>6, <2>2, <2>3, <2>6
    <3>2. r = q * p
      BY <1>6, <3>1
    <3>3. q * p \in Nat
      BY <1>6
    <3>4. QED
      BY <1>7, <2>6, <3>2, <3>3
  <2>7. CASE q # j
    <3>1. q < j /\ q + 1 <= j
      BY <1>6, <2>5, <2>7
    <3>2. p * q <= p * j /\ p * q + p <= p * j
      BY <1>6, <3>1, MulLess
    <3>3. q * p = p * q /\ (q + 1) * p = p * q + p /\ j * p = p * j
      BY <1>6
    <3>4. QED
      BY <1>6, <1>7, <3>2, <3>3
  <2>8. QED
    BY <2>6, <2>7
<1>8. CASE k >= e
  <2>1. k - e \in Nat /\ k = e + (k - e)
    BY <1>6, <1>8
  <2>2. PICK b : b = Pow[k - e]
    OBVIOUS
  <2>3. b \in Nat
    BY <2>1, <2>2, PowType
  <2>4. Pow[k] = p * b
    BY <1>6, <2>1, <2>2, PowSum
  <2>5. m * (p * b) = (m * b) * p /\ m * b \in Nat
    BY <1>4, <1>6, <2>3
  <2>6. PICK j \in Nat : f = j * p
    BY <1>3, <2>4, <2>5
  <2>7. QED
    BY <1>2, <1>7, <2>6
<1>9. CASE k < e
  <2>1. e > 0 /\ Bits - 1 \in Nat /\ k <= e - 1 /\ e - 1 \in Nat
        /\ Bits + (e - 1) = (Bits - 1) + e
    BY <1>4, <1>6, <1>9
  <2>2. PICK b, h : b = Pow[Bits] /\ h = Pow[Bits - 1]
    OBVIOUS
  <2>3. PICK c, g : c = Pow[k] /\ g = Pow[e - 1]
    OBVIOUS
  <2>4. b \in Nat /\ h \in Nat /\ c \in Nat /\ g \in Nat
    BY <1>4, <2>1, <2>2, <2>3, PowType
  <2>5. b * g = h * p
    BY <1>4, <1>6, <2>1, <2>2, <2>3, PowSum
  <2>6. c <= g
    BY <2>1, <2>3, PowMonotone
  <2>7. f <= h * p
    <3>1. m * c <= b * c
      BY <1>4, <2>2, <2>4
    <3>2. b * c <= b * g
      BY <2>4, <2>6
    <3>3. m * c \in Nat /\ b * c \in Nat /\ b * g \in Nat
      BY <1>4, <2>4
    <3>4. QED
      BY <1>3, <2>3, <2>5, <3>1, <3>2, <3>3
  <2>8. h * p <= q * p
    BY <1>6, <2>1, <2>2, <2>4
  <2>9. d * f <= d * (q * p)
    <3>1. q * p \in Nat /\ h * p \in Nat
      BY <1>6, <2>4
    <3>2. f <= q * p
      BY <1>4, <2>7, <2>8, <3>1
    <3>3. QED
      BY <1>4, <3>1, <3>2
  <2>10. d * (q * p) = u * q /\ u * q \in Nat /\ d * f \in Nat
    BY <1>4, <1>5, <1>6
  <2>11. u * q + s <= d * f
    BY <1>6
  <2>12. d * f = u * q /\ s = 0
    BY <1>6, <2>9, <2>10, <2>11
  <2>13. f = q * p
    <3>1. d * f = d * (q * p) /\ q * p \in Nat
      BY <1>6, <2>10, <2>12
    <3>2. f <= q * p /\ q * p <= f
      BY <1>4, <3>1, MulOrder
    <3>3. QED
      BY <1>4, <3>1, <3>2
  <2>14. q \in Nat /\ f = q * p
    BY <1>6, <2>13
  <2>15. QED
    BY <1>2, <1>7, <2>14
<1>10. QED
  BY <1>2, <1>6, <1>8, <1>9

-----------------------------------------------------------------------------
(* Running sums.                                                           *)

Sums(s, m, f) == f = [n \in 0 .. m |-> IF n = 0 THEN 0 ELSE Plus(f[n - 1], s[n])]

LEMMA SumsAt ==
  ASSUME NEW s, NEW m \in Nat, NEW f, Sums(s, m, f)
  PROVE  f[0] = 0 /\ \A n \in 1 .. m : f[n] = Plus(f[n - 1], s[n])
<1> DEFINE body == [n \in 0 .. m |-> IF n = 0 THEN 0 ELSE Plus(f[n - 1], s[n])]
<1>1. f = body
  BY DEF Sums
<1>2. body[0] = 0 /\ \A n \in 1 .. m : body[n] = Plus(f[n - 1], s[n])
  OBVIOUS
<1> HIDE DEF body
<1>3. QED
  BY <1>1, <1>2

LEMMA SumsExist ==
  ASSUME NEW s
  PROVE  \A m \in Nat : \E f : Sums(s, m, f)
<1> DEFINE A == {m \in Nat : \E f : Sums(s, m, f)}
<1>1. 0 \in A
  <2> DEFINE f == [n \in 0 .. 0 |-> 0]
  <2>1. f = [n \in 0 .. 0 |-> IF n = 0 THEN 0 ELSE Plus(f[n - 1], s[n])]
    OBVIOUS
  <2>2. Sums(s, 0, f)
    BY <2>1 DEF Sums
  <2>3. QED
    BY <2>2
<1>2. ASSUME NEW m \in Nat, m \in A  PROVE m + 1 \in A
  <2>1. PICK f : Sums(s, m, f)
    BY <1>2
  <2> DEFINE g == [n \in 0 .. m + 1 |-> IF n = m + 1 THEN Plus(f[m], s[n]) ELSE f[n]]
             body == [n \in 0 .. m + 1 |-> IF n = 0 THEN 0 ELSE Plus(g[n - 1], s[n])]
  <2>2. ASSUME NEW n \in 0 .. m + 1  PROVE g[n] = body[n]
    <3>1. CASE n = m + 1
      <4>1. m \in 0 .. m + 1 /\ m # m + 1 /\ n # 0 /\ n - 1 = m
        BY <3>1
      <4>2. g[m] = f[m] /\ g[n] = Plus(f[m], s[n]) /\ body[n] = Plus(g[m], s[n])
        BY <3>1, <4>1
      <4>3. QED
        BY <4>2
    <3>2. CASE n # m + 1 /\ n # 0
      <4>1. n \in 1 .. m /\ n - 1 \in 0 .. m + 1 /\ n - 1 # m + 1
        BY <3>2
      <4>2. g[n] = f[n] /\ g[n - 1] = f[n - 1] /\ body[n] = Plus(g[n - 1], s[n])
        BY <3>2, <4>1
      <4>3. f[n] = Plus(f[n - 1], s[n])
        BY <2>1, <4>1, SumsAt
      <4>4. QED
        BY <4>2, <4>3
    <3>3. CASE n = 0
      <4>1. g[n] = f[0] /\ body[n] = 0 /\ f[0] = 0
        BY <2>1, <3>3, SumsAt
      <4>2. QED
        BY <4>1
    <3>4. QED
      BY <3>1, <3>2, <3>3
  <2>3. g = body
    BY <2>2
  <2>4. Sums(s, m + 1, g)
    BY <2>3 DEF Sums
  <2>5. QED
    BY <2>4
<1> HIDE DEF A
<1>3. Nat \subseteq A
  BY <1>1, <1>2, Induction
<1>4. QED
  BY <1>3 DEF A

LEMMA TotalsAre ==
  ASSUME NEW s, Len(s) \in Nat
  PROVE  /\ Totals(s)[0] = 0
         /\ \A n \in 1 .. Len(s) : Totals(s)[n] = Plus(Totals(s)[n - 1], s[n])
<1>1. Totals(s) = CHOOSE f : Sums(s, Len(s), f)
  BY DEF Totals, Sums
<1>2. Sums(s, Len(s), Totals(s))
  BY <1>1, SumsExist
<1>3. QED
  BY <1>2, SumsAt

(* Floats that are numbers have a sum that is one.                         *)
LEMMA PlusType ==
  ASSUME NEW a \in Nat, NEW b \in Nat
  PROVE  /\ Plus(a, b) = RoundQ(a + b, 1)
         /\ Plus(a, b) \in Nat /\ IsFloat(Plus(a, b))
<1>1. a + b \in Nat /\ 1 \in Nat \ {0} /\ NaN \notin {a, b}
  BY DEF NaN
<1>2. Plus(a, b) = RoundQ(a + b, 1)
  BY <1>1 DEF Plus
<1>3. QED
  BY <1>1, <1>2, RoundType

LEMMA TotalsType ==
  ASSUME NEW s \in Seq(Nat)
  PROVE  \A n \in 0 .. Len(s) : /\ Totals(s)[n] \in Nat
                                /\ n > 0 => IsFloat(Totals(s)[n])
<1> DEFINE T == Totals(s)
           A == {n \in Nat : n <= Len(s) => T[n] \in Nat /\ (n > 0 => IsFloat(T[n]))}
<1>0. Len(s) \in Nat /\ T[0] = 0 /\ \A n \in 1 .. Len(s) : T[n] = Plus(T[n - 1], s[n])
  BY LenProperties, TotalsAre
<1> HIDE DEF T
<1>1. 0 \in A
  BY <1>0
<1>2. ASSUME NEW n \in Nat, n \in A  PROVE n + 1 \in A
  <2>1. CASE n + 1 <= Len(s)
    <3>1. n + 1 \in 1 .. Len(s) /\ (n + 1) - 1 = n
      BY <1>0, <2>1
    <3>2. T[n] \in Nat /\ s[n + 1] \in Nat /\ T[n + 1] = Plus(T[n], s[n + 1])
      BY <1>0, <1>2, <2>1, <3>1, ElementOfSeq
    <3>3. T[n + 1] \in Nat /\ IsFloat(T[n + 1])
      BY <3>2, PlusType
    <3>4. QED
      BY <3>3
  <2>2. QED
    BY <2>1
<1> HIDE DEF A
<1>3. Nat \subseteq A
  BY <1>1, <1>2, Induction
<1>4. QED
  BY <1>0, <1>3 DEF A, T

(* The sums of a beginning are those of the whole.                         *)
LEMMA TotalsOfPrefix ==
  ASSUME NEW s \in Seq(Nat), NEW k \in 0 .. Len(s)
  PROVE  SumOf(SubSeq(s, 1, k)) = Totals(s)[k]
<1>0. Len(s) \in Nat /\ k \in Nat /\ k <= Len(s)
  BY LenProperties
<1>1. PICK t : t = SubSeq(s, 1, k)
  OBVIOUS
<1>2. Len(t) = k /\ \A n \in 1 .. k : t[n] = s[n]
  BY <1>0, <1>1, SMT
<1> DEFINE S == Totals(s)
           T == Totals(t)
           A == {n \in Nat : n <= k => T[n] = S[n]}
<1>3. T[0] = 0 /\ S[0] = 0 /\ \A n \in 1 .. k : T[n] = Plus(T[n - 1], s[n]) /\ S[n] = Plus(S[n - 1], s[n])
  <2>1. T[0] = 0 /\ \A n \in 1 .. k : T[n] = Plus(T[n - 1], t[n])
    BY <1>0, <1>2, TotalsAre
  <2>2. S[0] = 0 /\ \A n \in 1 .. Len(s) : S[n] = Plus(S[n - 1], s[n])
    BY <1>0, TotalsAre
  <2> HIDE DEF S, T
  <2>3. \A n \in 1 .. k : n \in 1 .. Len(s) /\ t[n] = s[n]
    BY <1>0, <1>2
  <2>4. QED
    BY <2>1, <2>2, <2>3
<1> HIDE DEF S, T
<1>4. 0 \in A
  BY <1>3
<1>5. ASSUME NEW n \in Nat, n \in A  PROVE n + 1 \in A
  <2>1. CASE n + 1 <= k
    <3>1. n + 1 \in 1 .. k /\ (n + 1) - 1 = n /\ n <= k
      BY <1>0, <2>1
    <3>2. T[n + 1] = Plus(T[n], s[n + 1]) /\ S[n + 1] = Plus(S[n], s[n + 1])
      BY <1>3, <3>1
    <3>3. QED
      BY <1>5, <3>1, <3>2
  <2>2. QED
    BY <2>1
<1> HIDE DEF A
<1>6. Nat \subseteq A
  BY <1>4, <1>5, Induction
<1>7. T[k] = S[k]
  BY <1>0, <1>6 DEF A
<1>8. QED
  BY <1>1, <1>2, <1>7 DEF SumOf, S, T

-----------------------------------------------------------------------------
LEMMA KeptRange ==
  ASSUME top_k \in Nat
  PROVE  Kept(Logits) \in 1 .. Logits /\ (top_k > 0 => Kept(Logits) <= top_k)
  BY FormatAssumption DEF Kept

LEMMA CallsAreTyped == CallTypes => top_k \in Nat /\ top_p \in Nat
  BY FormatAssumption DEF CallTypes

LEMMA BijectionIs ==
  ASSUME NEW S, NEW T, NEW f \in Bijection(S, T)
  PROVE  /\ f \in [S -> T] /\ f \in Surjection(S, T)
         /\ \A t \in T : \E x \in S : f[x] = t
<1>1. f \in Surjection(S, T)
  BY Zenon DEF Bijection
<1>2. f \in [S -> T]
  BY <1>1, Zenon DEF Surjection
<1>3. \A t \in T : \E x \in S : f[x] = t
  BY <1>1, Zenon DEF Surjection
<1>4. QED
  BY <1>1, <1>2, <1>3

(* The infinities and NaNs are not finite and differ from each other.      *)
LEMMA SpecialFacts ==
  /\ Levels \subseteq Int
  /\ PlusInf \notin Int /\ MinusInf \notin Int /\ PlusNaN \notin Int /\ MinusNaN \notin Int
  /\ ~Finite(PlusInf) /\ ~Finite(MinusInf) /\ ~Finite(PlusNaN) /\ ~Finite(MinusNaN)
  /\ PlusInf # MinusInf /\ PlusInf # PlusNaN /\ PlusInf # MinusNaN
  /\ MinusInf # PlusNaN /\ MinusInf # MinusNaN /\ PlusNaN # MinusNaN
  BY FormatAssumption DEF Special, Finite

(* > is irreflexive, and what is at most a value is not above it.          *)
LEMMA NotAboveItself ==
  ASSUME NEW a
  PROVE  ~Above(a, a)
<1>1. Finite(a) => ~(a > a)
  <2>1. Finite(a) => a \in Int
    BY SpecialFacts DEF Finite
  <2>2. QED
    BY <2>1
<1>2. QED
  BY <1>1, SpecialFacts DEF Above

LEMMA AboveIsAsymmetric ==
  ASSUME NEW a, NEW b, Above(a, b)
  PROVE  ~Above(b, a)
<1>1. CASE Finite(a) /\ Finite(b) /\ a > b
  <2>1. a \in Int /\ b \in Int
    BY <1>1, SpecialFacts DEF Finite
  <2>2. ~(b > a)
    BY <1>1, <2>1
  <2>3. QED
    BY <1>1, <2>2, SpecialFacts DEF Above
<1>2. CASE a = PlusInf
  BY <1>2, SpecialFacts DEF Above
<1>3. CASE b = MinusInf
  BY <1>3, SpecialFacts DEF Above
<1>4. QED
  BY <1>1, <1>2, <1>3 DEF Above

LEMMA AtLeastIsNotBelow ==
  ASSUME NEW a, NEW b, AtLeast(a, b)
  PROVE  ~Above(b, a)
<1>1. CASE a = PlusNaN
  BY <1>1, SpecialFacts DEF Above
<1>2. CASE b = MinusNaN
  BY <1>2, SpecialFacts DEF Above
<1>3. QED
  BY <1>1, <1>2 DEF AtLeast

LEMMA CandidatesAre ==
  ASSUME SampleInv, ~greedy, drawing # "sort"
  PROVE  /\ Kept(Logits) \in 1 .. Logits /\ Len(candidates) = Kept(Logits)
         /\ DOMAIN candidates = 1 .. Kept(Logits)
         /\ \A x \in 1 .. Kept(Logits) : candidates[x] \in 1 .. Logits
         /\ \A t \in 1 .. Logits : \/ t = candidates[1]
                                  \/ AtLeast(logits[candidates[1]], logits[t])
<1>1. PICK order \in Bijection(1 .. Logits, 1 .. Logits) :
        Sorted(order) /\ candidates = [x \in 1 .. Kept(Logits) |-> order[x]]
  BY DEF SampleInv, CandidatesInv
<1>2. Kept(Logits) \in 1 .. Logits /\ Logits \in Nat \ {0}
  BY CallsAreTyped, KeptRange, FormatAssumption DEF SampleInv
<1>3. order \in [1 .. Logits -> 1 .. Logits] /\ \A t \in 1 .. Logits : \E x \in 1 .. Logits : order[x] = t
  BY BijectionIs
<1>4. DOMAIN candidates = 1 .. Kept(Logits) /\ \A x \in 1 .. Kept(Logits) : candidates[x] = order[x]
  BY <1>1
<1>5. Len(candidates) = Kept(Logits)
  BY <1>1, <1>2
<1>6. ASSUME NEW x \in 1 .. Kept(Logits)  PROVE candidates[x] \in 1 .. Logits
  <2>1. x \in 1 .. Logits
    BY <1>2
  <2>2. QED
    BY <1>3, <1>4, <2>1
<1>7. ASSUME NEW t \in 1 .. Logits, t # candidates[1]
      PROVE  AtLeast(logits[candidates[1]], logits[t])
  <2>1. PICK x \in 1 .. Logits : order[x] = t
    BY <1>3
  <2>2. 1 \in 1 .. Logits /\ candidates[1] = order[1]
    BY <1>2, <1>4
  <2>3. 1 < x
    BY <1>7, <2>1, <2>2
  <2>4. QED
    BY <1>1, <2>1, <2>2, <2>3 DEF Sorted
<1>8. QED
  BY <1>2, <1>4, <1>5, <1>6, <1>7

LEMMA NoneAboveFirst ==
  ASSUME SampleInv, ~greedy, drawing # "sort"
  PROVE  candidates[1] \in 1 .. Logits /\ Better(candidates[1]) = {}
<1>1. candidates[1] \in 1 .. Logits
  BY CandidatesAre
<1>2. \A t \in 1 .. Logits : ~Above(logits[t], logits[candidates[1]])
  BY CandidatesAre, AtLeastIsNotBelow, NotAboveItself
<1>3. QED
  BY <1>1, <1>2 DEF Better

(* With a softmax every weight is a float, and the first is 1.0.           *)
LEMMA DefinedWeights ==
  ASSUME SampleInv, ~greedy, drawing # "sort", ~Undefined
  PROVE  /\ Finite(logits[candidates[1]])
         /\ Weight(candidates[1]) = One
         /\ \A x \in 1 .. Kept(Logits) :
              /\ Weight(candidates[x]) \in Nat
              /\ Weight(candidates[x]) = exp[Away(logits[candidates[x]], logits[candidates[1]])]
<1>1. PICK best : best = logits[candidates[1]]
  OBVIOUS
<1>2. /\ Finite(best) /\ best \in Int
      /\ \A x \in 1 .. Kept(Logits) : /\ logits[candidates[x]] # MinusNaN
                                     /\ exp[Away(logits[candidates[x]], best)] # NaN
  BY <1>1, CandidatesAre, SpecialFacts DEF Undefined, Finite
<1>3. exp \in [Reach -> Nat \union {NaN}] /\ exp[0] \in {One, NaN} /\ One \in Nat
  BY FormatAssumption DEF SampleInv, CallTypes
<1>4. ASSUME NEW x \in 1 .. Kept(Logits), NEW l, l = logits[candidates[x]]
      PROVE  Away(l, best) # NaN /\ Away(l, best) \in Reach
  <2>1. candidates[x] \in 1 .. Logits
    BY CandidatesAre
  <2>2. l \in Levels \union Special /\ l # MinusNaN
    BY <1>2, <1>4, <2>1 DEF SampleInv, CallTypes
  <2>3. l = best \/ AtLeast(best, l)
    BY <1>1, <1>4, <2>1, CandidatesAre
  <2>4. ~Above(l, best)
    BY <2>3, AtLeastIsNotBelow, NotAboveItself
  <2>5. l # PlusNaN
    BY <1>2, <2>3, SpecialFacts DEF AtLeast, Number
  <2>6. l # PlusInf
    BY <1>2, <2>4 DEF Above
  <2>7. CASE l \in Levels
    <3>1. l \in Int /\ ~(l > best) /\ best \in Levels
      BY <1>2, <2>4, <2>7, SpecialFacts DEF Above, Finite
    <3>2. Away(l, best) = best - l
      BY <2>7, <3>1 DEF Away, Finite
    <3>3. best - l \in Nat
      BY <1>2, <3>1
    <3>4. PICK d : d = best - l
      OBVIOUS
    <3>5. d \in {x1 - x2 : x1, x2 \in Levels}
      BY <2>7, <3>1, <3>4
    <3>6. QED
      BY <3>2, <3>3, <3>4, <3>5 DEF Reach, Distances, NaN
  <2>8. CASE l = MinusInf
    <3>1. Number(l) /\ Number(best) /\ l # best /\ ~Finite(l)
      BY <1>2, <2>8, SpecialFacts DEF Number
    <3>2. Away(l, best) = PlusInf
      BY <3>1 DEF Away
    <3>3. QED
      BY <3>2, SpecialFacts DEF Reach, NaN
  <2>9. QED
    BY <2>2, <2>5, <2>6, <2>7, <2>8 DEF Special
<1>5. ASSUME NEW x \in 1 .. Kept(Logits)
      PROVE  /\ Weight(candidates[x]) \in Nat
             /\ Weight(candidates[x]) = exp[Away(logits[candidates[x]], best)]
  <2>1. PICK d : d = Away(logits[candidates[x]], best)
    OBVIOUS
  <2>2. d # NaN /\ d \in Reach
    BY <1>4, <2>1
  <2>3. exp[d] # NaN
    BY <1>2, <2>1
  <2>4. Weight(candidates[x]) = exp[d]
    BY <1>1, <2>1, <2>2 DEF Weight
  <2>5. QED
    BY <1>3, <2>1, <2>2, <2>3, <2>4
<1>6. Weight(candidates[1]) = One
  <2>1. 1 \in 1 .. Kept(Logits)
    BY CandidatesAre
  <2>2. Away(best, best) = 0
    BY <1>2 DEF Away
  <2>3. exp[0] # NaN
    BY <1>1, <1>2, <2>1, <2>2
  <2>4. QED
    BY <1>1, <1>3, <1>5, <2>1, <2>2, <2>3
<1>7. QED
  BY <1>1, <1>2, <1>5, <1>6

(* Without one, some weight is a NaN.                                      *)
LEMMA UndefinedWeight ==
  ASSUME SampleInv, ~greedy, drawing # "sort", Undefined
  PROVE  \E x \in 1 .. Kept(Logits) : Weight(candidates[x]) = NaN
<1>1. PICK best : best = logits[candidates[1]]
  OBVIOUS
<1>2. CASE ~Finite(best)
  <2>1. 1 \in 1 .. Kept(Logits)
    BY CandidatesAre
  <2>2. Away(best, best) = NaN
    BY <1>2 DEF Away
  <2>3. Weight(candidates[1]) = NaN
    BY <1>1, <2>2 DEF Weight
  <2>4. QED
    BY <2>1, <2>3
<1>3. CASE Finite(best)
  <2>1. PICK x \in 1 .. Kept(Logits) : \/ logits[candidates[x]] = MinusNaN
                                       \/ exp[Away(logits[candidates[x]], best)] = NaN
    BY <1>1, <1>3, CandidatesAre DEF Undefined
  <2>2. CASE logits[candidates[x]] = MinusNaN
    <3>1. Away(logits[candidates[x]], best) = NaN
      BY <2>2, SpecialFacts DEF Away, Number
    <3>2. QED
      BY <1>1, <3>1 DEF Weight
  <2>3. CASE exp[Away(logits[candidates[x]], best)] = NaN
    BY <1>1, <2>3 DEF Weight
  <2>4. QED
    BY <2>1, <2>2, <2>3
<1>4. QED
  BY <1>2, <1>3

(* A sum with a NaN in it is a NaN.                                        *)
LEMMA SumWithNaN ==
  ASSUME NEW s, Len(s) \in Nat, NEW x \in 1 .. Len(s), s[x] = NaN
  PROVE  SumOf(s) = NaN
<1> DEFINE T == Totals(s)
           A == {n \in Nat : x <= n /\ n <= Len(s) => T[n] = NaN}
<1>0. \A n \in 1 .. Len(s) : T[n] = Plus(T[n - 1], s[n])
  BY TotalsAre
<1> HIDE DEF T
<1>1. 0 \in A
  OBVIOUS
<1>2. ASSUME NEW n \in Nat, n \in A  PROVE n + 1 \in A
  <2>1. CASE x <= n + 1 /\ n + 1 <= Len(s)
    <3>1. n + 1 \in 1 .. Len(s) /\ (n + 1) - 1 = n /\ n <= Len(s)
      BY <2>1
    <3>2. T[n + 1] = Plus(T[n], s[n + 1])
      BY <1>0, <3>1
    <3>3. T[n] = NaN \/ s[n + 1] = NaN
      BY <1>2, <2>1, <3>1
    <3>4. QED
      BY <3>2, <3>3 DEF Plus
  <2>2. QED
    BY <2>1
<1> HIDE DEF A
<1>3. Nat \subseteq A
  BY <1>1, <1>2, Induction
<1>4. T[Len(s)] = NaN
  BY <1>3 DEF A
<1>5. QED
  BY <1>4 DEF SumOf, T

(* A token's probability is a float, and zero if its weight is.            *)
LEMMA RatioType ==
  ASSUME NEW a \in Nat, NEW b \in Nat \ {0}
  PROVE  Ratio(a, b) \in Nat /\ (a = 0 => Ratio(a, b) = 0)
<1>1. a * One \in Nat /\ NaN \notin {a, b} /\ (a = 0 => a * One = 0)
  BY FormatAssumption DEF NaN
<1>2. Ratio(a, b) = RoundQ(a * One, b)
  BY <1>1 DEF Ratio
<1>3. Ratio(a, b) \in Nat
  BY <1>1, <1>2, RoundType
<1>4. ASSUME a = 0  PROVE Ratio(a, b) = 0
  <2>1. 0 \in 0 .. Pow[Bits] /\ 0 \in Nat /\ Pow[0] = 1
    BY PowIs, PowType, FormatAssumption
  <2>2. 0 = 0 * Pow[0]
    BY <2>1
  <2>3. IsFloat(0)
    BY <2>1, <2>2 DEF IsFloat
  <2>4. RoundQ(0, b) <= 0
    BY <2>3, RoundBelow
  <2>5. QED
    BY <1>1, <1>2, <1>3, <1>4, <2>4
<1>5. QED
  BY <1>3, <1>4

LEMMA RoundPositive ==
  ASSUME NEW n \in Nat \ {0}
  PROVE  RoundQ(n, 1) # 0
<1>1. PICK e, p, q, s : Rounded(n, 1, RoundQ(n, 1), e, p, q, s)
  BY RoundIs
<1>2. PICK f : f = RoundQ(n, 1)
  OBVIOUS
<1>3. /\ e \in Nat /\ p \in Nat \ {0} /\ q \in Nat /\ s \in Nat
      /\ p = Pow[e] /\ n = p * q + s /\ s < p
      /\ f = q * p \/ f = (q + 1) * p
      /\ e > 0 => q >= Pow[Bits - 1]
  BY <1>1, <1>2 DEF Rounded
<1>4. q # 0
  <2>1. CASE e = 0
    <3>1. p = 1
      BY <1>3, <2>1, PowIs
    <3>2. QED
      BY <1>3, <3>1
  <2>2. CASE e # 0
    <3>1. Bits - 1 \in Nat
      BY FormatAssumption
    <3>2. Pow[Bits - 1] \in Nat \ {0}
      BY <3>1, PowType
    <3>3. QED
      BY <1>3, <2>2, <3>2
  <2>3. QED
    BY <2>1, <2>2
<1>5. q * p # 0 /\ (q + 1) * p # 0
  BY <1>3, <1>4
<1>6. QED
  BY <1>2, <1>3, <1>5

LEMMA TotalPositive ==
  ASSUME NEW s \in Seq(Nat), Len(s) > 0, s[1] # 0
  PROVE  \A n \in 1 .. Len(s) : Totals(s)[n] # 0
<1> DEFINE T == Totals(s)
           A == {n \in Nat : 0 < n /\ n <= Len(s) => T[n] # 0}
<1>0. Len(s) \in Nat /\ T[0] = 0 /\ (\A n \in 1 .. Len(s) : T[n] = Plus(T[n - 1], s[n]))
      /\ \A n \in 0 .. Len(s) : T[n] \in Nat
  BY LenProperties, TotalsAre, TotalsType
<1> HIDE DEF T
<1>1. 0 \in A
  OBVIOUS
<1>2. ASSUME NEW n \in Nat, n \in A  PROVE n + 1 \in A
  <2>1. CASE n + 1 <= Len(s)
    <3>1. n + 1 \in 1 .. Len(s) /\ (n + 1) - 1 = n /\ n \in 0 .. Len(s)
      BY <1>0, <2>1
    <3>2. T[n] \in Nat /\ s[n + 1] \in Nat /\ T[n + 1] = Plus(T[n], s[n + 1])
      BY <1>0, <3>1, ElementOfSeq
    <3>3. T[n] + s[n + 1] \in Nat \ {0}
      <4>1. CASE n = 0
        BY <3>2, <4>1
      <4>2. CASE n # 0
        BY <1>0, <1>2, <3>1, <3>2, <4>2
      <4>3. QED
        BY <4>1, <4>2
    <3>4. T[n + 1] # 0
      BY <3>2, <3>3, PlusType, RoundPositive
    <3>5. QED
      BY <3>4
  <2>2. QED
    BY <2>1
<1> HIDE DEF A
<1>3. Nat \subseteq A
  BY <1>1, <1>2, Induction
<1>4. QED
  BY <1>0, <1>3 DEF A, T

-----------------------------------------------------------------------------
(* The invariant is inductive.                                             *)

LEMMA SampleInitially == SampleInit => SampleInv
  BY DEF SampleInit, SampleInv, CallTypes, GreedyInv, CandidatesInv, Beginning, Drawing

LEMMA CallStays ==
  ASSUME SampleInv, UNCHANGED call
  PROVE  CallTypes' /\ (Kept(Logits)' = Kept(Logits))
  BY DEF SampleInv, CallTypes, call, Kept

LEMMA WeightsStay ==
  ASSUME UNCHANGED <<call, candidates>>
  PROVE  /\ Undefined' <=> Undefined
         /\ \A x : Weight(candidates[x])' = Weight(candidates[x])
<1>1. logits' = logits /\ exp' = exp /\ candidates' = candidates
  BY DEF call
<1>2. QED
  BY <1>1 DEF Undefined, Weight, Finite

LEMMA GreedyStep == SampleInv /\ Greedy => SampleInv'
<1> SUFFICES ASSUME SampleInv, Greedy  PROVE SampleInv'
  OBVIOUS
<1>1. CallTypes' /\ greedy' /\ drawing' = "done" /\ ~fallback'
  BY CallStays DEF Greedy, SampleInv, Beginning, call
<1>2. GreedyInv'
  BY DEF Greedy, GreedyInv, Argmax, call
<1>3. QED
  BY <1>1, <1>2 DEF SampleInv, CandidatesInv, Beginning, Drawing

LEMMA SortStep == SampleInv /\ SortAndTruncate => SampleInv'
<1> SUFFICES ASSUME SampleInv, SortAndTruncate  PROVE SampleInv'
  OBVIOUS
<1>1. /\ CallTypes' /\ ~greedy' /\ drawing' = "softmax" /\ ~fallback' /\ turn' = 1 /\ cum' = 0
      /\ logits' = logits /\ Kept(Logits)' = Kept(Logits)
  BY CallStays DEF SortAndTruncate, SampleInv, Beginning, call
<1>2. \E order \in Bijection(1 .. Logits, 1 .. Logits) :
        Sorted(order) /\ candidates' = [x \in 1 .. Kept(Logits) |-> order[x]]
  BY DEF SortAndTruncate, Sorted
<1>3. CandidatesInv'
  BY <1>1, <1>2 DEF CandidatesInv, Sorted
<1>4. QED
  BY <1>1, <1>3 DEF SampleInv, GreedyInv, Beginning, Drawing

LEMMA CandidatesStay ==
  ASSUME SampleInv, UNCHANGED <<call, candidates>>, drawing # "sort"
  PROVE  CandidatesInv'
<1>1. logits' = logits /\ greedy' = greedy /\ candidates' = candidates /\ Kept(Logits)' = Kept(Logits)
  BY CallStays DEF call
<1>2. QED
  BY <1>1 DEF SampleInv, CandidatesInv, Sorted

LEMMA SoftmaxStep == SampleInv /\ Softmax => SampleInv'
<1> SUFFICES ASSUME SampleInv, Softmax  PROVE SampleInv'
  OBVIOUS
<1>1. /\ CallTypes' /\ ~greedy /\ ~greedy' /\ drawing' \in {"nucleus", "draw"} /\ ~fallback' /\ turn' = 1 /\ cum' = 0
      /\ logits' = logits /\ exp' = exp /\ top_p' = top_p /\ candidates' = candidates
      /\ Kept(Logits)' = Kept(Logits) /\ drawing = "softmax"
  BY CallStays DEF Softmax, SampleInv, Beginning, GreedyInv, call
<1>1a. (Undefined' <=> Undefined) /\ \A x : Weight(candidates[x])' = Weight(candidates[x])
  BY WeightsStay DEF Softmax
<1>2. CandidatesInv'
  BY CandidatesStay DEF Softmax
<1>3. GreedyInv' /\ Beginning'
  BY <1>1 DEF GreedyInv, Beginning
<1> DEFINE weights == [x \in DOMAIN candidates |-> Weight(candidates[x])]
<1>4. /\ Kept(Logits) \in 1 .. Logits /\ Logits \in Nat /\ Len(candidates) = Kept(Logits)
      /\ DOMAIN candidates = 1 .. Kept(Logits)
  BY <1>1, CandidatesAre, FormatAssumption
<1>5. weights = [x \in 1 .. Kept(Logits) |-> Weight(candidates[x])]
  BY <1>4
<1>6. probs' = [x \in DOMAIN weights |-> Ratio(weights[x], SumOf(weights))] /\ cutoff' = Kept(Logits)
  BY <1>4 DEF Softmax
<1> HIDE DEF weights
<1>7. /\ DOMAIN weights = 1 .. Kept(Logits) /\ Len(weights) = Kept(Logits)
      /\ \A x \in 1 .. Kept(Logits) : weights[x] = Weight(candidates[x])
  BY <1>4, <1>5
<1>8. turn' - 1 = 0 /\ turn' \in 1 .. cutoff'
  BY <1>1, <1>4, <1>6
<1>9. ASSUME ~Undefined  PROVE ProbsInv' /\ LoopInv' /\ DrawnInv'
  <2>1. weights[1] = One /\ \A x \in 1 .. Kept(Logits) : weights[x] \in Nat
    BY <1>1, <1>4, <1>7, <1>9, DefinedWeights
  <2>2. weights \in Seq(Nat) /\ One \in Nat \ {0}
    <3>1. weights = [x \in 1 .. Kept(Logits) |-> weights[x]]
      BY <1>5, <1>7
    <3>2. weights \in [1 .. Kept(Logits) -> Nat]
      BY <2>1, <3>1
    <3>3. QED
      BY <1>4, <3>2, FormatAssumption
  <2>3. SumOf(weights) \in Nat \ {0}
    <3>1. Len(weights) \in 1 .. Len(weights) /\ Len(weights) > 0 /\ weights[1] # 0
      BY <1>4, <1>7, <2>1, <2>2
    <3>2. Totals(weights)[Len(weights)] # 0 /\ Totals(weights)[Len(weights)] \in Nat
      BY <2>2, <3>1, TotalPositive, TotalsType
    <3>3. QED
      BY <3>2 DEF SumOf
  <2>4. ASSUME NEW x \in 1 .. Kept(Logits)
        PROVE  /\ probs'[x] \in Nat
               /\ probs'[x] # 0 => Weight(candidates[x]) # 0
    <3>1. weights[x] \in Nat /\ probs'[x] = Ratio(weights[x], SumOf(weights))
      BY <1>6, <1>7, <2>1
    <3>2. QED
      BY <1>7, <2>3, <3>1, RatioType
  <2>5. probs' = [x \in 1 .. Kept(Logits) |-> probs'[x]]
    BY <1>6, <1>7
  <2>6. ProbsInv'
    BY <1>1, <1>1a, <2>4, <2>5 DEF ProbsInv
  <2>7. ShortOf(0)'
    BY DEF ShortOf
  <2>8. (drawing' = "draw") => ShortOf(cutoff - 1)'
    <3>1. drawing' = "draw" => ~(top_p < One)
      BY DEF Softmax
    <3>2. QED
      BY <1>1, <3>1 DEF ShortOf
  <2>9. cum' = Totals(probs')[0]
    <3>1. probs' \in Seq(Nat) /\ Len(probs') \in Nat
      BY <1>4, <2>4, <2>5
    <3>2. QED
      BY <1>1, <3>1, TotalsAre
  <2>10. LoopInv'
    BY <1>1, <1>4, <1>6, <1>8, <2>7, <2>8, <2>9 DEF LoopInv
  <2>11. QED
    BY <1>1, <2>6, <2>10 DEF DrawnInv
<1>10. ASSUME Undefined  PROVE NaNInv'
  <2>1. PICK x \in 1 .. Len(weights) : weights[x] = NaN
    BY <1>1, <1>7, <1>10, UndefinedWeight
  <2>2. SumOf(weights) = NaN
    BY <1>4, <1>7, <2>1, SumWithNaN
  <2>3. \A y : Ratio(weights[y], SumOf(weights)) = NaN
    BY <2>2 DEF Ratio
  <2>4. probs' = [y \in 1 .. Kept(Logits) |-> NaN]
    BY <1>6, <1>7, <2>3
  <2>5. QED
    BY <1>1, <1>6, <1>8, <2>4 DEF NaNInv
<1>11. QED
  BY <1>1, <1>1a, <1>2, <1>3, <1>9, <1>10 DEF SampleInv

LEMMA LoopFacts ==
  ASSUME SampleInv, ~Undefined, ~greedy, drawing \in {"nucleus", "draw", "walk"}
  PROVE  /\ ~fallback /\ ProbsInv /\ LoopInv
         /\ Kept(Logits) \in 1 .. Logits
         /\ probs \in Seq(Nat) /\ Len(probs) = Kept(Logits)
         /\ top_p \in Nat
         /\ Totals(probs)[0] = 0
         /\ \A n \in 1 .. Kept(Logits) :
              /\ Totals(probs)[n] = Plus(Totals(probs)[n - 1], probs[n])
              /\ IsFloat(Totals(probs)[n]) /\ probs[n] \in Nat
         /\ \A n \in 0 .. Kept(Logits) : Totals(probs)[n] \in Nat
<1>1. ~fallback /\ ProbsInv /\ LoopInv /\ CallTypes
  BY DEF SampleInv, Drawing
<1>2. Kept(Logits) \in 1 .. Logits /\ top_p \in Nat /\ Kept(Logits) \in Nat
  BY <1>1, CallsAreTyped, KeptRange, FormatAssumption
<1>3. probs \in [1 .. Kept(Logits) -> Nat]
  BY <1>1 DEF ProbsInv
<1>4. probs \in Seq(Nat) /\ Len(probs) = Kept(Logits)
  BY <1>2, <1>3
<1>5. /\ Totals(probs)[0] = 0
      /\ \A n \in 1 .. Len(probs) : Totals(probs)[n] = Plus(Totals(probs)[n - 1], probs[n])
      /\ \A n \in 0 .. Len(probs) : Totals(probs)[n] \in Nat /\ (n > 0 => IsFloat(Totals(probs)[n]))
  BY <1>2, <1>4, TotalsAre, TotalsType
<1>6. QED
  BY <1>1, <1>2, <1>3, <1>4, <1>5

(* The same of a call without a softmax.                                   *)
LEMMA NaNFacts ==
  ASSUME SampleInv, Undefined, ~greedy, drawing \in {"nucleus", "draw", "walk"}
  PROVE  /\ NaNInv /\ ~fallback /\ Kept(Logits) \in 1 .. Logits /\ Logits \in Nat
         /\ probs \in Seq({NaN}) /\ Len(probs) = Kept(Logits)
         /\ \A c : \A n \in 1 .. Kept(Logits) : Plus(c, probs[n]) = NaN
         /\ turn \in 1 .. Kept(Logits) /\ cutoff = Kept(Logits)
<1>1. NaNInv /\ ~fallback
  BY DEF SampleInv, Drawing, NaNInv
<1>2. Kept(Logits) \in 1 .. Logits /\ Logits \in Nat
  BY CandidatesAre, FormatAssumption
<1>3. probs \in Seq({NaN}) /\ Len(probs) = Kept(Logits)
  BY <1>1, <1>2 DEF NaNInv
<1>4. \A n \in 1 .. Kept(Logits) : probs[n] = NaN
  BY <1>1 DEF NaNInv
<1>5. \A c : \A n \in 1 .. Kept(Logits) : Plus(c, probs[n]) = NaN
  BY <1>4 DEF Plus
<1>6. turn \in 1 .. Kept(Logits) /\ cutoff = Kept(Logits)
  BY <1>1 DEF NaNInv
<1>7. QED
  BY <1>1, <1>2, <1>3, <1>5, <1>6

LEMMA NucleusStep == SampleInv /\ Nucleus => SampleInv'
<1> SUFFICES ASSUME SampleInv, Nucleus  PROVE SampleInv'
  OBVIOUS
<1>1. /\ CallTypes' /\ ~greedy /\ ~greedy' /\ drawing = "nucleus" /\ drawing' \in {"nucleus", "draw"}
      /\ logits' = logits /\ exp' = exp /\ top_p' = top_p /\ candidates' = candidates /\ probs' = probs
      /\ fallback' = fallback
      /\ Kept(Logits)' = Kept(Logits)
      /\ (Undefined' <=> Undefined) /\ \A x : Weight(candidates[x])' = Weight(candidates[x])
  BY CallStays, WeightsStay DEF Nucleus, SampleInv, GreedyInv, call
<1>2. CandidatesInv'
  BY <1>1, CandidatesStay DEF Nucleus
<1>3. GreedyInv' /\ Beginning'
  BY <1>1 DEF GreedyInv, Beginning
<1>4. ASSUME ~Undefined  PROVE ~fallback' /\ ProbsInv' /\ LoopInv' /\ DrawnInv'
  <2>1. /\ ~fallback /\ ProbsInv /\ LoopInv
        /\ Kept(Logits) \in 1 .. Logits
        /\ probs \in Seq(Nat) /\ Len(probs) = Kept(Logits)
        /\ top_p \in Nat
        /\ Totals(probs)[0] = 0
        /\ \A n \in 1 .. Kept(Logits) :
             /\ Totals(probs)[n] = Plus(Totals(probs)[n - 1], probs[n])
             /\ IsFloat(Totals(probs)[n]) /\ probs[n] \in Nat
        /\ \A n \in 0 .. Kept(Logits) : Totals(probs)[n] \in Nat
    BY <1>1, <1>4, LoopFacts
  <2> DEFINE c == Plus(cum, probs[turn])
             ends == Reached(c) \/ turn = Len(probs)
  <2>2. /\ cutoff' = IF Reached(c) THEN turn ELSE cutoff
        /\ cum' = IF ends THEN 0 ELSE c
        /\ turn' = IF ends THEN 1 ELSE turn + 1
        /\ drawing' = IF ends THEN "draw" ELSE "nucleus"
    BY DEF Nucleus
  <2>3. cutoff = Kept(Logits) /\ turn \in 1 .. Kept(Logits) /\ cum = Totals(probs)[turn - 1] /\ ShortOf(turn - 1)
    BY <1>1, <2>1 DEF LoopInv
  <2>4. c = Totals(probs)[turn] /\ c \in Nat /\ turn \in 0 .. Kept(Logits)
    BY <2>1, <2>3
  <2> HIDE DEF c
  <2>5. Reached(c) <=> c >= top_p
    BY <2>1, <2>4 DEF Reached, NaN
  <2>6. ProbsInv'
    BY <1>1, <2>1 DEF ProbsInv
  <2>7. ASSUME ~Reached(c)  PROVE ShortOf(turn)
    <3>1. \A x \in 1 .. turn : x = turn \/ x \in 1 .. (turn - 1)
      BY <2>3
    <3>2. top_p < One => c < top_p
      BY <2>1, <2>4, <2>5, <2>7
    <3>3. QED
      BY <2>3, <2>4, <3>1, <3>2 DEF ShortOf
  <2>8. CASE ~ends
    <3>1. turn' = turn + 1 /\ cutoff' = cutoff /\ drawing' = "nucleus" /\ cum' = c /\ ~Reached(c) /\ turn # Len(probs)
      BY <2>2, <2>8
    <3>2. turn' - 1 = turn /\ turn' \in 1 .. Kept(Logits)
      BY <2>1, <2>3, <3>1
    <3>3. ShortOf(turn - 1)'
      BY <1>1, <2>7, <3>1, <3>2 DEF ShortOf
    <3>4. cum' = Totals(probs')[turn' - 1]
      BY <1>1, <2>4, <3>1, <3>2
    <3>5. QED
      BY <1>1, <2>1, <2>3, <2>6, <3>1, <3>2, <3>3, <3>4 DEF LoopInv, DrawnInv
  <2>9. CASE ends
    <3>1. turn' = 1 /\ drawing' = "draw" /\ cum' = 0 /\ cutoff' = turn
      BY <2>1, <2>2, <2>3, <2>9
    <3>2. ShortOf(cutoff - 1)'
      BY <1>1, <2>3, <3>1 DEF ShortOf
    <3>3. QED
      BY <1>1, <2>1, <2>3, <2>6, <3>1, <3>2 DEF LoopInv, DrawnInv
  <2>10. QED
    BY <2>8, <2>9
<1>5. ASSUME Undefined  PROVE NaNInv'
  <2>1. /\ NaNInv /\ ~fallback /\ Kept(Logits) \in 1 .. Logits /\ Logits \in Nat /\ Len(probs) = Kept(Logits)
        /\ Plus(cum, probs[turn]) = NaN /\ turn \in 1 .. Kept(Logits) /\ cutoff = Kept(Logits)
    BY <1>1, <1>5, NaNFacts
  <2>2. ~Reached(Plus(cum, probs[turn]))
    BY <2>1 DEF Reached
  <2>3. cutoff' = cutoff /\ turn' \in {1, turn + 1} /\ (turn = Kept(Logits) => turn' = 1)
    BY <2>1, <2>2 DEF Nucleus
  <2>4. turn' \in 1 .. cutoff'
    BY <2>1, <2>3
  <2>5. QED
    BY <1>1, <2>1, <2>3, <2>4 DEF NaNInv
<1>6. QED
  BY <1>1, <1>2, <1>3, <1>4, <1>5 DEF SampleInv

LEMMA DrawStep == SampleInv /\ Draw => SampleInv'
<1> SUFFICES ASSUME SampleInv, Draw  PROVE SampleInv'
  OBVIOUS
<1>1. /\ CallTypes' /\ ~greedy /\ ~greedy' /\ drawing = "draw" /\ drawing' = "walk"
      /\ logits' = logits /\ exp' = exp /\ top_p' = top_p /\ candidates' = candidates /\ probs' = probs
      /\ fallback' = fallback /\ turn' = turn /\ cum' = cum /\ cutoff' = cutoff
      /\ Kept(Logits)' = Kept(Logits)
      /\ (Undefined' <=> Undefined) /\ \A x : Weight(candidates[x])' = Weight(candidates[x])
  BY CallStays, WeightsStay DEF Draw, SampleInv, GreedyInv, call
<1>2. CandidatesInv'
  BY <1>1, CandidatesStay DEF Draw
<1>3. GreedyInv' /\ Beginning'
  BY <1>1 DEF GreedyInv, Beginning
<1>4. ASSUME ~Undefined  PROVE ~fallback' /\ ProbsInv' /\ LoopInv' /\ DrawnInv'
  <2>1. /\ ~fallback /\ ProbsInv /\ LoopInv
        /\ Kept(Logits) \in 1 .. Logits
        /\ probs \in Seq(Nat) /\ Len(probs) = Kept(Logits)
        /\ Totals(probs)[0] = 0
        /\ \A n \in 1 .. Kept(Logits) : IsFloat(Totals(probs)[n])
        /\ \A n \in 0 .. Kept(Logits) : Totals(probs)[n] \in Nat
    BY <1>1, <1>4, LoopFacts
  <2>2. cutoff \in 1 .. Kept(Logits) /\ cutoff \in 0 .. Len(probs) /\ turn = 1 /\ cum = 0 /\ ShortOf(cutoff - 1)
    BY <1>1, <2>1 DEF LoopInv
  <2>3. PICK total : total = NucleusSum
    OBVIOUS
  <2>4. total = Totals(probs)[cutoff]
    BY <2>1, <2>2, <2>3, TotalsOfPrefix DEF NucleusSum
  <2>5. total \in Nat /\ IsFloat(total) /\ total # NaN
    BY <2>1, <2>2, <2>4 DEF NaN
  <2>6. PICK u \in 0 .. (Grid - 1) : drawn' = RoundQ(u * total, Grid)
    BY <2>3, <2>5 DEF Draw
  <2>7. Grid \in Nat \ {0} /\ u \in Nat /\ u <= Grid
    <3>1. Grid \in Nat \ {0}
      BY PowType, FormatAssumption DEF Grid
    <3>2. QED
      BY <2>6, <3>1
  <2>8. u * total \in Nat /\ u * total <= Grid * total
    BY <2>5, <2>7
  <2>9. drawn' \in Nat /\ drawn' <= total
    BY <2>5, <2>6, <2>7, <2>8, RoundType, RoundBelow
  <2>10. drawn' \in 0 .. total
    BY <2>5, <2>9
  <2>11. ShortOf(cutoff - 1)'
    BY <1>1, <2>2 DEF ShortOf
  <2>12. ProbsInv'
    BY <1>1, <2>1 DEF ProbsInv
  <2>13. cum' = Totals(probs')[turn' - 1]
    BY <1>1, <2>1, <2>2
  <2>14. LoopInv'
    BY <1>1, <2>1, <2>2, <2>4, <2>10, <2>11, <2>13 DEF LoopInv
  <2>15. QED
    BY <1>1, <2>1, <2>12, <2>14 DEF DrawnInv
<1>5. ASSUME Undefined  PROVE NaNInv'
  <2>1. /\ NaNInv /\ ~fallback /\ Kept(Logits) \in 1 .. Logits /\ Logits \in Nat
        /\ probs \in Seq({NaN}) /\ Len(probs) = Kept(Logits) /\ cutoff = Kept(Logits)
    BY <1>1, <1>5, NaNFacts
  <2>2. PICK t : t = SubSeq(probs, 1, cutoff)
    OBVIOUS
  <2>3. Len(t) = Kept(Logits) /\ t[Kept(Logits)] = probs[Kept(Logits)]
    BY <2>1, <2>2
  <2>4. Kept(Logits) \in 1 .. Len(t) /\ Len(t) \in Nat /\ t[Kept(Logits)] = NaN
    BY <2>1, <2>3 DEF NaNInv
  <2>5. NucleusSum = NaN
    BY <2>2, <2>4, SumWithNaN DEF NucleusSum
  <2>6. drawn' = NaN
    BY <2>5 DEF Draw
  <2>7. QED
    BY <1>1, <2>1, <2>6 DEF NaNInv
<1>6. QED
  BY <1>1, <1>2, <1>3, <1>4, <1>5 DEF SampleInv

(* Adding nothing to a float leaves it.                                    *)
LEMMA PlusNothing ==
  ASSUME NEW a \in Nat, a = 0 \/ IsFloat(a)
  PROVE  Plus(a, 0) <= a
<1>1. IsFloat(a)
  <2>1. 0 \in 0 .. Pow[Bits] /\ 0 \in Nat /\ Pow[0] = 1
    BY PowIs, PowType, FormatAssumption
  <2>2. 0 = 0 * Pow[0]
    BY <2>1
  <2>3. IsFloat(0)
    BY <2>1, <2>2 DEF IsFloat
  <2>4. QED
    BY <2>3
<1>2. Plus(a, 0) = RoundQ(a, 1)
  BY PlusType
<1>3. a <= 1 * a
  OBVIOUS
<1>4. QED
  BY <1>1, <1>2, <1>3, RoundBelow

LEMMA WalkStep == SampleInv /\ Walk => SampleInv'
<1> SUFFICES ASSUME SampleInv, Walk  PROVE SampleInv'
  OBVIOUS
<1>1. /\ CallTypes' /\ ~greedy /\ ~greedy' /\ drawing = "walk" /\ drawing' \in {"walk", "done"}
      /\ logits' = logits /\ exp' = exp /\ top_p' = top_p /\ candidates' = candidates /\ probs' = probs
      /\ cutoff' = cutoff /\ drawn' = drawn
      /\ Kept(Logits)' = Kept(Logits)
      /\ (Undefined' <=> Undefined) /\ \A x : Weight(candidates[x])' = Weight(candidates[x])
  BY CallStays, WeightsStay DEF Walk, SampleInv, GreedyInv, call
<1>2. CandidatesInv'
  BY <1>1, CandidatesStay DEF Walk
<1>3. GreedyInv' /\ Beginning'
  BY <1>1 DEF GreedyInv, Beginning
<1>4. ASSUME ~Undefined  PROVE ~fallback' /\ ProbsInv' /\ LoopInv' /\ DrawnInv'
  <2>1. /\ ~fallback /\ ProbsInv /\ LoopInv
        /\ Kept(Logits) \in 1 .. Logits
        /\ Totals(probs)[0] = 0
        /\ \A n \in 1 .. Kept(Logits) :
             /\ Totals(probs)[n] = Plus(Totals(probs)[n - 1], probs[n])
             /\ IsFloat(Totals(probs)[n]) /\ probs[n] \in Nat
        /\ \A n \in 0 .. Kept(Logits) : Totals(probs)[n] \in Nat
    BY <1>1, <1>4, LoopFacts
  <2> DEFINE c == Plus(cum, probs[turn])
  <2>2. /\ cutoff \in 1 .. Kept(Logits) /\ turn \in 1 .. cutoff /\ cum = Totals(probs)[turn - 1]
        /\ drawn \in 0 .. Totals(probs)[cutoff] /\ (turn > 1 => cum < drawn) /\ ShortOf(cutoff - 1)
    BY <1>1, <2>1 DEF LoopInv
  <2>3. /\ cum' = c
        /\ IF Covers(c) THEN result' = candidates[turn] /\ drawing' = "done" /\ turn' = turn /\ fallback' = fallback
           ELSE IF turn < cutoff THEN turn' = turn + 1 /\ drawing' = drawing /\ fallback' = fallback
           ELSE fallback'
    BY DEF Walk
  <2>4. turn \in 1 .. Kept(Logits) /\ turn - 1 \in 0 .. Kept(Logits) /\ cutoff \in 0 .. Kept(Logits)
    BY <2>1, <2>2
  <2>5. c = Totals(probs)[turn] /\ c \in Nat /\ cum \in Nat /\ drawn \in Nat
    BY <2>1, <2>2, <2>4
  <2>6. ShortOf(cutoff - 1)' /\ ProbsInv'
    BY <1>1, <2>1, <2>2 DEF ShortOf, ProbsInv
  <2>7. ASSUME turn > 1, drawn <= c  PROVE probs[turn] # 0
    <3>1. SUFFICES ASSUME probs[turn] = 0  PROVE FALSE
      OBVIOUS
    <3>2. IsFloat(cum)
      <4>1. turn - 1 \in 1 .. Kept(Logits)
        BY <2>1, <2>4, <2>7
      <4>2. QED
        BY <2>1, <2>2, <4>1
    <3>3. c <= cum
      BY <2>5, <3>1, <3>2, PlusNothing
    <3>4. QED
      BY <2>2, <2>5, <2>7, <3>3
  <2> HIDE DEF c
  <2>8. Covers(c) <=> drawn <= c
    BY <2>5 DEF Covers, NaN
  <2>9. CASE Covers(c)
    <3>1. result' = candidates[turn] /\ drawing' = "done" /\ turn' = turn /\ fallback' = fallback
      BY <2>3, <2>9
    <3>2. turn > 1 => probs[turn] # 0
      BY <2>7, <2>8, <2>9
    <3>3. QED
      BY <1>1, <2>1, <2>2, <2>6, <3>1, <3>2 DEF LoopInv, DrawnInv
  <2>10. CASE ~Covers(c) /\ turn < cutoff
    <3>1. turn' = turn + 1 /\ drawing' = "walk" /\ fallback' = fallback
      BY <1>1, <2>3, <2>10
    <3>2. turn' - 1 = turn /\ turn' \in 1 .. cutoff'
      BY <1>1, <2>1, <2>2, <2>10, <3>1
    <3>3. c < drawn
      BY <2>5, <2>8, <2>10
    <3>4. cum' = Totals(probs')[turn' - 1] /\ cum' < drawn'
      BY <1>1, <2>3, <2>5, <3>2, <3>3
    <3>5. QED
      BY <1>1, <2>1, <2>2, <2>6, <3>1, <3>2, <3>4 DEF LoopInv, DrawnInv
  <2>11. CASE ~Covers(c) /\ ~(turn < cutoff)
    <3>1. turn = cutoff
      BY <2>1, <2>2, <2>11
    <3>2. drawn <= c
      BY <2>2, <2>5, <3>1
    <3>3. QED
      BY <2>8, <2>11, <3>2
  <2>12. QED
    BY <2>9, <2>10, <2>11
<1>5. ASSUME Undefined  PROVE NaNInv'
  <2>1. /\ NaNInv /\ ~fallback /\ Kept(Logits) \in 1 .. Logits /\ Logits \in Nat
        /\ turn \in 1 .. Kept(Logits) /\ cutoff = Kept(Logits) /\ drawn = NaN
    BY <1>1, <1>5, NaNFacts DEF NaNInv
  <2>2. ~Covers(Plus(cum, probs[turn]))
    BY <2>1 DEF Covers
  <2>3. CASE turn < cutoff
    <3>1. turn' = turn + 1 /\ drawing' = "walk" /\ fallback' = fallback
      BY <1>1, <2>2, <2>3 DEF Walk
    <3>2. turn' \in 1 .. cutoff'
      BY <1>1, <2>1, <2>3, <3>1
    <3>3. QED
      BY <1>1, <2>1, <3>1, <3>2 DEF NaNInv
  <2>4. CASE ~(turn < cutoff)
    <3>1. turn' = turn /\ drawing' = "done" /\ fallback' /\ result' = candidates[1]
      BY <2>2, <2>4 DEF Walk
    <3>2. QED
      BY <1>1, <2>1, <3>1 DEF NaNInv
  <2>5. QED
    BY <2>3, <2>4
<1>6. QED
  BY <1>1, <1>2, <1>3, <1>4, <1>5 DEF SampleInv

LEMMA SampleStutters == SampleInv /\ UNCHANGED sampleVars => SampleInv'
<1> SUFFICES ASSUME SampleInv, UNCHANGED sampleVars  PROVE SampleInv'
  OBVIOUS
<1>1. (Undefined' <=> Undefined) /\ \A x : Weight(candidates[x])' = Weight(candidates[x])
  BY WeightsStay DEF sampleVars, call
<1>2. /\ logits' = logits /\ greedy' = greedy /\ exp' = exp /\ top_k' = top_k /\ top_p' = top_p
      /\ drawing' = drawing /\ candidates' = candidates /\ probs' = probs /\ cutoff' = cutoff
      /\ turn' = turn /\ cum' = cum /\ drawn' = drawn /\ result' = result /\ fallback' = fallback
  BY DEF sampleVars
<1>3. (Drawing' <=> Drawing) /\ CallTypes' /\ GreedyInv' /\ CandidatesInv' /\ Beginning'
  BY <1>2 DEF SampleInv, Drawing, CallTypes, GreedyInv, Argmax, CandidatesInv, Sorted, Kept, Beginning
<1>4. Drawing /\ ~Undefined => ~fallback' /\ ProbsInv' /\ LoopInv' /\ DrawnInv'
  BY <1>1, <1>2 DEF SampleInv, ProbsInv, LoopInv, ShortOf, DrawnInv, Kept
<1>5. Drawing /\ Undefined => NaNInv'
  BY <1>2 DEF SampleInv, NaNInv, Kept
<1>6. QED
  BY <1>1, <1>2, <1>3, <1>4, <1>5 DEF SampleInv

THEOREM SampleInductive == SampleSpec => []SampleInv
<1>1. SampleInit => SampleInv
  BY SampleInitially
<1>2. SampleInv /\ [SampleNext]_sampleVars => SampleInv'
  BY GreedyStep, SortStep, SoftmaxStep, NucleusStep, DrawStep, WalkStep, SampleStutters DEF SampleNext
<1>3. QED
  BY <1>1, <1>2, PTL DEF SampleSpec

(* FallbackWithoutSoftmax: the loop of sample falls through to its last    *)
(* line for logits without a softmax, always, and for no others, whatever  *)
(* was rounded on the way.                                                 *)
THEOREM FallbackOnlyWithoutSoftmax == SampleSpec => []FallbackWithoutSoftmax
<1>1. ASSUME SampleInv, drawing = "done", ~greedy
      PROVE  /\ fallback <=> Undefined
             /\ fallback => Better(result) = {}
  <2>1. Drawing
    BY <1>1 DEF Drawing
  <2>2. CASE ~Undefined
    BY <1>1, <2>1, <2>2 DEF SampleInv
  <2>3. CASE Undefined
    <3>1. fallback /\ result = candidates[1]
      BY <1>1, <2>1, <2>3 DEF SampleInv, NaNInv
    <3>2. QED
      BY <1>1, <2>3, <3>1, NoneAboveFirst
  <2>4. QED
    BY <2>2, <2>3
<1>2. SampleInv => FallbackWithoutSoftmax
  BY <1>1 DEF FallbackWithoutSoftmax
<1>3. QED
  BY <1>2, SampleInductive, PTL

(* What is not better than the drawn token is in the candidates before it. *)
LEMMA BetterAreBefore ==
  ASSUME SampleInv, ~Undefined, ~greedy, drawing = "done"
  PROVE  /\ turn \in 1 .. Kept(Logits)
         /\ IsFiniteSet(Better(result)) /\ Cardinality(Better(result)) \in 0 .. turn - 1
<1>1. PICK order \in Bijection(1 .. Logits, 1 .. Logits) :
        Sorted(order) /\ candidates = [x \in 1 .. Kept(Logits) |-> order[x]]
  BY DEF SampleInv, CandidatesInv
<1>2. CallTypes /\ LoopInv /\ DrawnInv
  BY DEF SampleInv, Drawing
<1>3. Kept(Logits) \in 1 .. Logits /\ Logits \in Nat
  BY <1>2, CallsAreTyped, KeptRange, FormatAssumption
<1>4. turn \in 1 .. Kept(Logits) /\ result = candidates[turn]
  BY <1>2, <1>3 DEF LoopInv, DrawnInv
<1>5. order \in [1 .. Logits -> 1 .. Logits] /\ \A t \in 1 .. Logits : \E x \in 1 .. Logits : order[x] = t
  BY BijectionIs
<1>6. turn \in 1 .. Logits /\ result = order[turn]
  BY <1>1, <1>3, <1>4
<1>8. ASSUME NEW t \in Better(result)  PROVE \E x \in 1 .. turn - 1 : order[x] = t
  <2>1. t \in 1 .. Logits /\ Above(logits[t], logits[result])
    BY DEF Better
  <2>2. PICK x \in 1 .. Logits : order[x] = t
    BY <1>5, <2>1
  <2>3. x # turn
    BY <1>6, <2>1, <2>2, NotAboveItself
  <2>4. ~(turn < x)
    <3>1. SUFFICES ASSUME turn < x  PROVE FALSE
      OBVIOUS
    <3>2. AtLeast(logits[result], logits[t])
      BY <1>1, <1>6, <2>2, <3>1 DEF Sorted
    <3>3. QED
      BY <2>1, <3>2, AtLeastIsNotBelow
  <2>5. x \in 1 .. turn - 1
    BY <1>3, <1>6, <2>2, <2>3, <2>4
  <2>6. QED
    BY <2>2, <2>5
<1> DEFINE Before == {order[x] : x \in 1 .. turn - 1}
           image == [x \in 1 .. turn - 1 |-> order[x]]
<1>9. image \in Surjection(1 .. turn - 1, Before)
  <2>1. image \in [1 .. turn - 1 -> Before]
    OBVIOUS
  <2>2. \A t \in Before : \E x \in 1 .. turn - 1 : image[x] = t
    OBVIOUS
  <2> HIDE DEF image, Before
  <2>3. QED
    BY <2>1, <2>2 DEF Surjection
<1>10. IsFiniteSet(1 .. turn - 1) /\ Cardinality(1 .. turn - 1) = turn - 1
  BY <1>4, FS_Interval
<1>11. Better(result) \subseteq Before
  BY <1>8
<1> HIDE DEF Before, image
<1>12. IsFiniteSet(Before) /\ Cardinality(Before) <= turn - 1
  BY <1>9, <1>10, FS_Surjection
<1>13. IsFiniteSet(Better(result)) /\ Cardinality(Better(result)) <= Cardinality(Before)
  BY <1>11, <1>12, FS_Subset
<1>14. Cardinality(Before) \in Nat /\ Cardinality(Better(result)) \in Nat
  BY <1>12, <1>13, FS_CardinalityType
<1>15. QED
  BY <1>4, <1>12, <1>13, <1>14

(* Among what is above -inf, > is a total order of the values.             *)
LEMMA AboveOrders ==
  ASSUME NEW a \in Levels \union {PlusInf}, NEW b \in Levels \union {PlusInf},
         NEW c \in Levels \union {PlusInf}, Above(a, b), ~Above(c, b)
  PROVE  Above(a, c)
<1>1. \A x \in Levels : x \in Int /\ Finite(x)
  BY SpecialFacts DEF Finite
<1>2. ~Finite(PlusInf) /\ PlusInf # MinusInf /\ \A x \in Levels : x # PlusInf /\ x # MinusInf
  BY SpecialFacts DEF Finite
<1>3. CASE a = PlusInf
  <2>1. b \in Levels
    BY <1>2, <1>3 DEF Above
  <2>2. c \in Levels
    BY <1>1, <2>1 DEF Above
  <2>3. QED
    BY <1>1, <1>3, <2>2 DEF Above
<1>4. CASE a \in Levels
  <2>1. b \in Levels /\ a > b
    BY <1>2, <1>4 DEF Above, Finite
  <2>2. c \in Levels /\ ~(c > b)
    BY <1>1, <2>1 DEF Above
  <2>3. a \in Int /\ b \in Int /\ c \in Int /\ a > c
    BY <1>1, <1>4, <2>1, <2>2
  <2>4. QED
    BY <1>1, <1>4, <2>2, <2>3 DEF Above
<1>5. QED
  BY <1>3, <1>4

LEMMA AboveIsAboveMinusInf ==
  ASSUME NEW a \in Levels \union Special, NEW b, Above(a, b)
  PROVE  Above(a, MinusInf)
  BY DEF Above

LEMMA AboveMinusInfAre ==
  ASSUME NEW a \in Levels \union Special, Above(a, MinusInf)
  PROVE  a \in Levels \union {PlusInf}
  BY DEF Above, Finite

LEMMA ArgmaxIsBest ==
  ASSUME CallTypes
  PROVE  Better(Argmax) = {}
<1> DEFINE over == {t \in 1 .. Logits : Above(logits[t], MinusInf)}
           Before(t, o) == Above(logits[t], logits[o]) \/ (~Above(logits[o], logits[t]) /\ t <= o)
           First(t) == \A o \in over : Before(t, o)
<1>1. Logits \in Nat \ {0} /\ \A t \in 1 .. Logits : logits[t] \in Levels \union Special
  BY FormatAssumption DEF CallTypes
<1>2. ASSUME NEW t \in 1 .. Logits, NEW o \in Better(t)  PROVE o \in over
  BY <1>1, <1>2, AboveIsAboveMinusInf DEF Better
<1>3. CASE over = {}
  <2>1. Argmax = 1
    BY <1>3 DEF Argmax
  <2>2. QED
    BY <1>1, <1>2, <1>3, <2>1
<1>4. CASE over # {}
  <2>1. \A t \in over : t \in 1 .. Logits /\ logits[t] \in Levels \union {PlusInf}
    BY <1>1, AboveMinusInfAre
  <2> DEFINE upTo(n) == {t \in over : t <= n}
             A == {n \in Nat : upTo(n) # {} => \E t \in upTo(n) : \A o \in upTo(n) : Before(t, o)}
  <2> HIDE DEF over
  <2>2. 0 \in A
    BY <2>1
  <2>3. ASSUME NEW n \in Nat, n \in A  PROVE n + 1 \in A
    <3>1. \A t \in upTo(n + 1) : t \in upTo(n) \/ (t = n + 1 /\ n + 1 \in over)
      BY <2>1
    <3>2. upTo(n) \subseteq upTo(n + 1)
      BY <2>1
    <3>3. CASE n + 1 \notin over
      <4>1. upTo(n + 1) = upTo(n)
        BY <3>1, <3>2, <3>3
      <4>2. QED
        BY <2>3, <4>1
    <3>4. CASE n + 1 \in over
      <4>0. n + 1 \in upTo(n + 1)
        BY <3>4
      <4>1. Before(n + 1, n + 1)
        BY NotAboveItself
      <4>2. CASE upTo(n) = {}
        <5>1. \A o \in upTo(n + 1) : Before(n + 1, o)
          BY <3>1, <4>1, <4>2
        <5>2. QED
          BY <4>0, <5>1
      <4>3. CASE upTo(n) # {}
        <5>1. PICK t \in upTo(n) : \A o \in upTo(n) : Before(t, o)
          BY <2>3, <4>3
        <5>2. t \in over /\ t \in upTo(n + 1) /\ t \in Nat /\ t <= n
          BY <2>1, <3>2
        <5>3. CASE Above(logits[n + 1], logits[t])
          <6>1. ASSUME NEW o \in upTo(n)  PROVE Before(n + 1, o)
            <7>1. o \in over
              OBVIOUS
            <7>2. CASE ~Above(logits[o], logits[t])
              BY <2>1, <3>4, <5>2, <5>3, <7>1, <7>2, AboveOrders
            <7>3. CASE Above(logits[o], logits[t])
              BY <5>1, <7>3, AboveIsAsymmetric
            <7>4. QED
              BY <7>2, <7>3
          <6>2. \A o \in upTo(n + 1) : Before(n + 1, o)
            BY <3>1, <4>1, <6>1
          <6>3. QED
            BY <4>0, <6>2
        <5>4. CASE ~Above(logits[n + 1], logits[t])
          <6>1. Before(t, n + 1)
            BY <5>2, <5>4
          <6>2. \A o \in upTo(n + 1) : Before(t, o)
            BY <3>1, <5>1, <6>1
          <6>3. QED
            BY <5>2, <6>2
        <5>5. QED
          BY <5>3, <5>4
      <4>4. QED
        BY <4>2, <4>3
    <3>5. QED
      BY <3>3, <3>4
  <2>4. upTo(Logits) = over
    BY <1>1, <2>1
  <2> HIDE DEF A
  <2>5. Logits \in A
    BY <1>1, <2>2, <2>3, Induction
  <2>6. \E t \in over : First(t)
    BY <1>4, <2>4, <2>5 DEF A
  <2>7. Argmax = CHOOSE t \in over : First(t)
    BY <1>4 DEF Argmax, over
  <2> HIDE DEF First
  <2>8. Argmax \in over /\ First(Argmax)
    BY <2>6, <2>7
  <2>9. \A o \in over : ~Above(logits[o], logits[Argmax])
    <3>1. SUFFICES ASSUME NEW o \in over, Above(logits[o], logits[Argmax])  PROVE FALSE
      OBVIOUS
    <3>2. Above(logits[Argmax], logits[o])
      BY <2>8, <3>1 DEF First
    <3>3. QED
      BY <3>1, <3>2, AboveIsAsymmetric
  <2>10. \A o \in Better(Argmax) : o \in over /\ Above(logits[o], logits[Argmax])
    BY <1>2, <2>1, <2>8 DEF Better
  <2>11. QED
    BY <2>9, <2>10
<1>5. QED
  BY <1>3, <1>4

(* DrawnIsInNucleus: greedy drawing takes a largest logit; what is drawn   *)
(* by a softmax has a probability, and is one of the top_k and of the      *)
(* nucleus, whatever was rounded.                                          *)
THEOREM DrawnTokenIsInNucleus == SampleSpec => []DrawnIsInNucleus
<1>1. ASSUME SampleInv, drawing = "done", greedy  PROVE Better(result) = {}
  BY <1>1, ArgmaxIsBest DEF SampleInv, GreedyInv
<1>2. ASSUME SampleInv, drawing = "done", ~Undefined, ~greedy
      PROVE  /\ exp[Away(logits[result], Largest)] > 0
             /\ top_k > 0 => Cardinality(Better(result)) < top_k
             /\ Better(result) # {} /\ top_p < One =>
                  Totals(probs)[Cardinality(Better(result))] < top_p
  <2>1. CallTypes /\ ProbsInv /\ LoopInv /\ DrawnInv
    BY <1>2 DEF SampleInv, Drawing
  <2>2. Kept(Logits) \in 1 .. Logits /\ (top_k > 0 => Kept(Logits) <= top_k) /\ top_k \in Nat
        /\ Logits \in Nat
    BY <2>1, CallsAreTyped, KeptRange, FormatAssumption
  <2>3. turn \in 1 .. Kept(Logits) /\ turn <= cutoff /\ IsFiniteSet(Better(result))
        /\ Cardinality(Better(result)) \in 0 .. turn - 1
    BY <1>2, <2>1, BetterAreBefore DEF LoopInv
  <2>4. PICK best : best = logits[candidates[1]]
    OBVIOUS
  <2>5. /\ Finite(best) /\ Weight(candidates[1]) = One
        /\ Weight(candidates[turn]) \in Nat
        /\ Weight(candidates[turn]) = exp[Away(logits[candidates[turn]], best)]
    BY <1>2, <2>3, <2>4, DefinedWeights
  <2>6. Largest = best
    <3> DEFINE S == {logits[t] : t \in 1 .. Logits} \intersect Levels
               IsMax(x) == \A y \in S : x >= y
    <3>1. best \in S /\ best \in Int /\ S \subseteq Int
      BY <1>2, <2>4, <2>5, NoneAboveFirst, SpecialFacts DEF Finite
    <3>2. IsMax(best)
      <4>1. SUFFICES ASSUME NEW t \in 1 .. Logits, logits[t] \in Levels  PROVE best >= logits[t]
        OBVIOUS
      <4>2. ~Above(logits[t], best)
        BY <1>2, <2>4, <4>1, NoneAboveFirst DEF Better
      <4>3. QED
        BY <2>5, <3>1, <4>1, <4>2, SpecialFacts DEF Above, Finite
    <3> HIDE DEF S
    <3>3. Max(S) = CHOOSE x \in S : IsMax(x)
      BY DEF Max
    <3> HIDE DEF IsMax
    <3>4. Max(S) \in S /\ IsMax(Max(S))
      BY <3>1, <3>2, <3>3
    <3>5. PICK m : m = Max(S)
      OBVIOUS
    <3>6. m \in Int /\ m >= best /\ best >= m
      BY <3>1, <3>2, <3>4, <3>5 DEF IsMax
    <3>7. m = best
      BY <3>1, <3>6
    <3>8. QED
      BY <3>5, <3>7 DEF Largest, S
  <2>7. Weight(candidates[turn]) # 0
    <3>1. CASE turn = 1
      BY <2>5, <3>1, FormatAssumption
    <3>2. CASE turn # 1
      BY <1>2, <2>1, <2>3, <3>2 DEF DrawnInv, ProbsInv
    <3>3. QED
      BY <3>1, <3>2
  <2>8. exp[Away(logits[result], Largest)] > 0
    <3>1. result = candidates[turn]
      BY <1>2, <2>1 DEF DrawnInv
    <3>2. PICK w : w = exp[Away(logits[result], Largest)]
      OBVIOUS
    <3>3. w \in Nat /\ w # 0
      BY <2>5, <2>6, <2>7, <3>1, <3>2
    <3>4. QED
      BY <3>2, <3>3
  <2>9. top_k > 0 => Cardinality(Better(result)) < top_k
    BY <2>2, <2>3
  <2>10. ASSUME Better(result) # {}, top_p < One
         PROVE  Totals(probs)[Cardinality(Better(result))] < top_p
    <3>1. Cardinality(Better(result)) # 0
      BY <2>3, <2>10, FS_EmptySet
    <3>2. cutoff \in 1 .. Kept(Logits) /\ ShortOf(cutoff - 1)
      BY <1>2, <2>1 DEF LoopInv
    <3>3. Cardinality(Better(result)) \in 1 .. cutoff - 1
      BY <2>2, <2>3, <3>1, <3>2
    <3>4. QED
      BY <2>10, <3>2, <3>3 DEF ShortOf
  <2>11. QED
    BY <2>8, <2>9, <2>10
<1>3. SampleInv => DrawnIsInNucleus
  BY <1>1, <1>2 DEF DrawnIsInNucleus
<1>4. QED
  BY <1>3, SampleInductive, PTL

=============================================================================
