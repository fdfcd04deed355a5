------------------------------ MODULE LoadProofs ------------------------------
(***************************************************************************)
(* Proofs about loading: MmapRelease, for every page size, every base and  *)
(* every sequence of weights; SplitFiles, for every number and size of     *)
(* parts; ModelLoad, for every set of files; and GgufParser, for every     *)
(* document, wherever its file is cut off.                                 *)
(***************************************************************************)
EXTENDS MmapRelease, SplitFiles, GgufParser, ModelLoad, SequenceLemmas, FiniteSetTheorems

-----------------------------------------------------------------------------
(* Multiples of the page size.                                             *)

LEMMA DivBounds ==
  ASSUME NEW P \in Nat \ {0}, NEW a \in Nat
  PROVE  a \div P \in Nat /\ (a \div P) * P <= a /\ a < (a \div P + 1) * P
  OBVIOUS

LEMMA MulMono ==
  ASSUME NEW P \in Nat, NEW a \in Int, NEW b \in Int, a <= b
  PROVE  a * P <= b * P
  OBVIOUS

LEMMA MulCancel ==
  ASSUME NEW P \in Nat, NEW a \in Int, NEW b \in Int, a * P < b * P
  PROVE  a < b
  OBVIOUS

(* Rounding down and up.                                                   *)
LEMMA Rounding ==
  ASSUME NEW P \in Nat \ {0}, NEW a \in Nat
  PROVE  /\ a \div P \in Nat /\ (a + P - 1) \div P \in Nat
         /\ (a \div P) * P <= a /\ a < (a \div P + 1) * P
         /\ a <= ((a + P - 1) \div P) * P
         /\ ((a + P - 1) \div P - 1) * P < a
<1> DEFINE c == (a + P - 1) \div P
<1>1. a + P - 1 \in Nat
  OBVIOUS
<1>2. c \in Nat /\ c * P <= a + P - 1 /\ a + P - 1 < (c + 1) * P
  BY <1>1, DivBounds
<1>3. (c + 1) * P = c * P + P /\ (c - 1) * P = c * P - P
  BY <1>2
<1>4. a <= c * P /\ (c - 1) * P < a
  <2> HIDE DEF c
  <2> QED  BY <1>2, <1>3
<1>5. QED
  BY <1>2, <1>4, DivBounds

(* A page whose end lies beyond an address that starts a page starts at or *)
(* behind it; a page below the round-up of an address starts below it.     *)
LEMMA PageBoundary ==
  ASSUME NEW P \in Nat \ {0}, NEW p \in Int, NEW n \in Int
  PROVE  /\ n * P < (p + 1) * P => n * P <= p * P
         /\ p < n => (p + 1) * P <= n * P
<1>1. n * P < (p + 1) * P => n < p + 1
  BY MulCancel
<1>2. n <= p => n * P <= p * P
  BY MulMono
<1>3. p < n => (p + 1) * P <= n * P
  BY MulMono
<1>4. QED
  BY <1>1, <1>2, <1>3

-----------------------------------------------------------------------------
(* The sorted queue.                                                       *)

(* In a file without shared bytes the regions follow one another.          *)
InTurn == \A j, k \in 1 .. Len(queue) : j < k => End(queue[j]) <= queue[k].off

(* What stays true of the layout and the queue.                            *)
Queued ==
  /\ layout \in Layouts
  /\ queue \in Seq(Region)
  /\ Disjoint => InTurn

LEMMA SortedQueue ==
  ASSUME layout \in Layouts, queue \in SortByOffset(layout.regions)
  PROVE  Queued
<1> DEFINE rs == layout.regions
<1>1. rs \in Seq(Region)
  BY LayoutsAssumption DEF Layout
<1>2. PICK p \in Bijection(DOMAIN rs, DOMAIN rs) : queue = [i \in DOMAIN rs |-> rs[p[i]]]
  BY DEF SortByOffset, Orders
<1>3. DOMAIN rs = 1 .. Len(rs) /\ Len(rs) \in Nat
  BY <1>1
<1>4. /\ p \in [DOMAIN rs -> DOMAIN rs]
      /\ \A i, j \in DOMAIN rs : i # j => p[i] # p[j]
  BY <1>2, Zenon DEF Bijection, Injection, IsInjective
<1>5. \A i \in DOMAIN rs : rs[i] \in Region
  BY <1>1
<1>6. queue \in [1 .. Len(rs) -> Region]
  BY <1>2, <1>3, <1>4, <1>5, Zenon
<1>7. queue \in Seq(Region) /\ Len(queue) = Len(rs)
  BY <1>3, <1>6
<1>8. ASSUME Disjoint, NEW j \in 1 .. Len(queue), NEW k \in 1 .. Len(queue), j < k
      PROVE  End(queue[j]) <= queue[k].off
  <2>1. j \in DOMAIN rs /\ k \in DOMAIN rs /\ j # k
    BY <1>3, <1>7, <1>8
  <2>2. p[j] \in DOMAIN rs /\ p[k] \in DOMAIN rs /\ p[j] # p[k]
    BY <1>4, <2>1
  <2>3. \/ End(rs[p[j]]) <= rs[p[k]].off
        \/ End(rs[p[k]]) <= rs[p[j]].off
    BY <1>8, <2>2 DEF Disjoint
  <2>4. queue[j] = rs[p[j]] /\ queue[k] = rs[p[k]]
    BY <1>2, <2>1
  <2>5. queue[j].off <= queue[k].off
    <3>1. DOMAIN queue = DOMAIN rs
      BY <1>2
    <3>2. QED
      BY <3>1, <2>1, <1>8 DEF SortByOffset, Ascending
  <2>6. /\ queue[j].off \in Nat /\ queue[j].size \in Nat \ {0}
        /\ queue[k].off \in Nat /\ queue[k].size \in Nat \ {0}
    BY <1>5, <2>2, <2>4 DEF Region
  <2>7. QED
    BY <2>3, <2>4, <2>5, <2>6 DEF End
<1>9. QED
  BY <1>7, <1>8 DEF Queued, InTurn
-----------------------------------------------------------------------------
(* What the high-water mark says when end is the number of bytes consumed, *)
(* dr the pages dropped and res the pages resident: the mark starts a page *)
(* (or nothing was released yet), no page ends between it and end, pages   *)
(* are dropped below it only, and none is resident below it.               *)
Mark(rel, end, dr, res) ==
  /\ rel <= end
  /\ rel = 0 \/ \E n \in Int : layout.base + rel = n * PageSize
  /\ ToPage(end) <= FromPage(rel)
  /\ \A p \in dr : (p + 1) * PageSize <= layout.base + rel
  /\ \A p \in res : layout.base <= p * PageSize => layout.base + rel < (p + 1) * PageSize

Watermark == Disjoint => Mark(released, Consumed(uploaded), dropped, resident)

ReleaseInv == TypeOK /\ Queued /\ Watermark

LEMMA Bases ==
  ASSUME layout \in Layouts
  PROVE  layout.base \in Nat /\ layout.touched \subseteq Nat /\ layout.regions \in Seq(Region)
  BY LayoutsAssumption DEF Layout

LEMMA Regions ==
  ASSUME NEW r \in Region
  PROVE  /\ r.off \in Nat /\ r.size \in Nat \ {0}
         /\ End(r) \in Nat /\ r.off < End(r)
  BY DEF Region, End

(* The pages at the two ends of a release.                                 *)
LEMMA ReleaseEnds ==
  ASSUME layout \in Layouts, NEW rel \in Nat, NEW end \in Nat
  PROVE  /\ FromPage(rel) \in Nat /\ ToPage(end) \in Nat
         /\ layout.base + rel <= FromPage(rel) * PageSize
         /\ (FromPage(rel) - 1) * PageSize < layout.base + rel
         /\ ToPage(end) * PageSize <= layout.base + end
<1>1. layout.base + rel \in Nat /\ layout.base + end \in Nat
  BY Bases
<1>2. QED
  BY <1>1, PageAssumption, Rounding DEF FromPage, ToPage

LEMMA ReleasedIsNat ==
  ASSUME layout \in Layouts, NEW rel \in Nat, NEW end \in Nat
  PROVE  ReleasedUpTo(rel, end) \in Nat
<1> DEFINE f == FromPage(rel)
           t == ToPage(end)
<1>1. /\ f \in Nat /\ t \in Nat
      /\ layout.base + rel <= f * PageSize
  BY ReleaseEnds
<1>2. f < t => f * PageSize <= t * PageSize
  BY <1>1, MulMono, PageAssumption
<1>3. layout.base \in Nat /\ t * PageSize \in Nat /\ f * PageSize \in Nat
  BY <1>1, Bases, PageAssumption
<1>4. f < t => t * PageSize - layout.base \in Nat
  <2> HIDE DEF f, t
  <2> QED  BY <1>1, <1>2, <1>3
<1>5. QED
  BY <1>4 DEF ReleasedUpTo, Releases

(* A page of a region ends behind the start of the region.                 *)
LEMMA PageEndsBehind ==
  ASSUME layout \in Layouts, NEW r \in Region, NEW p \in PagesOf(r)
  PROVE  p \in Nat /\ layout.base + r.off < (p + 1) * PageSize
<1>1. layout.base + r.off \in Nat
  BY Bases, Regions
<1>2. /\ FirstPage(r) \in Nat
      /\ layout.base + r.off < (FirstPage(r) + 1) * PageSize
  BY <1>1, PageAssumption, DivBounds DEF FirstPage
<1>3. p \in Int /\ FirstPage(r) <= p
  <2>1. layout.base + End(r) - 1 \in Nat
    BY Bases, Regions
  <2>2. LastPage(r) \in Nat
    BY <2>1, PageAssumption, DivBounds DEF LastPage
  <2>3. QED
    BY <1>2, <2>2 DEF PagesOf
<1>4. (FirstPage(r) + 1) * PageSize <= (p + 1) * PageSize
  BY <1>2, <1>3, MulMono, PageAssumption
<1>5. QED
  BY <1>1, <1>2, <1>3, <1>4, PageAssumption

(* One release: if the mark was right and the region read starts behind    *)
(* it, it is right again.                                                  *)
LEMMA MarkStep ==
  ASSUME layout \in Layouts, NEW rel \in Nat, NEW end \in Nat, NEW r \in Region,
         NEW dr \in SUBSET Nat, NEW res \in SUBSET Nat,
         Mark(rel, end, dr, res), end <= r.off
  PROVE  Mark(ReleasedUpTo(rel, End(r)), End(r), dr \cup Advised(rel, End(r)),
              (res \cup PagesOf(r)) \ Advised(rel, End(r)))
<1> DEFINE e    == End(r)
           f    == FromPage(rel)
           t    == ToPage(e)
           rel2 == ReleasedUpTo(rel, e)
           base == layout.base
<1>1. base \in Nat /\ e \in Nat /\ PageSize \in Nat \ {0}
  BY Bases, Regions, PageAssumption
<1>2. rel < e /\ rel <= r.off /\ r.off \in Nat
  BY Regions DEF Mark
<1>3. /\ f \in Nat /\ t \in Nat
      /\ base + rel <= f * PageSize
      /\ (f - 1) * PageSize < base + rel
      /\ t * PageSize <= base + e
  BY <1>1, ReleaseEnds
<1>4. \A p \in res \cup PagesOf(r) :
         p \in Nat /\ (base <= p * PageSize => base + rel < (p + 1) * PageSize)
  <2>1. ASSUME NEW p \in PagesOf(r)
        PROVE  p \in Nat /\ base + rel < (p + 1) * PageSize
    <3>1. p \in Nat /\ base + r.off < (p + 1) * PageSize
      BY PageEndsBehind
    <3>2. QED
      BY <3>1, <1>1, <1>2
  <2>2. QED
    BY <2>1 DEF Mark
<1>5. CASE t > f
  <2>1. rel2 = t * PageSize - base /\ Advised(rel, e) = f .. (t - 1)
    BY <1>2, <1>5 DEF ReleasedUpTo, Advised, Releases
  <2>2. f * PageSize <= t * PageSize /\ t * PageSize \in Nat /\ f * PageSize \in Nat
    BY <1>1, <1>3, <1>5, MulMono
  <2>3. rel2 \in Nat /\ rel <= rel2 /\ base + rel2 = t * PageSize
    <3> HIDE DEF f, t, rel2, base
    <3> QED  BY <1>1, <1>3, <2>1, <2>2
  <2>4. rel2 <= e
    <3> HIDE DEF f, t, rel2, base, e
    <3> QED  BY <1>1, <1>3, <2>2, <2>3
  <2>5. t <= FromPage(rel2)
    <3>1. FromPage(rel2) \in Nat /\ base + rel2 <= FromPage(rel2) * PageSize
      BY <2>3, ReleaseEnds
    <3>2. ~ (FromPage(rel2) < t)
      <4>1. FromPage(rel2) < t => (FromPage(rel2) + 1) * PageSize <= t * PageSize
        BY <1>1, <1>3, <3>1, MulMono
      <4> HIDE DEF f, t, rel2, base
      <4>2. (FromPage(rel2) + 1) * PageSize = FromPage(rel2) * PageSize + PageSize
        BY <3>1, <1>1
      <4>3. FromPage(rel2) * PageSize \in Nat
        BY <3>1, <1>1
      <4>4. QED
        BY <1>1, <2>2, <2>3, <3>1, <4>1, <4>2, <4>3
    <3>3. QED
      BY <1>3, <3>1, <3>2
  <2>6. ASSUME NEW p \in dr \cup Advised(rel, e)
        PROVE  (p + 1) * PageSize <= base + rel2
    <3>1. CASE p \in dr
      <4>1. p \in Nat /\ (p + 1) * PageSize <= base + rel
        BY <3>1 DEF Mark
      <4>2. (p + 1) * PageSize \in Nat
        BY <4>1, <1>1
      <4> HIDE DEF rel2, base
      <4>3. QED
        BY <4>1, <4>2, <1>1, <2>3
    <3>2. CASE p \in f .. (t - 1)
      <4>1. p \in Int /\ p < t
        BY <3>2, <1>3
      <4>2. (p + 1) * PageSize <= t * PageSize
        BY <4>1, <1>1, <1>3, PageBoundary
      <4>3. QED
        BY <4>2, <2>3
    <3>3. QED
      BY <2>1, <2>6, <3>1, <3>2
  <2>7. ASSUME NEW p \in (res \cup PagesOf(r)) \ Advised(rel, e), base <= p * PageSize
        PROVE  base + rel2 < (p + 1) * PageSize
    <3>1. p \in Nat /\ base + rel < (p + 1) * PageSize
      BY <1>4, <2>7
    <3>2. p < f \/ t <= p
      BY <2>1, <2>7, <3>1, <1>3
    <3>3. ~ (p < f)
      <4>1. SUFFICES ASSUME p < f PROVE FALSE
        OBVIOUS
      <4>2. p * PageSize <= (f - 1) * PageSize
        BY <4>1, <3>1, <1>1, <1>3, MulMono
      <4>3. p * PageSize \in Nat /\ (f - 1) * PageSize \in Int
        BY <3>1, <1>1, <1>3
      <4>4. p * PageSize < base + rel
        <5> HIDE DEF f, base
        <5> QED  BY <4>2, <4>3, <1>3, <1>1
      <4>5. PICK n \in Int : base + rel = n * PageSize
        BY <4>4, <2>7, <1>1 DEF Mark
      <4>6. n * PageSize <= p * PageSize
        BY <4>5, <3>1, <1>1, PageBoundary
      <4>7. QED
        BY <4>3, <4>4, <4>5, <4>6, <1>1
    <3>4. t * PageSize < (p + 1) * PageSize
      <4>1. (t + 1) * PageSize <= (p + 1) * PageSize
        BY <3>1, <3>2, <3>3, <1>1, <1>3, MulMono
      <4>2. (t + 1) * PageSize = t * PageSize + PageSize
        BY <1>1, <1>3
      <4>3. (p + 1) * PageSize \in Int
        BY <3>1, <1>1
      <4> HIDE DEF t
      <4>4. QED
        BY <4>1, <4>2, <4>3, <2>2, <1>1
    <3>5. QED
      BY <3>4, <2>3
  <2>8. \E n \in Int : base + rel2 = n * PageSize
    BY <2>3, <1>3
  <2>9. QED
    BY <2>4, <2>5, <2>6, <2>7, <2>8 DEF Mark
<1>6. CASE ~ (t > f)
  <2>1. rel2 = rel /\ Advised(rel, e) = {}
    BY <1>6 DEF ReleasedUpTo, Advised, Releases
  <2>2. rel <= e /\ t <= f
    BY <1>1, <1>2, <1>3, <1>6
  <2>3. QED
    BY <1>4, <2>1, <2>2 DEF Mark
<1>7. QED
  BY <1>5, <1>6
-----------------------------------------------------------------------------
(* The invariant is inductive.                                             *)

LEMMA ConsumedIsNat ==
  ASSUME queue \in Seq(Region), NEW n \in 0 .. Len(queue)
  PROVE  Consumed(n) \in Nat
  BY Regions DEF Consumed

LEMMA ReleaseInvInit == ReleaseInit => ReleaseInv
<1> SUFFICES ASSUME ReleaseInit PROVE ReleaseInv
  OBVIOUS
<1>1. layout \in Layouts /\ Queued
  BY SortedQueue DEF ReleaseInit
<1>2. TypeOK
  BY <1>1, Bases DEF ReleaseInit, TypeOK, Queued
<1>3. Mark(0, 0, {}, layout.touched)
  <2>1. /\ FromPage(0) \in Nat /\ ToPage(0) \in Nat
        /\ layout.base + 0 <= FromPage(0) * PageSize
        /\ ToPage(0) * PageSize <= layout.base + 0
    BY <1>1, ReleaseEnds
  <2>2. ToPage(0) <= FromPage(0)
    <3>1. FromPage(0) < ToPage(0) => (FromPage(0) + 1) * PageSize <= ToPage(0) * PageSize
      BY <2>1, PageAssumption, MulMono
    <3>2. (FromPage(0) + 1) * PageSize = FromPage(0) * PageSize + PageSize
      BY <2>1, PageAssumption
    <3>3. /\ FromPage(0) * PageSize \in Nat /\ ToPage(0) * PageSize \in Nat
          /\ layout.base \in Nat
      BY <1>1, <2>1, PageAssumption, Bases
    <3>4. QED
      BY <2>1, <3>1, <3>2, <3>3, PageAssumption
  <2>3. ASSUME NEW p \in layout.touched, layout.base <= p * PageSize
        PROVE  layout.base + 0 < (p + 1) * PageSize
    <3>1. p \in Nat /\ layout.base \in Nat
      BY <1>1, Bases
    <3>2. (p + 1) * PageSize = p * PageSize + PageSize /\ p * PageSize \in Nat
      BY <3>1, PageAssumption
    <3>3. QED
      BY <2>3, <3>1, <3>2, PageAssumption
  <2>4. QED
    BY <2>2, <2>3 DEF Mark
<1>4. Watermark
  BY <1>3 DEF ReleaseInit, Watermark, Consumed
<1>5. QED
  BY <1>1, <1>2, <1>4 DEF ReleaseInv

LEMMA ReleaseInvStep == ReleaseInv /\ [ReleaseNext]_releaseVars => ReleaseInv'
<1> SUFFICES ASSUME ReleaseInv, [ReleaseNext]_releaseVars PROVE ReleaseInv'
  OBVIOUS
<1>1. CASE Upload
  <2> DEFINE r       == queue[uploaded + 1]
             advised == Advised(released, End(r))
  <2>1. /\ layout \in Layouts /\ queue \in Seq(Region)
        /\ uploaded \in 0 .. Len(queue) /\ released \in Nat
        /\ dropped \in SUBSET Nat /\ resident \in SUBSET Nat
    BY DEF ReleaseInv, TypeOK
  <2>2. /\ uploaded < Len(queue)
        /\ uploaded' = uploaded + 1
        /\ released' = ReleasedUpTo(released, End(r))
        /\ dropped' = dropped \cup advised
        /\ resident' = (resident \cup PagesOf(r)) \ advised
        /\ layout' = layout /\ queue' = queue
    BY <1>1 DEF Upload
  <2>3. uploaded + 1 \in 1 .. Len(queue) /\ r \in Region
    BY <2>1, <2>2
  <2>4. End(r) \in Nat
    BY <2>3, Regions
  <2>5. advised \subseteq Nat
    <3>1. FromPage(released) \in Nat /\ ToPage(End(r)) \in Nat
      BY <2>1, <2>4, ReleaseEnds
    <3>2. QED
      BY <3>1 DEF Advised
  <2>6. PagesOf(r) \subseteq Nat
    BY <2>1, <2>3, PageEndsBehind
  <2>7. TypeOK'
    <3>1. released' \in Nat
      BY <2>1, <2>2, <2>4, ReleasedIsNat
    <3>2. uploaded' \in 0 .. Len(queue')
      BY <2>2, <2>3
    <3>3. dropped' \subseteq Nat /\ resident' \subseteq Nat
      BY <2>1, <2>2, <2>5, <2>6
    <3>4. QED
      BY <2>1, <2>2, <3>1, <3>2, <3>3 DEF TypeOK
  <2>8. Queued'
    BY <2>2 DEF ReleaseInv, Queued, Disjoint, InTurn
  <2>9. Watermark'
    <3>1. SUFFICES ASSUME Disjoint
                   PROVE  Mark(released', End(r), dropped', resident')
      BY <2>2, <2>3 DEF Watermark, Mark, Disjoint, Consumed, ToPage, FromPage
    <3>2. Mark(released, Consumed(uploaded), dropped, resident)
      BY <3>1 DEF ReleaseInv, Watermark
    <3>3. Consumed(uploaded) \in Nat
      BY <2>1, ConsumedIsNat
    <3>4. Consumed(uploaded) <= r.off
      <4>1. CASE uploaded = 0
        BY <4>1, <2>3, Regions DEF Consumed
      <4>2. CASE uploaded # 0
        <5>1. uploaded \in 1 .. Len(queue) /\ uploaded < uploaded + 1
          BY <2>1, <4>2
        <5>2. End(queue[uploaded]) <= r.off
          BY <2>3, <3>1, <5>1 DEF ReleaseInv, Queued, InTurn
        <5>3. QED
          BY <4>2, <5>2 DEF Consumed
      <4>3. QED
        BY <4>1, <4>2
    <3>5. QED
      BY <2>1, <2>2, <2>3, <3>2, <3>3, <3>4, MarkStep
  <2>10. QED
    BY <2>7, <2>8, <2>9 DEF ReleaseInv
<1>2. CASE UNCHANGED releaseVars
  BY <1>2 DEF releaseVars, ReleaseInv, TypeOK, Queued, Watermark, Mark, Disjoint, InTurn, Consumed, ToPage, FromPage
<1>3. QED
  BY <1>1, <1>2 DEF ReleaseNext

-----------------------------------------------------------------------------
(* The theorems.                                                           *)

(* The high-water mark of pre_upload_gpu is sound whatever the page size,  *)
(* the base of the mapping and the weights: ReleaseInv is an invariant.          *)
THEOREM ReleaseInductive == ReleaseSpec => []ReleaseInv
<1>1. QED
  BY ReleaseInvInit, ReleaseInvStep, PTL DEF ReleaseSpec

(* Type correctness; above all, released_up_to is an offset: the           *)
(* subtraction of the base in release_mmap_prefix never underflows, even   *)
(* when two weights overlap or are one.                                    *)
THEOREM ReleaseTypes == ReleaseSpec => []TypeOK
<1>1. ReleaseInv => TypeOK
  BY DEF ReleaseInv
<1>2. QED
  BY <1>1, ReleaseInductive, PTL

(* release_mmap_prefix never drops a page with a byte that pre_upload_gpu  *)
(* has still to read, when no weight is uploaded twice.                    *)
THEOREM PendingIsKept == ReleaseSpec => []PendingKeptDisjoint
<1>1. ASSUME ReleaseInv, Disjoint, NEW k \in (uploaded + 1) .. Len(queue), NEW p \in dropped
      PROVE  p \notin PagesOf(queue[k])
  <2>1. /\ layout \in Layouts /\ queue \in Seq(Region)
        /\ uploaded \in 0 .. Len(queue) /\ released \in Nat /\ p \in Nat
    BY <1>1 DEF ReleaseInv, TypeOK
  <2>2. k \in 1 .. Len(queue) /\ queue[k] \in Region
    BY <2>1
  <2>3. /\ released <= Consumed(uploaded)
        /\ (p + 1) * PageSize <= layout.base + released
    BY <1>1 DEF ReleaseInv, Watermark, Mark
  <2>4. Consumed(uploaded) \in Nat /\ Consumed(uploaded) <= queue[k].off
    <3>1. CASE uploaded = 0
      BY <3>1, <2>2, Regions DEF Consumed
    <3>2. CASE uploaded # 0
      <4>1. uploaded \in 1 .. Len(queue) /\ uploaded < k
        BY <2>1, <3>2
      <4>2. End(queue[uploaded]) <= queue[k].off
        BY <1>1, <2>2, <4>1 DEF ReleaseInv, Queued, InTurn
      <4>3. QED
        BY <2>1, <3>2, <4>2, ConsumedIsNat DEF Consumed
    <3>3. QED
      BY <3>1, <3>2
  <2>5. SUFFICES ASSUME p \in PagesOf(queue[k]) PROVE FALSE
    OBVIOUS
  <2>6. layout.base + queue[k].off < (p + 1) * PageSize
    BY <2>1, <2>2, <2>5, PageEndsBehind
  <2>7. /\ layout.base \in Nat /\ queue[k].off \in Nat /\ (p + 1) * PageSize \in Nat
    BY <2>1, <2>2, Bases, Regions, PageAssumption
  <2>8. QED
    BY <2>1, <2>3, <2>4, <2>6, <2>7
<1>2. ReleaseInv => PendingKeptDisjoint
  BY <1>1 DEF PendingKeptDisjoint, PendingKept
<1>3. QED
  BY <1>2, ReleaseInductive, PTL

(* And it drops every page it can: after an upload no whole page of the    *)
(* consumed prefix is left in the page cache.                              *)
THEOREM ConsumedIsReleased == ReleaseSpec => []ConsumedReleased
<1>1. ASSUME ReleaseInv, Disjoint, NEW p \in resident,
             layout.base <= p * PageSize,
             (p + 1) * PageSize <= layout.base + Consumed(uploaded)
      PROVE  FALSE
  <2> DEFINE f    == FromPage(released)
             t    == ToPage(Consumed(uploaded))
             base == layout.base
             c    == Consumed(uploaded)
  <2>1. /\ layout \in Layouts /\ queue \in Seq(Region)
        /\ uploaded \in 0 .. Len(queue) /\ released \in Nat /\ p \in Nat
    BY <1>1 DEF ReleaseInv, TypeOK
  <2>2. c \in Nat /\ base \in Nat /\ PageSize \in Nat \ {0}
    BY <2>1, ConsumedIsNat, Bases, PageAssumption
  <2>3. /\ t <= f
        /\ base + released < (p + 1) * PageSize
        /\ released = 0 \/ \E n \in Int : base + released = n * PageSize
    BY <1>1 DEF ReleaseInv, Watermark, Mark
  <2>4. f \in Nat /\ t \in Nat /\ (f - 1) * PageSize < base + released
    BY <2>1, <2>2, ReleaseEnds
  <2>5. base + c < (t + 1) * PageSize
    <3>1. base + c \in Nat
      BY <2>2
    <3>2. QED
      BY <3>1, <2>2, DivBounds DEF ToPage
  <2>6. p + 1 <= t
    <3>1. (p + 1) * PageSize < (t + 1) * PageSize
      <4>1. (p + 1) * PageSize \in Nat /\ (t + 1) * PageSize \in Nat
        BY <2>1, <2>2, <2>4
      <4> HIDE DEF t, c, base
      <4>2. (p + 1) * PageSize <= base + c
        BY <1>1 DEF base, c
      <4>3. QED
        BY <2>2, <2>5, <4>1, <4>2
    <3> HIDE DEF t
    <3>2. p + 1 < t + 1
      BY <3>1, <2>1, <2>2, <2>4, MulCancel
    <3>3. QED
      BY <3>2, <2>1, <2>4
  <2>7. p * PageSize <= (f - 1) * PageSize
    <3> HIDE DEF f, t
    <3>1. p <= f - 1 /\ f - 1 \in Int
      BY <2>1, <2>3, <2>4, <2>6
    <3>2. QED
      BY <3>1, <2>1, <2>2, MulMono
  <2>8. p * PageSize \in Nat /\ (f - 1) * PageSize \in Int
    BY <2>1, <2>2, <2>4
  <2>9. p * PageSize < base + released
    <3> HIDE DEF f, base
    <3> QED  BY <2>1, <2>2, <2>4, <2>7, <2>8
  <2>10. PICK n \in Int : base + released = n * PageSize
    <3>1. released = 0 => base + released <= p * PageSize
      BY <1>1, <2>2
    <3>2. ~ (base + released <= p * PageSize)
      <4> HIDE DEF base
      <4> QED  BY <2>1, <2>2, <2>8, <2>9
    <3>3. QED
      BY <3>1, <3>2, <2>3
  <2>11. n * PageSize <= p * PageSize
    BY <2>1, <2>2, <2>3, <2>10, PageBoundary
  <2>12. QED
    BY <2>8, <2>9, <2>10, <2>11, <2>2
<1>2. ReleaseInv => ConsumedReleased
  BY <1>1 DEF ConsumedReleased
<1>3. QED
  BY <1>2, ReleaseInductive, PTL

-----------------------------------------------------------------------------
(* SplitFiles: the bytes of all parts together.                            *)

PartBytes == [i \in DOMAIN sizes |-> [k \in 1 .. sizes[i] |-> <<i, k>>]]

(* Part k begins behind start[k] bytes.                                    *)
Follow(start) ==
  /\ start \in [DOMAIN sizes -> Nat] /\ start[1] = 0
  /\ \A k \in DOMAIN sizes : k + 1 \in DOMAIN sizes => start[k + 1] = start[k] + sizes[k]

(* The bytes b are those of the first i parts.                             *)
BytesBetween(b, i, start) ==
  /\ b \in Seq(Nat \X Nat) /\ Len(b) = start[i] + sizes[i]
  /\ \A k \in 1 .. i : \A j \in 1 .. sizes[k] :
       start[k] + j \in 1 .. Len(b) /\ b[start[k] + j] = <<k, j>>
  /\ \A p \in 1 .. Len(b) : \E k \in 1 .. i : \E j \in 1 .. sizes[k] : p = start[k] + j

LEMMA BytesStep ==
  ASSUME NEW n \in Nat, sizes \in [1 .. n -> Nat \ {0}], NEW start, Follow(start),
         NEW i \in 1 .. n, i + 1 \in 1 .. n, NEW b, BytesBetween(b, i, start),
         NEW c, c = [k \in 1 .. sizes[i + 1] |-> <<i + 1, k>>]
  PROVE  BytesBetween(b \o c, i + 1, start)
<1>1. start[i] \in Nat /\ sizes[i] \in Nat \ {0} /\ start[i + 1] \in Nat /\ sizes[i + 1] \in Nat \ {0}
  BY DEF Follow
<1>2. start[i + 1] = start[i] + sizes[i]
  BY DEF Follow
<1>3. b \in Seq(Nat \X Nat) /\ Len(b) = start[i + 1] /\ DOMAIN b = 1 .. Len(b)
  BY <1>1, <1>2 DEF BytesBetween
<1>4. /\ c \in Seq(Nat \X Nat) /\ Len(c) = sizes[i + 1] /\ DOMAIN c = 1 .. Len(c)
      /\ \A j \in 1 .. sizes[i + 1] : c[j] = <<i + 1, j>>
  <2>1. \A j \in 1 .. sizes[i + 1] : <<i + 1, j>> \in Nat \X Nat
    BY <1>1
  <2>2. QED
    BY <1>1, <2>1, IsASeq
<1>5. /\ b \o c \in Seq(Nat \X Nat) /\ Len(b \o c) = Len(b) + Len(c)
      /\ \A p \in 1 .. Len(b) : (b \o c)[p] = b[p]
      /\ \A p \in 1 .. Len(c) : (b \o c)[Len(b) + p] = c[p]
  <2> DEFINE S == Nat \X Nat
  <2>1. b \in Seq(S) /\ c \in Seq(S)
    BY <1>3, <1>4
  <2> HIDE DEF S
  <2>2. /\ b \o c \in Seq(S) /\ Len(b \o c) = Len(b) + Len(c)
        /\ \A p \in 1 .. Len(b) : (b \o c)[p] = b[p]
        /\ \A p \in 1 .. Len(c) : (b \o c)[Len(b) + p] = c[p]
    BY <2>1, ConcatAt
  <2>3. QED
    BY <2>2 DEF S
<1>6. Len(b \o c) = start[i + 1] + sizes[i + 1]
  BY <1>3, <1>4, <1>5
<1>7. ASSUME NEW k \in 1 .. i + 1, NEW j \in 1 .. sizes[k]
      PROVE  start[k] + j \in 1 .. Len(b \o c) /\ (b \o c)[start[k] + j] = <<k, j>>
  <2>1. CASE k \in 1 .. i
    <3>1. start[k] + j \in 1 .. Len(b) /\ b[start[k] + j] = <<k, j>>
      BY <2>1 DEF BytesBetween
    <3>2. (b \o c)[start[k] + j] = b[start[k] + j]
      BY <1>5, <3>1
    <3>3. start[k] + j \in 1 .. Len(b \o c)
      BY <1>1, <1>3, <1>6, <3>1
    <3>4. QED
      BY <3>1, <3>2, <3>3
  <2>2. CASE k = i + 1
    <3>1. start[k] = Len(b) /\ j \in 1 .. Len(c) /\ j \in 1 .. sizes[i + 1]
      BY <1>3, <1>4, <2>2
    <3>2. (b \o c)[start[k] + j] = c[j]
      BY <1>5, <3>1
    <3>3. c[j] = <<k, j>>
      BY <1>4, <2>2, <3>1
    <3>4. start[k] + j \in 1 .. Len(b \o c)
      BY <1>1, <1>6, <2>2, <3>1
    <3>5. QED
      BY <3>2, <3>3, <3>4
  <2>3. k \in 1 .. i \/ k = i + 1
    OBVIOUS
  <2>4. QED
    BY <2>1, <2>2, <2>3
<1>8. ASSUME NEW p \in 1 .. Len(b \o c)
      PROVE  \E k \in 1 .. i + 1 : \E j \in 1 .. sizes[k] : p = start[k] + j
  <2>1. CASE p \in 1 .. Len(b)
    <3>1. PICK k \in 1 .. i : \E j \in 1 .. sizes[k] : p = start[k] + j
      BY <2>1 DEF BytesBetween
    <3>2. QED
      BY <3>1
  <2>2. CASE p \notin 1 .. Len(b)
    <3>1. p - start[i + 1] \in 1 .. sizes[i + 1] /\ p = start[i + 1] + (p - start[i + 1])
      BY <1>1, <1>3, <1>6, <2>2
    <3>2. i + 1 \in 1 .. i + 1
      OBVIOUS
    <3>3. QED
      BY <3>1, <3>2
  <2>3. QED
    BY <2>1, <2>2
<1>9. QED
  BY <1>5, <1>6, <1>7, <1>8 DEF BytesBetween

(* AllBytes is the bytes of the parts, each at its start.                  *)
LEMMA AllBytesInOrder ==
  ASSUME NEW n \in Nat \ {0}, sizes \in [1 .. n -> Nat \ {0}], NEW start, Follow(start)
  PROVE  BytesBetween(AllBytes, n, start)
<1> DEFINE F == PartBytes
<1>1. /\ F = [i \in 1 .. n |-> [k \in 1 .. sizes[i] |-> <<i, k>>]]
      /\ AllBytes = FlattenSeq(F)
  BY DEF PartBytes, AllBytes
<1>2. \A i \in 1 .. n : F[i] = [k \in 1 .. sizes[i] |-> <<i, k>>]
  BY <1>1
<1>3. F = [i \in 1 .. n |-> F[i]] /\ Len(F) = n
  BY <1>1
<1> HIDE DEF F
<1>4. PICK f : Flattens(f, F) /\ FlattenSeq(F) = f[n]
  BY <1>3, FlattenIs
<1>5. f[1] = F[1] /\ \A i \in 1 .. n : i + 1 \in 1 .. n => f[i + 1] = f[i] \o F[i + 1]
  <2>1. \A i \in 1 .. n : f[i] = IF i = 1 THEN F[i] ELSE f[i - 1] \o F[i]
    BY <1>3, <1>4, FlattenStep
  <2>2. f[1] = F[1]
    BY <2>1
  <2>3. ASSUME NEW i \in 1 .. n, i + 1 \in 1 .. n  PROVE f[i + 1] = f[i] \o F[i + 1]
    <3>1. i + 1 # 1 /\ (i + 1) - 1 = i
      OBVIOUS
    <3>2. QED
      BY <2>1, <2>3, <3>1
  <2>4. QED
    BY <2>2, <2>3
<1> DEFINE A == {m \in Nat : m + 1 \in 1 .. n => BytesBetween(f[m + 1], m + 1, start)}
<1>6. 0 \in A
  <2>1. start[1] = 0 /\ sizes[1] \in Nat \ {0} /\ 1 \in 1 .. n
    BY DEF Follow
  <2>2. f[1] = [k \in 1 .. sizes[1] |-> <<1, k>>]
    BY <1>2, <1>5, <2>1
  <2>3. f[1] \in Seq(Nat \X Nat) /\ Len(f[1]) = sizes[1] /\ \A j \in 1 .. sizes[1] : f[1][j] = <<1, j>>
    <3>1. \A k \in 1 .. sizes[1] : <<1, k>> \in Nat \X Nat
      BY <2>1
    <3>2. QED
      BY <2>1, <2>2, <3>1, IsASeq
  <2>4. \A k \in 1 .. 1 : k = 1
    OBVIOUS
  <2>5. \A j \in 1 .. sizes[1] : start[1] + j = j
    BY <2>1
  <2>6. ASSUME NEW k \in 1 .. 1, NEW j \in 1 .. sizes[k]
        PROVE  start[k] + j \in 1 .. Len(f[1]) /\ f[1][start[k] + j] = <<k, j>>
    BY <2>3, <2>4, <2>5
  <2>7. ASSUME NEW p \in 1 .. Len(f[1])  PROVE \E k \in 1 .. 1 : \E j \in 1 .. sizes[k] : p = start[k] + j
    BY <2>3, <2>5
  <2>8. BytesBetween(f[1], 1, start)
    BY <2>1, <2>3, <2>6, <2>7 DEF BytesBetween
  <2>9. QED
    BY <2>8
<1>7. ASSUME NEW m \in Nat, m \in A  PROVE m + 1 \in A
  <2> SUFFICES ASSUME (m + 1) + 1 \in 1 .. n  PROVE BytesBetween(f[(m + 1) + 1], (m + 1) + 1, start)
    OBVIOUS
  <2>1. m + 1 \in 1 .. n /\ BytesBetween(f[m + 1], m + 1, start)
    BY <1>7
  <2>2. f[(m + 1) + 1] = f[m + 1] \o F[(m + 1) + 1]
    BY <1>5, <2>1
  <2>3. F[(m + 1) + 1] = [k \in 1 .. sizes[(m + 1) + 1] |-> <<(m + 1) + 1, k>>]
    BY <1>2
  <2> DEFINE c == F[(m + 1) + 1]
  <2>4. c = [k \in 1 .. sizes[(m + 1) + 1] |-> <<(m + 1) + 1, k>>]
    BY <2>3
  <2> HIDE DEF c
  <2>5. BytesBetween(f[m + 1] \o c, (m + 1) + 1, start)
    BY <2>1, <2>4, BytesStep
  <2>6. QED
    BY <2>2, <2>5 DEF c
<1> HIDE DEF A
<1>8. n - 1 \in A
  <2>1. Nat \subseteq A
    BY <1>6, <1>7, Induction
  <2>2. n - 1 \in Nat
    OBVIOUS
  <2>3. QED
    BY <2>1, <2>2
<1>9. QED
  BY <1>1, <1>4, <1>8 DEF A

-----------------------------------------------------------------------------
(* The parts are mapped in order, each behind the one before.              *)

SplitTypes ==
  /\ \E n \in Nat \ {0} : sizes \in [1 .. n -> 1 .. MaxSize]
  /\ mapping = "ready" => Len(mmaps) = Total

InOrder ==
  (first = 1 /\ digits = "padded") =>
    /\ mmaps \in Seq(Nat \X Nat) /\ Len(mmaps) \in 1 .. Total
    /\ mmaps[1][2] = 0
    /\ \A k \in 1 .. Len(mmaps) : mmaps[k][1] = k
    /\ \A k \in 1 .. Len(mmaps) : k + 1 \in 1 .. Len(mmaps) => mmaps[k + 1][2] = mmaps[k][2] + sizes[k]

SplitInv == SplitTypes /\ InOrder

LEMMA SplitInvInit == SplitInit => SplitInv
<1> SUFFICES ASSUME SplitInit  PROVE SplitInv
  OBVIOUS
<1>1. PICK n \in 1 .. MaxParts : sizes \in [1 .. n -> 1 .. MaxSize]
  BY DEF SplitInit
<1>2. n \in Nat \ {0} /\ Total = n
  BY <1>1, BoundsAssumption DEF Total
<1>3. mmaps = <<<<first, 0>>>> /\ first \in 1 .. n /\ mapping = "load"
  BY <1>1 DEF SplitInit
<1>4. SplitTypes
  BY <1>1, <1>2, <1>3 DEF SplitTypes
<1>5. InOrder
  <2>1. /\ mmaps \in Seq(Nat \X Nat) /\ Len(mmaps) = 1 /\ mmaps[1] = <<first, 0>>
    BY <1>2, <1>3
  <2>2. QED
    BY <1>2, <2>1 DEF InOrder
<1>6. QED
  BY <1>4, <1>5 DEF SplitInv

LEMMA SplitInvStep == SplitInv /\ [SplitNext]_splitVars => SplitInv'
<1> SUFFICES ASSUME SplitInv, [SplitNext]_splitVars  PROVE SplitInv'
  OBVIOUS
<1>1. UNCHANGED <<sizes, digits, first>> /\ Total' = Total
  BY DEF SplitNext, MapSibling, AllMapped, splitVars, Total
<1>2. PICK n \in Nat \ {0} : sizes \in [1 .. n -> 1 .. MaxSize]
  BY DEF SplitInv, SplitTypes
<1>3. Total = n
  BY <1>2 DEF Total
<1>4. CASE UNCHANGED mmaps /\ (mapping' = "ready" => Len(mmaps) = Total)
  BY <1>1, <1>4 DEF SplitInv, SplitTypes, InOrder
<1>5. CASE /\ mapping = "load" /\ mapping' = mapping /\ Len(mmaps) < Total
           /\ mmaps' = Append(mmaps, <<Sibling(Len(mmaps) + 1), Cumulative(mmaps)>>)
  <2>1. SplitTypes'
    BY <1>1, <1>2, <1>5 DEF SplitTypes
  <2>2. ASSUME first = 1, digits = "padded"
        PROVE  /\ mmaps' \in Seq(Nat \X Nat) /\ Len(mmaps') \in 1 .. Total
               /\ mmaps'[1][2] = 0
               /\ \A k \in 1 .. Len(mmaps') : mmaps'[k][1] = k
               /\ \A k \in 1 .. Len(mmaps') :
                    k + 1 \in 1 .. Len(mmaps') => mmaps'[k + 1][2] = mmaps'[k][2] + sizes[k]
    <3> DEFINE m == Len(mmaps)
               x == <<Sibling(m + 1), Cumulative(mmaps)>>
    <3>1. /\ mmaps \in Seq(Nat \X Nat) /\ m \in 1 .. n /\ m < n /\ mmaps[1][2] = 0
          /\ \A k \in 1 .. m : mmaps[k][1] = k
          /\ \A k \in 1 .. m : k + 1 \in 1 .. m => mmaps[k + 1][2] = mmaps[k][2] + sizes[k]
      BY <1>3, <1>5, <2>2 DEF SplitInv, InOrder
    <3>2. mmaps[m] \in Nat \X Nat /\ mmaps[m][1] = m
      BY <3>1, ElementOfSeq
    <3>3. x = <<m + 1, mmaps[m][2] + sizes[m]>>
      BY <2>2, <3>2 DEF Sibling, Cumulative, Last
    <3>4. sizes[m] \in Nat
      BY <1>2, <3>1, BoundsAssumption
    <3>5. x \in Nat \X Nat /\ x[1] = m + 1 /\ x[2] = mmaps[m][2] + sizes[m]
      BY <3>1, <3>2, <3>3, <3>4
    <3> HIDE DEF x
    <3>6. mmaps' = Append(mmaps, x)
      BY <1>5 DEF x
    <3>7. /\ mmaps' \in Seq(Nat \X Nat) /\ Len(mmaps') = m + 1
          /\ \A k \in 1 .. m : mmaps'[k] = mmaps[k]
          /\ mmaps'[m + 1] = x
      BY <3>1, <3>5, <3>6, AppendProperties
    <3> HIDE DEF m
    <3>8. \A k \in 1 .. m + 1 : k \in 1 .. m \/ k = m + 1
      BY <3>1
    <3>9. \A k \in 1 .. m + 1 : mmaps'[k][1] = k
      BY <3>1, <3>5, <3>7, <3>8
    <3>10. ASSUME NEW k \in 1 .. m + 1, k + 1 \in 1 .. m + 1
           PROVE  mmaps'[k + 1][2] = mmaps'[k][2] + sizes[k]
      <4>1. CASE k + 1 \in 1 .. m
        <5>1. k \in 1 .. m
          BY <3>1, <3>10, <4>1
        <5>2. QED
          BY <3>1, <3>7, <4>1, <5>1
      <4>2. CASE k = m
        BY <3>1, <3>5, <3>7, <4>2
      <4>3. QED
        BY <3>1, <3>10, <4>1, <4>2
    <3>11. 1 \in 1 .. m /\ m + 1 \in 1 .. n
      BY <3>1
    <3>12. QED
      BY <1>3, <3>1, <3>7, <3>9, <3>10, <3>11
  <2>3. InOrder'
    BY <1>1, <2>2 DEF InOrder
  <2>4. QED
    BY <2>1, <2>3 DEF SplitInv
<1>6. QED
  <2>1. CASE MapSibling
    BY <1>4, <1>5, <2>1 DEF MapSibling
  <2>2. CASE AllMapped
    BY <1>4, <2>2 DEF AllMapped
  <2>3. CASE UNCHANGED splitVars
    BY <1>4, <2>3 DEF splitVars, SplitInv, SplitTypes
  <2>4. QED
    BY <2>1, <2>2, <2>3 DEF SplitNext

THEOREM SplitInductive == SplitSpec => []SplitInv
  BY SplitInvInit, SplitInvStep, PTL DEF SplitSpec

(* Of a model loaded by its first, padded name a slice is the bytes at     *)
(* that offset of all its parts together, and None just if they do not lie *)
(* in one part (MultiFileMmap::load, slice).                               *)
THEOREM SlicesAreOfTheWhole == SplitSpec => []SliceIsOfTheWhole
<1>1. ASSUME SplitInv, mapping = "ready", first = 1, digits = "padded", NEW r \in Requests
      PROVE  LET onePart == /\ r[1] + r[2] <= Len(AllBytes)
                            /\ AllBytes[r[1] + 1][1] = AllBytes[r[1] + r[2]][1]
             IN  Slice(r[1], r[2]) =
                   IF onePart THEN <<"Some", SubSeq(AllBytes, r[1] + 1, r[1] + r[2])>> ELSE None
  <2>1. PICK n \in Nat \ {0} : sizes \in [1 .. n -> 1 .. MaxSize]
    BY <1>1 DEF SplitInv, SplitTypes
  <2>2. sizes \in [1 .. n -> Nat \ {0}] /\ DOMAIN sizes = 1 .. n /\ Total = n
    BY <2>1, BoundsAssumption DEF Total
  <2>3. /\ mmaps \in Seq(Nat \X Nat) /\ Len(mmaps) = n /\ DOMAIN mmaps = 1 .. n /\ mmaps[1][2] = 0
        /\ \A k \in 1 .. n : mmaps[k][1] = k
        /\ \A k \in 1 .. n : k + 1 \in 1 .. n => mmaps[k + 1][2] = mmaps[k][2] + sizes[k]
    <3>1. Len(mmaps) = n
      BY <1>1, <2>2 DEF SplitInv, SplitTypes
    <3>2. /\ mmaps \in Seq(Nat \X Nat) /\ mmaps[1][2] = 0
          /\ \A k \in 1 .. Len(mmaps) : mmaps[k][1] = k
          /\ \A k \in 1 .. Len(mmaps) : k + 1 \in 1 .. Len(mmaps) => mmaps[k + 1][2] = mmaps[k][2] + sizes[k]
      BY <1>1 DEF SplitInv, InOrder
    <3>3. DOMAIN mmaps = 1 .. Len(mmaps)
      BY <3>2, LenProperties
    <3>4. QED
      BY <3>1, <3>2, <3>3
  <2> DEFINE start == [k \in 1 .. n |-> mmaps[k][2]]
             L == Len(AllBytes)
             o == r[1]
             l == r[2]
             holding == {k \in DOMAIN mmaps : Holds(mmaps[k], o, l)}
             least == CHOOSE k \in holding : \A h \in holding : k <= h
             onePart == o + l <= L /\ AllBytes[o + 1][1] = AllBytes[o + l][1]
  <2>4. start \in [1 .. n -> Nat] /\ \A k \in 1 .. n : start[k] = mmaps[k][2]
    <3>1. \A k \in 1 .. n : mmaps[k] \in Nat \X Nat
      BY <2>3, ElementOfSeq
    <3>2. QED
      BY <3>1
  <2> HIDE DEF start
  <2>5. Follow(start)
    BY <2>2, <2>3, <2>4 DEF Follow
  <2>6. BytesBetween(AllBytes, n, start)
    BY <2>2, <2>5, AllBytesInOrder
  <2>7. /\ AllBytes \in Seq(Nat \X Nat) /\ L \in Nat
        /\ \A k \in 1 .. n : \A j \in 1 .. sizes[k] : start[k] + j \in 1 .. L /\ AllBytes[start[k] + j] = <<k, j>>
        /\ \A p \in 1 .. L : \E k \in 1 .. n : \E j \in 1 .. sizes[k] : p = start[k] + j
    BY <2>6, LenProperties DEF BytesBetween
  <2>8. o \in Nat /\ l \in Nat \ {0} /\ r = <<o, l>>
    BY <2>7, BoundsAssumption DEF Requests
  <2>9. holding = {k \in 1 .. n : start[k] <= o /\ o + l <= start[k] + sizes[k]}
    BY <2>3, <2>4 DEF Holds
  <2>10. Slice(o, l) =
           IF holding = {} THEN None
           ELSE <<"Some", [x \in 1 .. l |-> <<mmaps[least][1], o - mmaps[least][2] + x>>]>>
    BY DEF Slice
  <2> HIDE DEF o, l, L
  <2> HIDE DEF holding
  <2> HIDE DEF least
  <2>11. ASSUME NEW k \in holding
         PROVE  /\ k \in 1 .. n /\ start[k] \in Nat /\ sizes[k] \in Nat
                /\ \A x \in 1 .. l : /\ (o - start[k]) + x \in 1 .. sizes[k] /\ o + x \in 1 .. L
                                   /\ AllBytes[o + x] = <<k, (o - start[k]) + x>>
    <3>1. k \in 1 .. n /\ start[k] <= o /\ o + l <= start[k] + sizes[k]
      BY <2>9
    <3>2. start[k] \in Nat /\ sizes[k] \in Nat
      BY <2>2, <2>4, <3>1
    <3>3. ASSUME NEW x \in 1 .. l
          PROVE  /\ (o - start[k]) + x \in 1 .. sizes[k] /\ o + x \in 1 .. L
                 /\ AllBytes[o + x] = <<k, (o - start[k]) + x>>
      <4>1. (o - start[k]) + x \in 1 .. sizes[k] /\ start[k] + ((o - start[k]) + x) = o + x
        BY <2>8, <3>1, <3>2
      <4>2. QED
        BY <2>7, <3>1, <4>1
    <3>4. QED
      BY <3>1, <3>2, <3>3
  <2>12. 1 \in 1 .. l /\ l \in 1 .. l
    BY <2>8
  <2>13. ASSUME NEW k \in holding, NEW h \in holding  PROVE k = h
    <3>1. AllBytes[o + 1] = <<k, (o - start[k]) + 1>> /\ AllBytes[o + 1] = <<h, (o - start[h]) + 1>>
      BY <2>11, <2>12
    <3>2. QED
      BY <3>1
  <2>14. ASSUME NEW k \in holding
         PROVE  onePart /\ Slice(o, l) = <<"Some", SubSeq(AllBytes, o + 1, o + l)>>
    <3>1. k \in 1 .. n /\ mmaps[k][1] = k /\ mmaps[k][2] = start[k]
      BY <2>3, <2>4, <2>11
    <3>2. k <= k /\ \A h \in holding : h = k
      BY <2>13, <3>1
    <3>3. least = k
      BY <3>2 DEF least
    <3>4. Slice(o, l) = <<"Some", [x \in 1 .. l |-> <<k, o - start[k] + x>>]>>
      <4>1. Slice(o, l) = <<"Some", [x \in 1 .. l |-> <<mmaps[k][1], o - mmaps[k][2] + x>>]>>
        BY <2>10, <3>3
      <4>2. QED
        BY <3>1, <4>1
    <3>5. o + l \in 1 .. L /\ AllBytes[o + 1] = <<k, (o - start[k]) + 1>> /\ AllBytes[o + l] = <<k, (o - start[k]) + l>>
      BY <2>11, <2>12
    <3>6. onePart
      BY <2>7, <3>5
    <3>7. SubSeq(AllBytes, o + 1, o + l) = [x \in 1 .. l |-> AllBytes[o + x]]
      <4>1. SubSeq(AllBytes, o + 1, o + l) = [x \in 1 .. (o + l) - (o + 1) + 1 |-> AllBytes[(o + 1) + x - 1]]
        BY <2>7, <2>8, <3>5, SubSeqIs
      <4>2. (o + l) - (o + 1) + 1 = l /\ \A x \in 1 .. l : (o + 1) + x - 1 = o + x
        BY <2>8
      <4>3. QED
        BY <4>1, <4>2
    <3>8. [x \in 1 .. l |-> AllBytes[o + x]] = [x \in 1 .. l |-> <<k, o - start[k] + x>>]
      BY <2>11
    <3>9. QED
      BY <3>4, <3>6, <3>7, <3>8
  <2>15. ASSUME onePart  PROVE holding # {}
    <3>1. o + 1 \in 1 .. L /\ o + l \in 1 .. L
      BY <2>7, <2>8, <2>15
    <3>2. PICK k \in 1 .. n : \E j \in 1 .. sizes[k] : o + 1 = start[k] + j
      BY <2>7, <3>1
    <3>3. PICK j \in 1 .. sizes[k] : o + 1 = start[k] + j
      BY <3>2
    <3>4. PICK h \in 1 .. n : \E i \in 1 .. sizes[h] : o + l = start[h] + i
      BY <2>7, <3>1
    <3>5. PICK i \in 1 .. sizes[h] : o + l = start[h] + i
      BY <3>4
    <3>6. AllBytes[o + 1] = <<k, j>> /\ AllBytes[o + l] = <<h, i>>
      BY <2>7, <3>3, <3>5
    <3>7. k = h
      BY <2>15, <3>6
    <3>8. start[k] \in Nat /\ sizes[k] \in Nat
      BY <2>2, <2>4
    <3>9. start[k] <= o /\ o + l <= start[k] + sizes[k]
      BY <2>8, <3>3, <3>5, <3>7, <3>8
    <3>10. QED
      BY <2>9, <3>9
  <2>16. Slice(o, l) = IF onePart THEN <<"Some", SubSeq(AllBytes, o + 1, o + l)>> ELSE None
    <3>1. CASE holding = {}
      BY <2>10, <2>15, <3>1
    <3>2. CASE holding # {}
      BY <2>14, <3>2
    <3>3. QED
      BY <3>1, <3>2
  <2>17. QED
    BY <2>16 DEF o, l, L
<1>2. SplitInv => SliceIsOfTheWhole
  BY <1>1 DEF SliceIsOfTheWhole
<1>3. QED
  BY <1>2, SplitInductive, PTL

-----------------------------------------------------------------------------
(* What the programs of ModelLoad consist of.                              *)

Row(ts)   == {Do("dequant_row", t) : t \in ts}
Batch(ts) == {Do("matmul_batch", t) : t \in ts}

LEMMA ElementsOfEach ==
  ASSUME NEW op, NEW ts, IsSequence(ts)
  PROVE  IsSequence(Each(op, ts)) /\ ToSet(Each(op, ts)) = {Do(op, t) : t \in ToSet(ts)}
<1>1. Len(ts) \in Nat /\ DOMAIN ts = 1 .. Len(ts)
  BY IsSequenceIntro DEF IsSequence
<1>2. ToSet(Each(op, ts)) = {Do(op, t) : t \in ToSet(ts)}
  BY DEF Each, ToSet
<1>3. \A k \in 1 .. Len(ts) : Do(op, ts[k]) \in ToSet(Each(op, ts))
  BY <1>1, <1>2 DEF ToSet
<1>4. [k \in 1 .. Len(ts) |-> Do(op, ts[k])] \in Seq(ToSet(Each(op, ts)))
  BY <1>1, <1>3, IsASeq
<1>5. QED
  BY <1>1, <1>2, <1>4 DEF Each, IsSequence

LEMMA Mixers == \A i : Mixer(i) \in {"ShortConv", "GatedDeltaNet", "GatedAttention", "Attention"}
  BY DEF Mixer

LEMMA LayerTensors ==
  ASSUME NEW i
  PROVE  /\ IsSequence(Inputs(i)) /\ IsSequence(Ffn(i)) /\ IsFiniteSet(QkNorms(i))
         /\ ToSet(Ffn(i)) = {T(i, "ffn_gate"), T(i, "ffn_up"), T(i, "ffn_down")}
<1>1. IsSequence(Ffn(i)) /\ ToSet(Ffn(i)) = {T(i, "ffn_gate"), T(i, "ffn_up"), T(i, "ffn_down")}
  BY ElementsOfThree DEF Ffn
<1>2. IsSequence(Inputs(i))
  <2>1. CASE Mixer(i) = "ShortConv"
    BY <2>1, ElementsOfOne DEF Inputs
  <2>2. CASE Mixer(i) = "GatedDeltaNet"
    BY <2>2, ElementsOfFour DEF Inputs
  <2>3. CASE Mixer(i) \notin {"ShortConv", "GatedDeltaNet"}
    BY <2>3, ElementsOfThree DEF Inputs
  <2>4. QED
    BY <2>1, <2>2, <2>3
<1>3. IsFiniteSet(QkNorms(i))
  <2>1. IsFiniteSet({T(i, "attn_q_norm"), T(i, "attn_k_norm")})
    <3>1. IsFiniteSet({T(i, "attn_q_norm")}) /\ IsFiniteSet({T(i, "attn_k_norm")})
      BY FS_Singleton
    <3>2. IsFiniteSet({T(i, "attn_q_norm")} \union {T(i, "attn_k_norm")})
      BY <3>1, FS_Union
    <3>3. {T(i, "attn_q_norm"), T(i, "attn_k_norm")} = {T(i, "attn_q_norm")} \union {T(i, "attn_k_norm")}
      OBVIOUS
    <3>4. QED
      BY <3>2, <3>3
  <2>2. QkNorms(i) \subseteq {T(i, "attn_q_norm"), T(i, "attn_k_norm")}
    BY Mixers DEF QkNorms
  <2>3. QED
    BY <2>1, <2>2, FS_Subset
<1>4. QED
  BY <1>1, <1>2, <1>3

LEMMA LoadLayerElements ==
  ASSUME NEW i
  PROVE  /\ IsSequence(LoadLayer(i))
         /\ ToSet(LoadLayer(i)) = ToSet(LoadMixer(i)) \union Row({FfnNorm(i), T(i, "attn_norm")})
         /\ ToSet(LoadMixer(i)) =
              CASE Mixer(i) = "ShortConv" -> {Do("dequant_tensor", T(i, "shortconv.conv"))}
                [] Mixer(i) = "GatedDeltaNet" ->
                     {Do("dequant_tensor", T(i, "ssm_conv1d"))} \union Row(LoadNeeds(i))
                [] OTHER -> {Do("present", {T(i, "attn_q")})}
<1>1. /\ IsSequence(LoadMixer(i))
      /\ ToSet(LoadMixer(i)) =
           CASE Mixer(i) = "ShortConv" -> {Do("dequant_tensor", T(i, "shortconv.conv"))}
             [] Mixer(i) = "GatedDeltaNet" ->
                  {Do("dequant_tensor", T(i, "ssm_conv1d"))} \union Row(LoadNeeds(i))
             [] OTHER -> {Do("present", {T(i, "attn_q")})}
  <2>1. CASE Mixer(i) = "ShortConv"
    BY <2>1, ElementsOfOne DEF LoadMixer
  <2>2. CASE Mixer(i) = "GatedDeltaNet"
    <3>1. /\ IsSequence(LoadMixer(i))
          /\ ToSet(LoadMixer(i)) = {Do("dequant_tensor", T(i, "ssm_conv1d")), Do("dequant_row", T(i, "ssm_a")),
                                    Do("dequant_row", T(i, "ssm_dt")), Do("dequant_row", T(i, "ssm_norm"))}
      BY <2>2, ElementsOfFour DEF LoadMixer
    <3>2. LoadNeeds(i) = {T(i, "ssm_a"), T(i, "ssm_dt"), T(i, "ssm_norm")}
      BY <2>2 DEF LoadNeeds
    <3>3. Row(LoadNeeds(i)) = {Do("dequant_row", T(i, "ssm_a")), Do("dequant_row", T(i, "ssm_dt")),
                               Do("dequant_row", T(i, "ssm_norm"))}
      BY <3>2 DEF Row
    <3>4. QED
      BY <2>2, <3>1, <3>3
  <2>3. CASE Mixer(i) \notin {"ShortConv", "GatedDeltaNet"}
    BY <2>3, ElementsOfOne DEF LoadMixer
  <2>4. QED
    BY <2>1, <2>2, <2>3
<1>2. Row({FfnNorm(i), T(i, "attn_norm")}) = {Do("dequant_row", FfnNorm(i)), Do("dequant_row", T(i, "attn_norm"))}
  BY DEF Row
<1>3. QED
  BY <1>1, <1>2, ElementsOfTwo, ElementsOfConcat DEF LoadLayer

LEMMA RunMixerElements ==
  ASSUME NEW i
  PROVE  /\ IsSequence(RunMixer(i))
         /\ ToSet(RunMixer(i)) =
              {Do("dims", i), Do("together", Inputs(i)), Do("matmul", Output(i))} \union Row(QkNorms(i))
<1>1. /\ IsSequence(Each("dequant_row", SetToSeq(QkNorms(i))))
      /\ ToSet(Each("dequant_row", SetToSeq(QkNorms(i)))) = Row(QkNorms(i))
  BY LayerTensors, ElementsOfSetToSeq, ElementsOfEach DEF Row
<1> DEFINE A == <<Do("dims", i), Do("together", Inputs(i))>>
           B == Each("dequant_row", SetToSeq(QkNorms(i)))
           C == <<Do("matmul", Output(i))>>
<1>2. IsSequence(A) /\ ToSet(A) = {Do("dims", i), Do("together", Inputs(i))}
  BY ElementsOfTwo
<1>3. IsSequence(C) /\ ToSet(C) = {Do("matmul", Output(i))}
  BY ElementsOfOne
<1>4. RunMixer(i) = (A \o B) \o C
  BY DEF RunMixer
<1> HIDE DEF A, B, C
<1>5. IsSequence(A \o B) /\ ToSet(A \o B) = ToSet(A) \union ToSet(B)
  BY <1>1, <1>2, ElementsOfConcat DEF B
<1>6. IsSequence(RunMixer(i)) /\ ToSet(RunMixer(i)) = ToSet(A \o B) \union ToSet(C)
  BY <1>3, <1>4, <1>5, ElementsOfConcat
<1>7. QED
  BY <1>1, <1>2, <1>3, <1>5, <1>6 DEF B

LEMMA RunLayerElements ==
  ASSUME NEW i
  PROVE  /\ IsSequence(RunLayer(i))
         /\ ToSet(RunLayer(i)) = ToSet(RunMixer(i)) \union {Do("ffn", Ffn(i))}
  BY RunMixerElements, ElementsOfOne, ElementsOfConcat DEF RunLayer

LEMMA BatchLayerElements ==
  ASSUME NEW i
  PROVE  /\ IsSequence(BatchLayer(i))
         /\ ToSet(BatchLayer(i)) =
              Batch(ToSet(Ffn(i))) \union
              IF Mixer(i) = "Attention"
              THEN Batch(ToSet(Inputs(i)) \union {Output(i)}) \union Row(QkNorms(i))
              ELSE ToSet(RunMixer(i))
<1>1. /\ IsSequence(Each("matmul_batch", Ffn(i)))
      /\ ToSet(Each("matmul_batch", Ffn(i))) = Batch(ToSet(Ffn(i)))
  BY LayerTensors, ElementsOfEach DEF Batch
<1>2. CASE Mixer(i) = "Attention"
  <2> DEFINE A == Each("matmul_batch", Inputs(i))
             B == Each("dequant_row", SetToSeq(QkNorms(i)))
             C == <<Do("matmul_batch", Output(i))>>
             D == Each("matmul_batch", Ffn(i))
  <2>1. IsSequence(A) /\ ToSet(A) = Batch(ToSet(Inputs(i)))
    BY LayerTensors, ElementsOfEach DEF Batch
  <2>2. IsSequence(B) /\ ToSet(B) = Row(QkNorms(i))
    BY LayerTensors, ElementsOfSetToSeq, ElementsOfEach DEF Row
  <2>3. IsSequence(C) /\ ToSet(C) = Batch({Output(i)})
    BY ElementsOfOne DEF Batch
  <2>4. BatchLayer(i) = ((A \o B) \o C) \o D
    BY <1>2 DEF BatchLayer
  <2>5. IsSequence(D) /\ ToSet(D) = Batch(ToSet(Ffn(i)))
    BY <1>1
  <2> HIDE DEF A, B, C, D
  <2>6. IsSequence(A \o B) /\ ToSet(A \o B) = ToSet(A) \union ToSet(B)
    BY <2>1, <2>2, ElementsOfConcat
  <2>7. IsSequence((A \o B) \o C) /\ ToSet((A \o B) \o C) = ToSet(A \o B) \union ToSet(C)
    BY <2>3, <2>6, ElementsOfConcat
  <2>8. /\ IsSequence(BatchLayer(i))
        /\ ToSet(BatchLayer(i)) = ToSet((A \o B) \o C) \union ToSet(D)
    BY <2>4, <2>5, <2>7, ElementsOfConcat
  <2>9. Batch(ToSet(Inputs(i)) \union {Output(i)}) = Batch(ToSet(Inputs(i))) \union Batch({Output(i)})
    BY DEF Batch
  <2>10. QED
    BY <1>2, <2>1, <2>2, <2>3, <2>5, <2>6, <2>7, <2>8, <2>9
<1>3. CASE Mixer(i) # "Attention"
  <2>1. BatchLayer(i) = RunMixer(i) \o Each("matmul_batch", Ffn(i))
    BY <1>3 DEF BatchLayer
  <2>2. QED
    BY <1>1, <1>3, <2>1, RunMixerElements, ElementsOfConcat
<1>4. QED
  BY <1>2, <1>3

LEMMA ResidentLayerElements ==
  ASSUME NEW i
  PROVE  /\ IsSequence(ResidentLayer(i))
         /\ ToSet(ResidentLayer(i)) =
              {Do("dims", i), Do("lookup", Tensors(Inputs(i)) \union MixerLookups(i)),
               Do("lookup", Tensors(<<Output(i)>>)),
               Do("lookup", Tensors(Ffn(i)) \union {<<"gpu_attn_norms", i>>, <<"gpu_ffn_norms", i>>})}
  BY ElementsOfFour DEF ResidentLayer

LEMMA HotLayerElements ==
  ASSUME NEW i
  PROVE  /\ IsSequence(HotLayer(i))
         /\ ToSet(HotLayer(i)) = ToSet(Inputs(i)) \union {Output(i)} \union ToSet(Ffn(i))
<1>1. /\ IsSequence(Inputs(i) \o <<Output(i)>>)
      /\ ToSet(Inputs(i) \o <<Output(i)>>) = ToSet(Inputs(i)) \union {Output(i)}
  BY LayerTensors, ElementsOfOne, ElementsOfConcat
<1>2. HotLayer(i) = (Inputs(i) \o <<Output(i)>>) \o Ffn(i)
  BY DEF HotLayer
<1>3. QED
  BY <1>1, <1>2, LayerTensors, ElementsOfConcat

LEMMA AroundLayers ==
  ASSUME file.blocks \in Nat,
         NEW F, F = [i \in Layers |-> F[i]], \A i \in Layers : IsSequence(F[i]),
         NEW before, IsSequence(before), NEW after, IsSequence(after)
  PROVE  /\ IsSequence(before \o FlattenSeq(F) \o after)
         /\ ToSet(before \o FlattenSeq(F) \o after) =
              ToSet(before) \union (UNION {ToSet(F[i]) : i \in Layers}) \union ToSet(after)
<1>1. /\ IsSequence(FlattenSeq(F))
      /\ ToSet(FlattenSeq(F)) = UNION {ToSet(F[i]) : i \in Layers}
  BY ElementsOfFlatten DEF Layers
<1>2. /\ IsSequence(before \o FlattenSeq(F))
      /\ ToSet(before \o FlattenSeq(F)) = ToSet(before) \union ToSet(FlattenSeq(F))
  BY <1>1, ElementsOfConcat
<1>3. QED
  BY <1>1, <1>2, ElementsOfConcat

LEMMA LoadProgramElements ==
  ASSUME file.blocks \in Nat
  PROVE  /\ IsSequence(LoadProgram)
         /\ ToSet(LoadProgram) =
              {Do("present", {T(0, "token_embd")})}
                \union (UNION {ToSet(LoadLayer(i)) : i \in Layers})
                \union {Do("present", {T(0, "output_norm"), T(0, "token_embd_norm")}), Do("dequant_row", OutputNorm)}
<1> DEFINE F == [i \in Layers |-> LoadLayer(i)]
           before == <<Do("present", {T(0, "token_embd")})>>
           after == <<Do("present", {T(0, "output_norm"), T(0, "token_embd_norm")}), Do("dequant_row", OutputNorm)>>
<1>1. LoadProgram = before \o FlattenSeq(F) \o after
  BY DEF LoadProgram, PerLayer
<1>2. F = [i \in Layers |-> F[i]] /\ \A i \in Layers : F[i] = LoadLayer(i) /\ IsSequence(F[i])
  BY LoadLayerElements
<1>3. IsSequence(before) /\ IsSequence(after)
  BY ElementsOfOne, ElementsOfTwo
<1>4. /\ ToSet(before) = {Do("present", {T(0, "token_embd")})}
      /\ ToSet(after) = {Do("present", {T(0, "output_norm"), T(0, "token_embd_norm")}), Do("dequant_row", OutputNorm)}
  BY ElementsOfOne, ElementsOfTwo
<1> HIDE DEF F, before, after
<1>5. UNION {ToSet(F[i]) : i \in Layers} = UNION {ToSet(LoadLayer(i)) : i \in Layers}
  BY <1>2
<1>6. /\ IsSequence(LoadProgram)
      /\ ToSet(LoadProgram) = ToSet(before) \union (UNION {ToSet(F[i]) : i \in Layers}) \union ToSet(after)
  BY <1>1, <1>2, <1>3, AroundLayers
<1>7. QED
  BY <1>4, <1>5, <1>6

LEMMA RunElements ==
  ASSUME file.blocks \in Nat
  PROVE  /\ IsSequence(Run)
         /\ ToSet(Run) =
              {Do("dequant_row", T(0, "token_embd"))}
                \union (UNION {ToSet(RunLayer(i)) : i \in Layers})
                \union {Do("matmul", lm_head)}
<1> DEFINE F == [i \in Layers |-> RunLayer(i)]
           before == Embedding
           after == <<Do("matmul", lm_head)>>
<1>1. Run = before \o FlattenSeq(F) \o after
  BY DEF Run, PerLayer
<1>2. F = [i \in Layers |-> F[i]] /\ \A i \in Layers : F[i] = RunLayer(i) /\ IsSequence(F[i])
  BY RunLayerElements
<1>3. IsSequence(before) /\ IsSequence(after)
  BY ElementsOfOne DEF Embedding
<1>4. /\ ToSet(before) = {Do("dequant_row", T(0, "token_embd"))}
      /\ ToSet(after) = {Do("matmul", lm_head)}
  BY ElementsOfOne DEF Embedding
<1> HIDE DEF F, before, after
<1>5. UNION {ToSet(F[i]) : i \in Layers} = UNION {ToSet(RunLayer(i)) : i \in Layers}
  BY <1>2
<1>6. /\ IsSequence(Run)
      /\ ToSet(Run) = ToSet(before) \union (UNION {ToSet(F[i]) : i \in Layers}) \union ToSet(after)
  BY <1>1, <1>2, <1>3, AroundLayers
<1>7. QED
  BY <1>4, <1>5, <1>6

LEMMA RunBatchElements ==
  ASSUME file.blocks \in Nat
  PROVE  /\ IsSequence(RunBatch)
         /\ ToSet(RunBatch) =
              {Do("dequant_row", T(0, "token_embd"))}
                \union (UNION {ToSet(BatchLayer(i)) : i \in Layers})
                \union {Do("matmul", lm_head)}
<1> DEFINE F == [i \in Layers |-> BatchLayer(i)]
           before == Embedding
           after == <<Do("matmul", lm_head)>>
<1>1. RunBatch = before \o FlattenSeq(F) \o after
  BY DEF RunBatch, PerLayer
<1>2. F = [i \in Layers |-> F[i]] /\ \A i \in Layers : F[i] = BatchLayer(i) /\ IsSequence(F[i])
  BY BatchLayerElements
<1>3. IsSequence(before) /\ IsSequence(after)
  BY ElementsOfOne DEF Embedding
<1>4. /\ ToSet(before) = {Do("dequant_row", T(0, "token_embd"))}
      /\ ToSet(after) = {Do("matmul", lm_head)}
  BY ElementsOfOne DEF Embedding
<1> HIDE DEF F, before, after
<1>5. UNION {ToSet(F[i]) : i \in Layers} = UNION {ToSet(BatchLayer(i)) : i \in Layers}
  BY <1>2
<1>6. /\ IsSequence(RunBatch)
      /\ ToSet(RunBatch) = ToSet(before) \union (UNION {ToSet(F[i]) : i \in Layers}) \union ToSet(after)
  BY <1>1, <1>2, <1>3, AroundLayers
<1>7. QED
  BY <1>4, <1>5, <1>6

LEMMA RunGpuResidentElements ==
  ASSUME file.blocks \in Nat
  PROVE  /\ IsSequence(RunGpuResident)
         /\ ToSet(RunGpuResident) =
              {Do("dequant_row", T(0, "token_embd"))}
                \union (UNION {ToSet(ResidentLayer(i)) : i \in Layers})
                \union {Do("lookup", {<<"gpu_output_norm", 0>>}), Do("lm_head", {<<"gpu_tensors", lm_head>>})}
<1> DEFINE F == [i \in Layers |-> ResidentLayer(i)]
           before == Embedding
           after == <<Do("lookup", {<<"gpu_output_norm", 0>>}), Do("lm_head", {<<"gpu_tensors", lm_head>>})>>
<1>1. RunGpuResident = before \o FlattenSeq(F) \o after
  BY DEF RunGpuResident, PerLayer
<1>2. F = [i \in Layers |-> F[i]] /\ \A i \in Layers : F[i] = ResidentLayer(i) /\ IsSequence(F[i])
  BY ResidentLayerElements
<1>3. IsSequence(before) /\ IsSequence(after)
  BY ElementsOfOne, ElementsOfTwo DEF Embedding
<1>4. /\ ToSet(before) = {Do("dequant_row", T(0, "token_embd"))}
      /\ ToSet(after) = {Do("lookup", {<<"gpu_output_norm", 0>>}), Do("lm_head", {<<"gpu_tensors", lm_head>>})}
  BY ElementsOfOne, ElementsOfTwo DEF Embedding
<1> HIDE DEF F, before, after
<1>5. UNION {ToSet(F[i]) : i \in Layers} = UNION {ToSet(ResidentLayer(i)) : i \in Layers}
  BY <1>2
<1>6. /\ IsSequence(RunGpuResident)
      /\ ToSet(RunGpuResident) = ToSet(before) \union (UNION {ToSet(F[i]) : i \in Layers}) \union ToSet(after)
  BY <1>1, <1>2, <1>3, AroundLayers
<1>7. QED
  BY <1>4, <1>5, <1>6

LEMMA HotPathElements ==
  ASSUME file.blocks \in Nat
  PROVE  /\ IsSequence(HotPath)
         /\ ToSet(HotPath) = (UNION {ToSet(HotLayer(i)) : i \in Layers}) \union {lm_head, T(0, "token_embd")}
<1> DEFINE F == [i \in Layers |-> HotLayer(i)]
<1>1. FlattenSeq(F) = PerLayer(HotLayer)
  BY DEF PerLayer
<1>2. /\ IsSequence(PerLayer(HotLayer))
      /\ ToSet(PerLayer(HotLayer)) = UNION {ToSet(HotLayer(i)) : i \in Layers}
  <2>1. /\ F = [i \in 1 .. file.blocks |-> F[i]]
        /\ \A i \in 1 .. file.blocks : IsSequence(F[i])
        /\ \A i \in 1 .. file.blocks : F[i] = HotLayer(i)
    BY HotLayerElements DEF Layers
  <2> HIDE DEF F
  <2>2. /\ IsSequence(FlattenSeq(F))
        /\ ToSet(FlattenSeq(F)) = UNION {ToSet(F[i]) : i \in 1 .. file.blocks}
    BY <2>1, ElementsOfFlatten
  <2>3. UNION {ToSet(F[i]) : i \in 1 .. file.blocks} = UNION {ToSet(HotLayer(i)) : i \in Layers}
    BY <2>1 DEF Layers
  <2>4. QED
    BY <1>1, <2>2, <2>3
<1> HIDE DEF F
<1> DEFINE middle == PerLayer(HotLayer)
           after == <<lm_head, T(0, "token_embd")>>
<1> DEFINE B == UNION {ToSet(HotLayer(i)) : i \in Layers}
           C == {lm_head, T(0, "token_embd")}
<1>3. IsSequence(middle) /\ ToSet(middle) = B
  BY <1>2
<1>4. IsSequence(after) /\ ToSet(after) = C
  BY ElementsOfTwo
<1>5. HotPath = middle \o after
  BY DEF HotPath
<1> HIDE DEF middle, after, B, C
<1>6. IsSequence(HotPath) /\ ToSet(HotPath) = B \union C
  BY <1>3, <1>4, <1>5, ElementsOfConcat
<1>7. QED
  BY <1>6 DEF B, C

LEMMA UploadProgramElements ==
  ASSUME file.blocks \in Nat
  PROVE  /\ IsSequence(UploadProgram)
         /\ ToSet(UploadProgram) = {Do("upload", t) : t \in ToSet(HotPath)}
  BY HotPathElements, ElementsOfEach DEF UploadProgram

-----------------------------------------------------------------------------
(* The invariant.                                                          *)

HotTensors == ToSet(HotPath)

(* The pass that runs.                                                     *)
Passes == IF Ready THEN {RunGpuResident} ELSE {Run, RunBatch}

LoadTypes ==
  /\ file \in Files /\ backend \in {"cpu", "wgpu"}
  /\ pc \in {"load", "upload", "warmup", "idle", "pass", "done"}
  /\ pc # "done" => result = "ok"
  /\ IsSequence(todo)
  /\ pc = "upload" => backend = "wgpu"

(* What is left to do is part of the program that runs.                    *)
OfProgram ==
  /\ pc = "load" => ToSet(todo) \subseteq ToSet(LoadProgram)
  /\ pc = "upload" => ToSet(todo) \subseteq ToSet(UploadProgram)
  /\ pc = "pass" => \E P \in Passes : ToSet(todo) \subseteq ToSet(P)

(* What is on the GPU, and what will be.                                   *)
GpuFilled ==
  /\ pc = "load" => gpu = {}
  /\ \A t \in HotTensors : OnGpu(t) => Uploadable(t) /\ Whole(t)
  /\ pc = "upload" =>
       \A t \in HotTensors : Uploadable(t) => OnGpu(t) \/ Do("upload", t) \in ToSet(todo)
  /\ (pc \in {"warmup", "idle", "pass"} /\ backend = "wgpu") =>
       \A t \in HotTensors : Uploadable(t) => OnGpu(t)
  /\ (pc = "pass" /\ Ready) => KvEntries \subseteq gpu

(* A QK-norm was uploaded because it could be read.                        *)
NormsFilled == \A e \in gpu : e[1] = "gpu_qk_norm" => Readable(e[2])

PathsInv == LoadTypes /\ OfProgram /\ GpuFilled /\ NormsFilled

-----------------------------------------------------------------------------
(* What the accesses of a program are about.                               *)

LEMMA FileTypes ==
  ASSUME file \in Files
  PROVE  /\ file.blocks \in Nat
         /\ \A t : Has(t) => /\ Format(t) \in {"gpu", "float", "bf16", "other"}
                           /\ Whole(t) \in BOOLEAN
  BY FilesAssumption DEF Has, Format, Whole

LEMMA Hot ==
  ASSUME file \in Files
  PROVE  /\ \A i \in Layers : /\ ToSet(Inputs(i)) \subseteq HotTensors /\ Output(i) \in HotTensors
                              /\ ToSet(Ffn(i)) \subseteq HotTensors
         /\ lm_head \in HotTensors /\ T(0, "token_embd") \in HotTensors
<1>1. HotTensors = (UNION {ToSet(HotLayer(i)) : i \in Layers}) \union {lm_head, T(0, "token_embd")}
  BY FileTypes, HotPathElements DEF HotTensors
<1>2. \A i \in Layers : ToSet(HotLayer(i)) \subseteq HotTensors
  BY <1>1
<1>3. QED
  BY <1>1, <1>2, HotLayerElements

LEMMA LoadAccess ==
  ASSUME file \in Files, NEW a \in ToSet(LoadProgram)
  PROVE  a.op \in {"present", "dequant_row", "dequant_tensor"}
<1>1. file.blocks \in Nat
  BY FileTypes
<1>2. CASE a \in {Do("present", {T(0, "token_embd")}),
                 Do("present", {T(0, "output_norm"), T(0, "token_embd_norm")}),
                 Do("dequant_row", OutputNorm)}
  BY <1>2 DEF Do
<1>3. ASSUME NEW i \in Layers, a \in ToSet(LoadLayer(i))
      PROVE  a.op \in {"present", "dequant_row", "dequant_tensor"}
  <2>1. a \in ToSet(LoadMixer(i)) \/ a \in Row({FfnNorm(i), T(i, "attn_norm")})
    BY <1>3, LoadLayerElements
  <2>2. ASSUME NEW ts, a \in Row(ts)  PROVE a.op = "dequant_row"
    BY <2>2 DEF Row, Do
  <2>3. CASE a \in ToSet(LoadMixer(i)) /\ Mixer(i) = "ShortConv"
    <3>1. ToSet(LoadMixer(i)) = {Do("dequant_tensor", T(i, "shortconv.conv"))}
      BY <2>3, LoadLayerElements
    <3>2. a = Do("dequant_tensor", T(i, "shortconv.conv"))
      BY <2>3, <3>1
    <3>3. QED
      BY <3>2 DEF Do
  <2>4. CASE a \in ToSet(LoadMixer(i)) /\ Mixer(i) = "GatedDeltaNet"
    <3>1. a = Do("dequant_tensor", T(i, "ssm_conv1d")) \/ a \in Row(LoadNeeds(i))
      BY <2>4, LoadLayerElements
    <3>2. QED
      BY <2>2, <3>1 DEF Do
  <2>5. CASE a \in ToSet(LoadMixer(i)) /\ Mixer(i) \notin {"ShortConv", "GatedDeltaNet"}
    <3>1. ToSet(LoadMixer(i)) = {Do("present", {T(i, "attn_q")})}
      BY <2>5, LoadLayerElements
    <3>2. a = Do("present", {T(i, "attn_q")})
      BY <2>5, <3>1
    <3>3. QED
      BY <3>2 DEF Do
  <2>6. QED
    BY <2>1, <2>2, <2>3, <2>4, <2>5
<1>4. QED
  BY <1>1, <1>2, <1>3, LoadProgramElements

LEMMA UploadAccess ==
  ASSUME file \in Files, NEW a \in ToSet(UploadProgram)
  PROVE  a.op = "upload" /\ a.of \in HotTensors /\ a = Do("upload", a.of)
  BY FileTypes, UploadProgramElements DEF HotTensors, Do

(* A tensor some matmul of this access reads is one of the hot path.       *)
PassAccess(a) ==
  \/ a.op = "dequant_row"
  \/ a.op \in {"matmul", "matmul_batch"} /\ a.of \in HotTensors
  \/ a.op = "together" /\ \E i \in Layers : a.of = Inputs(i)
  \/ a.op = "ffn" /\ \E i \in Layers : a.of = Ffn(i)
  \/ a.op = "dims" /\ a.of \in Layers

LEMMA RunMixerAccess ==
  ASSUME file \in Files, NEW i \in Layers, NEW a \in ToSet(RunMixer(i))
  PROVE  PassAccess(a)
<1>1. \/ a \in {Do("dims", i), Do("together", Inputs(i)), Do("matmul", Output(i))}
      \/ a \in Row(QkNorms(i))
  BY RunMixerElements
<1>2. CASE a \in Row(QkNorms(i))
  BY <1>2 DEF Row, Do, PassAccess
<1>3. CASE a = Do("dims", i)
  BY <1>3 DEF Do, PassAccess
<1>4. CASE a = Do("together", Inputs(i))
  BY <1>4 DEF Do, PassAccess
<1>5. CASE a = Do("matmul", Output(i))
  BY <1>5, Hot DEF Do, PassAccess
<1>6. QED
  BY <1>1, <1>2, <1>3, <1>4, <1>5

LEMMA RunAccess ==
  ASSUME file \in Files, NEW a \in ToSet(Run)
  PROVE  PassAccess(a)
<1>1. \/ a \in {Do("dequant_row", T(0, "token_embd")), Do("matmul", lm_head)}
      \/ \E i \in Layers : a \in ToSet(RunLayer(i))
  BY FileTypes, RunElements
<1>2. CASE a = Do("dequant_row", T(0, "token_embd"))
  BY <1>2 DEF Do, PassAccess
<1>3. CASE a = Do("matmul", lm_head)
  BY <1>3, Hot DEF Do, PassAccess
<1>4. ASSUME NEW i \in Layers, a \in ToSet(RunLayer(i))  PROVE PassAccess(a)
  <2>1. CASE a \in ToSet(RunMixer(i))
    BY <2>1, RunMixerAccess
  <2>2. CASE a = Do("ffn", Ffn(i))
    BY <2>2 DEF Do, PassAccess
  <2>3. QED
    BY <1>4, <2>1, <2>2, RunLayerElements
<1>5. QED
  BY <1>1, <1>2, <1>3, <1>4

LEMMA RunBatchAccess ==
  ASSUME file \in Files, NEW a \in ToSet(RunBatch)
  PROVE  PassAccess(a)
<1>1. \/ a \in {Do("dequant_row", T(0, "token_embd")), Do("matmul", lm_head)}
      \/ \E i \in Layers : a \in ToSet(BatchLayer(i))
  BY FileTypes, RunBatchElements
<1>2. CASE a = Do("dequant_row", T(0, "token_embd"))
  BY <1>2 DEF Do, PassAccess
<1>3. CASE a = Do("matmul", lm_head)
  BY <1>3, Hot DEF Do, PassAccess
<1>4. ASSUME NEW i \in Layers, a \in ToSet(BatchLayer(i))  PROVE PassAccess(a)
  <2>1. \/ a \in Batch(ToSet(Ffn(i)))
        \/ a \in Batch(ToSet(Inputs(i)) \union {Output(i)})
        \/ a \in Row(QkNorms(i))
        \/ a \in ToSet(RunMixer(i))
    BY <1>4, BatchLayerElements
  <2>2. ASSUME NEW ts, ts \subseteq HotTensors, a \in Batch(ts)  PROVE PassAccess(a)
    BY <2>2 DEF Batch, Do, PassAccess
  <2>3. ToSet(Ffn(i)) \subseteq HotTensors /\ ToSet(Inputs(i)) \union {Output(i)} \subseteq HotTensors
    BY Hot
  <2>4. CASE a \in Row(QkNorms(i))
    BY <2>4 DEF Row, Do, PassAccess
  <2>5. QED
    BY <2>1, <2>2, <2>3, <2>4, RunMixerAccess
<1>5. QED
  BY <1>1, <1>2, <1>3, <1>4

(* A model found ready has what a resident pass indexes.                   *)
LEMMA ResidentAccess ==
  ASSUME file \in Files, Ready, KvEntries \subseteq gpu, NEW a \in ToSet(RunGpuResident)
  PROVE  /\ a.op \in {"dequant_row", "dims", "lookup", "lm_head"}
         /\ a.op = "dims" => a.of \in Layers
         /\ a.op \in {"lookup", "lm_head"} => a.of \subseteq gpu
<1>1. \/ a = Do("dequant_row", T(0, "token_embd"))
      \/ a = Do("lookup", {<<"gpu_output_norm", 0>>})
      \/ a = Do("lm_head", {<<"gpu_tensors", lm_head>>})
      \/ \E i \in Layers : a \in ToSet(ResidentLayer(i))
  BY FileTypes, RunGpuResidentElements
<1>2. CASE a = Do("dequant_row", T(0, "token_embd"))
  BY <1>2 DEF Do
<1>3. CASE a = Do("lookup", {<<"gpu_output_norm", 0>>})
  BY <1>3 DEF Do, Ready
<1>4. CASE a = Do("lm_head", {<<"gpu_tensors", lm_head>>})
  BY <1>4 DEF Do, Ready, OnGpu
<1>5. ASSUME NEW i \in Layers, a \in ToSet(ResidentLayer(i))
      PROVE  /\ a.op \in {"dims", "lookup"}
             /\ a.op = "dims" => a.of \in Layers
             /\ a.op = "lookup" => a.of \subseteq gpu
  <2>1. /\ {"gpu_attn_norms", "gpu_ffn_norms"} \X {i} \subseteq gpu
        /\ MixerReady(i) /\ \A t \in ToSet(Ffn(i)) : OnGpu(t)
    BY DEF Ready
  <2>2. ASSUME NEW ts, \A t \in ToSet(ts) : OnGpu(t)  PROVE Tensors(ts) \subseteq gpu
    BY <2>2 DEF OnGpu, Tensors
  <2>3. \A t \in ToSet(Inputs(i)) \union {Output(i)} : OnGpu(t)
    BY <2>1 DEF MixerReady
  <2>4. MixerLookups(i) \subseteq gpu
    <3>1. CASE Mixer(i) = "ShortConv"
      BY <2>1, <3>1 DEF MixerLookups, MixerReady
    <3>2. CASE Mixer(i) = "GatedDeltaNet"
      BY <2>1, <3>2 DEF MixerLookups, MixerReady
    <3>3. CASE Mixer(i) \in {"Attention", "GatedAttention"}
      <4>1. MixerLookups(i) = ({"gpu_qk_norm"} \X QkNorms(i)) \union ({"gpu_kv_cache_k", "gpu_kv_cache_v"} \X {i})
        BY <3>3 DEF MixerLookups
      <4>2. {"gpu_qk_norm"} \X QkNorms(i) \subseteq gpu
        BY <2>1 DEF MixerReady
      <4>3. {"gpu_kv_cache_k", "gpu_kv_cache_v"} \X {i} \subseteq KvEntries
        BY <3>3 DEF KvEntries
      <4>4. QED
        BY <4>1, <4>2, <4>3
    <3>4. QED
      BY <3>1, <3>2, <3>3, Mixers
  <2>5. {<<"gpu_attn_norms", i>>, <<"gpu_ffn_norms", i>>} \subseteq gpu
    BY <2>1
  <2>6. Tensors(Inputs(i)) \subseteq gpu /\ Tensors(<<Output(i)>>) \subseteq gpu /\ Tensors(Ffn(i)) \subseteq gpu
    <3>1. ToSet(<<Output(i)>>) = {Output(i)}
      BY ElementsOfOne
    <3>2. QED
      BY <2>1, <2>2, <2>3, <3>1
  <2>7. \/ a = Do("dims", i)
        \/ a = Do("lookup", Tensors(Inputs(i)) \union MixerLookups(i))
        \/ a = Do("lookup", Tensors(<<Output(i)>>))
        \/ a = Do("lookup", Tensors(Ffn(i)) \union {<<"gpu_attn_norms", i>>, <<"gpu_ffn_norms", i>>})
    BY <1>5, ResidentLayerElements
  <2>8. QED
    BY <2>4, <2>5, <2>6, <2>7 DEF Do
<1>6. QED
  BY <1>1, <1>2, <1>3, <1>4, <1>5

-----------------------------------------------------------------------------
(* What a step leaves alone.                                               *)

LEMMA SameFile ==
  ASSUME file' = file
  PROVE  /\ HotTensors' = HotTensors /\ Layers' = Layers /\ KvEntries' = KvEntries
         /\ LoadProgram' = LoadProgram /\ UploadProgram' = UploadProgram
         /\ Run' = Run /\ RunBatch' = RunBatch /\ RunGpuResident' = RunGpuResident
         /\ \A t : /\ Uploadable(t)' = Uploadable(t) /\ Whole(t)' = Whole(t)
                  /\ Readable(t)' = Readable(t)
<1>1. /\ Layers' = Layers /\ lm_head' = lm_head
      /\ \A t : Has(t)' = Has(t) /\ Format(t)' = Format(t) /\ Whole(t)' = Whole(t)
  BY DEF Layers, lm_head, Has, Format, Whole
<1>2. \A t : Uploadable(t)' = Uploadable(t) /\ Readable(t)' = Readable(t)
  BY <1>1 DEF Uploadable, Readable
<1>3. HotTensors' = HotTensors /\ UploadProgram' = UploadProgram
  BY SMT DEF HotTensors, UploadProgram, HotPath, HotLayer, Each, PerLayer, Layers, Inputs, Output,
             Ffn, lm_head, Mixer, Has
<1>4. LoadProgram' = LoadProgram
  BY SMT DEF LoadProgram, LoadLayer, LoadMixer, FfnNorm, OutputNorm, PerLayer, Layers, Mixer, Has
<1>5. Run' = Run /\ RunBatch' = RunBatch
  BY SMT DEF Run, RunBatch, RunLayer, BatchLayer, RunMixer, Embedding, QkNorms, Each, PerLayer,
             Layers, Inputs, Output, Ffn, lm_head, Mixer, Has
<1>6. RunGpuResident' = RunGpuResident
  BY SMT DEF RunGpuResident, ResidentLayer, MixerLookups, Embedding, QkNorms, PerLayer, Tensors,
             Layers, Inputs, Output, Ffn, lm_head, Mixer, Has
<1>7. KvEntries' = KvEntries
  BY SMT DEF KvEntries, Layers, Mixer, Has
<1>8. QED
  BY <1>1, <1>2, <1>3, <1>4, <1>5, <1>6, <1>7

LEMMA SameReady ==
  ASSUME file' = file, backend' = backend, gpu' = gpu
  PROVE  Ready' = Ready
  BY SMT DEF Ready, MixerReady, QkNorms, OnGpu, Layers, Inputs, Output, Ffn, lm_head, Mixer, Has

(* A full cache makes no model ready, nor unready.                         *)
LEMMA ReadyStays ==
  ASSUME file' = file, backend' = backend, gpu \subseteq gpu', Ready
  PROVE  Ready'
<1>1. \A t : OnGpu(t) => OnGpu(t)'
  BY DEF OnGpu
<1>2. /\ Layers' = Layers /\ lm_head' = lm_head
      /\ \A i : /\ Inputs(i)' = Inputs(i) /\ Output(i)' = Output(i) /\ Ffn(i)' = Ffn(i)
               /\ Mixer(i)' = Mixer(i) /\ QkNorms(i)' = QkNorms(i)
  BY SMT DEF Layers, QkNorms, Inputs, Output, Ffn, lm_head, Mixer, Has
<1>3. ASSUME NEW i \in Layers, MixerReady(i)  PROVE MixerReady(i)'
  <2>1. \A t \in ToSet(Inputs(i)') \union {Output(i)'} : OnGpu(t)'
    BY <1>1, <1>2, <1>3 DEF MixerReady
  <2>2. {"gpu_qk_norm"} \X QkNorms(i)' \subseteq gpu'
    BY <1>2, <1>3 DEF MixerReady
  <2>3. Mixer(i)' = "ShortConv" => {"gpu_conv_weights", "gpu_conv_history"} \X {i} \subseteq gpu'
    BY <1>2, <1>3 DEF MixerReady
  <2>4. Mixer(i)' = "GatedDeltaNet" => GdnMaps \X {i} \subseteq gpu'
    BY <1>2, <1>3 DEF MixerReady
  <2>5. QED
    BY <2>1, <2>2, <2>3, <2>4 DEF MixerReady
<1>4. QED
  BY <1>1, <1>2, <1>3 DEF Ready

-----------------------------------------------------------------------------
(* The invariant is inductive.                                             *)

LEMMA PathsInit == Init => PathsInv
<1> SUFFICES ASSUME Init  PROVE PathsInv
  OBVIOUS
<1>1. file \in Files /\ backend \in {"cpu", "wgpu"} /\ IsSequence(LoadProgram)
  BY BackendsAssumption, FileTypes, LoadProgramElements DEF Init
<1>2. \A t : ~OnGpu(t)
  BY DEF Init, OnGpu
<1>3. QED
  BY <1>1, <1>2 DEF Init, PathsInv, LoadTypes, OfProgram, GpuFilled, NormsFilled

(* Only pre_upload_gpu adds tensors.                                       *)
LEMMA OnlyUploadsFill ==
  ASSUME PathsInv, Access, pc # "upload"
  PROVE  gpu' = gpu
<1> DEFINE a == Head(todo)
<1>1. /\ pc \in {"load", "pass"} /\ todo # <<>>
      /\ a.op # "upload" => gpu' = gpu
  BY DEF Access
<1>2. a \in ToSet(todo) /\ file \in Files
  BY <1>1, ElementsOfTail DEF PathsInv, LoadTypes
<1> HIDE DEF a
<1>3. CASE pc = "load"
  BY <1>1, <1>2, <1>3, LoadAccess DEF PathsInv, OfProgram
<1>4. CASE pc = "pass" /\ Ready
  BY <1>1, <1>2, <1>4, ResidentAccess DEF PathsInv, OfProgram, GpuFilled, Passes
<1>5. CASE pc = "pass" /\ ~Ready
  <2>1. PassAccess(a)
    BY <1>2, <1>5, RunAccess, RunBatchAccess DEF PathsInv, OfProgram, Passes
  <2>2. QED
    BY <1>1, <2>1 DEF PassAccess
<1>6. QED
  BY <1>1, <1>3, <1>4, <1>5

LEMMA PassesStay ==
  ASSUME PathsInv, Access, pc = "pass"
  PROVE  Passes' = Passes
<1>1. file' = file /\ backend' = backend /\ gpu' = gpu
  BY OnlyUploadsFill DEF Access
<1>2. QED
  BY <1>1, SameFile, SameReady DEF Passes

LEMMA PathsAccess == PathsInv /\ Access => PathsInv'
<1> SUFFICES ASSUME PathsInv, Access  PROVE PathsInv'
  OBVIOUS
<1> DEFINE a == Head(todo)
<1>1. /\ file' = file /\ backend' = backend /\ compiled' = compiled /\ todo' = Tail(todo)
      /\ pc \in {"load", "upload", "pass"} /\ todo # <<>>
      /\ pc' = (IF Outcome(a) = "ok" THEN pc ELSE "done") /\ result' = Outcome(a)
      /\ gpu' = (IF a.op = "upload" /\ Uploadable(a.of) /\ Outcome(a) = "ok"
                 THEN gpu \union {<<"gpu_tensors", a.of>>} ELSE gpu)
      /\ stalls' = stalls \union (Kernels(a) \ compiled)
  BY DEF Access
<1>2. /\ a \in ToSet(todo) /\ IsSequence(todo') /\ ToSet(todo) = {a} \union ToSet(todo')
  BY <1>1, ElementsOfTail DEF PathsInv, LoadTypes
<1> HIDE DEF a
<1>3. LoadTypes'
  BY <1>1, <1>2 DEF PathsInv, LoadTypes
<1>4. file \in Files
  BY DEF PathsInv, LoadTypes
<1>5. pc # "upload" => gpu' = gpu
  BY OnlyUploadsFill
<1>6. OfProgram'
  <2>1. ToSet(todo') \subseteq ToSet(todo) /\ ToSet(todo)' = ToSet(todo')
    BY <1>2
  <2>2. pc' = "load" => ToSet(todo)' \subseteq ToSet(LoadProgram)'
    BY <1>1, <2>1, SameFile DEF PathsInv, OfProgram
  <2>3. pc' = "upload" => ToSet(todo)' \subseteq ToSet(UploadProgram)'
    BY <1>1, <2>1, SameFile DEF PathsInv, OfProgram
  <2>4. ASSUME pc' = "pass"  PROVE \E P \in Passes' : ToSet(todo)' \subseteq ToSet(P)
    <3>1. pc = "pass" /\ gpu' = gpu
      BY <1>1, <1>5, <2>4
    <3>2. Passes' = Passes
      BY <1>1, <3>1, SameFile, SameReady DEF Passes
    <3>3. QED
      BY <2>1, <3>1, <3>2 DEF PathsInv, OfProgram
  <2>5. QED
    BY <2>2, <2>3, <2>4 DEF OfProgram
<1>7. GpuFilled'
  <2>1. /\ HotTensors' = HotTensors /\ KvEntries' = KvEntries
        /\ \A t : Uploadable(t)' = Uploadable(t) /\ Whole(t)' = Whole(t)
    BY <1>1, SameFile
  <2>2. \A t : OnGpu(t) => OnGpu(t)'
    BY <1>1 DEF OnGpu
  <2>3. \A t : OnGpu(t)' => OnGpu(t) \/ (a.op = "upload" /\ Uploadable(a.of) /\ Outcome(a) = "ok" /\ t = a.of)
    BY <1>1 DEF OnGpu
  <2>4. \A t \in HotTensors : OnGpu(t)' => Uploadable(t) /\ Whole(t)
    <3>1. (a.op = "upload" /\ Uploadable(a.of) /\ Outcome(a) = "ok") => Whole(a.of)
      BY DEF Outcome
    <3>2. QED
      BY <2>3, <3>1 DEF PathsInv, GpuFilled
  <2>5. pc' = "load" => gpu' = {}
    BY <1>1, <1>5 DEF PathsInv, GpuFilled
  <2>6. ASSUME pc' = "upload", NEW t \in HotTensors, Uploadable(t)
        PROVE  OnGpu(t)' \/ Do("upload", t) \in ToSet(todo')
    <3>1. pc = "upload" /\ Outcome(a) = "ok"
      BY <1>1, <2>6
    <3>2. OnGpu(t) \/ Do("upload", t) = a \/ Do("upload", t) \in ToSet(todo')
      BY <1>2, <2>6, <3>1 DEF PathsInv, GpuFilled
    <3>3. CASE Do("upload", t) = a
      <4>1. a.op = "upload" /\ a.of = t
        BY <3>3 DEF Do
      <4>2. gpu' = gpu \union {<<"gpu_tensors", t>>}
        BY <1>1, <2>6, <3>1, <4>1
      <4>3. QED
        BY <4>2 DEF OnGpu
    <3>4. QED
      BY <2>2, <3>2, <3>3
  <2>7. (pc' \in {"warmup", "idle", "pass"} /\ backend' = "wgpu") =>
           \A t \in HotTensors : Uploadable(t) => OnGpu(t)'
    <3>1. pc' \in {"warmup", "idle", "pass"} => pc = "pass"
      BY <1>1
    <3>2. QED
      BY <1>1, <2>2, <3>1 DEF PathsInv, GpuFilled
  <2>8. (pc' = "pass" /\ Ready') => KvEntries \subseteq gpu'
    <3>1. pc' = "pass" => pc = "pass" /\ gpu' = gpu
      BY <1>1, <1>5
    <3>2. gpu' = gpu => Ready' = Ready
      BY <1>1, SameReady
    <3>3. QED
      BY <3>1, <3>2 DEF PathsInv, GpuFilled
  <2>9. QED
    BY <2>1, <2>4, <2>5, <2>6, <2>7, <2>8 DEF GpuFilled
<1>8. NormsFilled'
  <2>1. ASSUME NEW e \in gpu', e[1] = "gpu_qk_norm"  PROVE e \in gpu
    <3>1. e # <<"gpu_tensors", a.of>>
      BY <2>1
    <3>2. QED
      BY <1>1, <3>1
  <2>2. QED
    BY <1>1, <2>1, SameFile DEF PathsInv, NormsFilled
<1>9. QED
  BY <1>3, <1>6, <1>7, <1>8 DEF PathsInv

LEMMA PathsLoaded == PathsInv /\ Loaded => PathsInv'
<1> SUFFICES ASSUME PathsInv, Loaded  PROVE PathsInv'
  OBVIOUS
<1>1. /\ UNCHANGED <<file, backend, gpu, compiled, stalls, result>> /\ pc = "load"
      /\ pc' = IF backend = "wgpu" THEN "upload" ELSE "idle"
      /\ todo' = IF backend = "wgpu" THEN UploadProgram ELSE <<>>
  BY DEF Loaded
<1>2. /\ HotTensors' = HotTensors /\ UploadProgram' = UploadProgram
      /\ \A t : Uploadable(t)' = Uploadable(t) /\ Whole(t)' = Whole(t)
  BY <1>1, SameFile
<1>3. file \in Files /\ gpu = {}
  BY <1>1 DEF PathsInv, LoadTypes, GpuFilled
<1>4. IsSequence(UploadProgram) /\ ToSet(UploadProgram) = {Do("upload", t) : t \in HotTensors}
  BY <1>3, FileTypes, UploadProgramElements DEF HotTensors
<1>5. IsSequence(todo')
  <2>1. IsSequence(<<>>)
    BY EmptySeq, IsSequenceIntro
  <2>2. QED
    BY <1>1, <1>4, <2>1
<1>6. \A t : ~OnGpu(t)'
  BY <1>1, <1>3 DEF OnGpu
<1>7. LoadTypes'
  BY <1>1, <1>5 DEF PathsInv, LoadTypes
<1>8. OfProgram'
  BY <1>1, <1>2 DEF OfProgram
<1>9. GpuFilled'
  BY <1>1, <1>2, <1>4, <1>6 DEF GpuFilled
<1>10. NormsFilled'
  BY <1>1, SameFile DEF PathsInv, NormsFilled
<1>11. QED
  BY <1>7, <1>8, <1>9, <1>10 DEF PathsInv

LEMMA PathsUploadSmall == PathsInv /\ UploadSmall => PathsInv'
<1> SUFFICES ASSUME PathsInv, UploadSmall  PROVE PathsInv'
  OBVIOUS
<1>1. /\ UNCHANGED <<file, backend, todo, compiled, stalls, result>>
      /\ pc = "upload" /\ pc' = "warmup" /\ todo = <<>>
      /\ gpu' = gpu \union {<<"gpu_output_norm", 0>>} \union (UNION {SmallMaps(i) : i \in Layers})
  BY DEF UploadSmall
<1>2. /\ HotTensors' = HotTensors
      /\ \A t : Uploadable(t)' = Uploadable(t) /\ Whole(t)' = Whole(t)
  BY <1>1, SameFile
<1>3. ASSUME NEW i, NEW t  PROVE <<"gpu_tensors", t>> \notin SmallMaps(i)
  BY SMT DEF SmallMaps, GdnMaps
<1>4. \A t : OnGpu(t)' <=> OnGpu(t)
  BY <1>1, <1>3 DEF OnGpu
<1>5. ToSet(todo) = {}
  BY <1>1 DEF ToSet
<1>6. LoadTypes' /\ OfProgram'
  BY <1>1 DEF PathsInv, LoadTypes, OfProgram
<1>7. GpuFilled'
  BY <1>1, <1>2, <1>4, <1>5 DEF PathsInv, GpuFilled
<1>8. NormsFilled'
  <2> SUFFICES ASSUME NEW e \in gpu', e[1] = "gpu_qk_norm"  PROVE Readable(e[2])
    BY <1>1, SameFile DEF NormsFilled
  <2>1. ASSUME NEW i, e \in SmallMaps(i)  PROVE Readable(e[2])
    <3>1. e \in {"gpu_qk_norm"} \X {t \in QkNorms(i) : DequantRow(t) = "ok"}
      BY <2>1 DEF SmallMaps, GdnMaps
    <3>2. QED
      BY <3>1 DEF DequantRow, Readable
  <2>2. CASE e \in gpu
    BY <2>2 DEF PathsInv, NormsFilled
  <2>3. QED
    BY <1>1, <2>1, <2>2
<1>9. QED
  BY <1>6, <1>7, <1>8 DEF PathsInv

LEMMA PathsWarmup == PathsInv /\ Warmup => PathsInv'
<1> SUFFICES ASSUME PathsInv, Warmup  PROVE PathsInv'
  OBVIOUS
<1>1. /\ UNCHANGED <<file, backend, todo, gpu, stalls, result>>
      /\ pc = "warmup" /\ pc' = "idle" /\ compiled' = Warmed
  BY DEF Warmup
<1>2. /\ HotTensors' = HotTensors
      /\ \A t : Uploadable(t)' = Uploadable(t) /\ Whole(t)' = Whole(t)
  BY <1>1, SameFile
<1>3. \A t : OnGpu(t)' <=> OnGpu(t)
  BY <1>1 DEF OnGpu
<1>4. LoadTypes' /\ OfProgram'
  BY <1>1 DEF PathsInv, LoadTypes, OfProgram
<1>5. GpuFilled'
  BY <1>1, <1>2, <1>3 DEF PathsInv, GpuFilled
<1>6. NormsFilled'
  BY <1>1, SameFile DEF PathsInv, NormsFilled
<1>7. QED
  BY <1>4, <1>5, <1>6 DEF PathsInv

LEMMA PathsForward == PathsInv /\ Forward => PathsInv'
<1> SUFFICES ASSUME PathsInv, Forward  PROVE PathsInv'
  OBVIOUS
<1>1. /\ UNCHANGED <<file, backend, compiled, stalls, result>>
      /\ pc = "idle" /\ pc' = "pass"
      /\ Ready => todo' = RunGpuResident /\ gpu' = gpu \union KvEntries
      /\ ~Ready => todo' \in {Run, RunBatch} /\ gpu' = gpu
  BY DEF Forward
<1>2. /\ HotTensors' = HotTensors /\ KvEntries' = KvEntries
      /\ Run' = Run /\ RunBatch' = RunBatch /\ RunGpuResident' = RunGpuResident
      /\ \A t : Uploadable(t)' = Uploadable(t) /\ Whole(t)' = Whole(t)
  BY <1>1, SameFile
<1>3. file \in Files
  BY DEF PathsInv, LoadTypes
<1>4. Ready' <=> Ready
  BY <1>1, SameReady, ReadyStays
<1>5. \A t : OnGpu(t)' <=> OnGpu(t)
  <2>1. ASSUME NEW t, <<"gpu_tensors", t>> \in KvEntries  PROVE FALSE
    <3>1. PICK i \in Layers : <<"gpu_tensors", t>> \in
            IF Mixer(i) \in {"Attention", "GatedAttention"}
            THEN {"gpu_kv_cache_k", "gpu_kv_cache_v"} \X {i} ELSE {}
      BY <2>1, Zenon DEF KvEntries
    <3>2. QED
      BY <3>1
  <2>2. QED
    BY <1>1, <2>1 DEF OnGpu
<1>6. LoadTypes'
  <2>1. IsSequence(todo')
    BY <1>1, <1>3, FileTypes, RunElements, RunBatchElements, RunGpuResidentElements
  <2>2. QED
    BY <1>1, <2>1 DEF PathsInv, LoadTypes
<1>7. OfProgram'
  <2>1. \E P \in Passes' : ToSet(todo') \subseteq ToSet(P)
    BY <1>1, <1>2, <1>4 DEF Passes
  <2>2. QED
    BY <1>1, <2>1 DEF OfProgram
<1>8. GpuFilled'
  BY <1>1, <1>2, <1>4, <1>5 DEF PathsInv, GpuFilled
<1>9. NormsFilled'
  <2>1. ASSUME NEW e \in KvEntries  PROVE e[1] # "gpu_qk_norm"
    <3>1. PICK i \in Layers : e \in IF Mixer(i) \in {"Attention", "GatedAttention"}
                                 THEN {"gpu_kv_cache_k", "gpu_kv_cache_v"} \X {i} ELSE {}
      BY <2>1, Zenon DEF KvEntries
    <3>2. QED
      BY <3>1
  <2>2. QED
    BY <1>1, <2>1, SameFile DEF PathsInv, NormsFilled
<1>10. QED
  BY <1>6, <1>7, <1>8, <1>9 DEF PathsInv

LEMMA PathsSame ==
  ASSUME PathsInv, UNCHANGED <<file, backend, todo, gpu, compiled, stalls, result>>,
         pc' \in {pc, "done"}
  PROVE  PathsInv'
<1>1. /\ HotTensors' = HotTensors /\ KvEntries' = KvEntries
      /\ LoadProgram' = LoadProgram /\ UploadProgram' = UploadProgram
      /\ Run' = Run /\ RunBatch' = RunBatch /\ RunGpuResident' = RunGpuResident
      /\ \A t : Uploadable(t)' = Uploadable(t) /\ Whole(t)' = Whole(t)
  BY SameFile
<1>2. Ready' = Ready /\ Passes' = Passes
  BY <1>1, SameReady DEF Passes
<1>3. \A t : OnGpu(t)' <=> OnGpu(t)
  BY DEF OnGpu
<1>4. LoadTypes' /\ OfProgram'
  BY <1>1, <1>2 DEF PathsInv, LoadTypes, OfProgram
<1>5. GpuFilled'
  BY <1>1, <1>2, <1>3 DEF PathsInv, GpuFilled
<1>6. NormsFilled'
  BY SameFile DEF PathsInv, NormsFilled
<1>7. QED
  BY <1>4, <1>5, <1>6 DEF PathsInv

LEMMA PathsStep == PathsInv /\ [Next]_vars => PathsInv'
<1> SUFFICES ASSUME PathsInv, [Next]_vars  PROVE PathsInv'
  OBVIOUS
<1>1. CASE Return
  BY <1>1, PathsSame DEF Return
<1>2. CASE UNCHANGED vars
  BY <1>2, PathsSame DEF vars
<1>3. QED
  BY <1>1, <1>2, PathsAccess, PathsLoaded, PathsUploadSmall, PathsWarmup, PathsForward DEF Next

(* What the runs and the proofs below have in common.                      *)
THEOREM PathsInductive == Spec => []PathsInv
  BY PathsInit, PathsStep, PTL DEF Spec

(* A resident pass finds every entry it indexes, for every file and at     *)
(* every point of the pass (gpu_resident_ready_backend, run_gpu_resident). *)
THEOREM ResidentPassesComplete == Spec => []ResidentComplete
<1>1. PathsInv => ResidentComplete
  <2> SUFFICES ASSUME PathsInv, pc = "pass", Ready,
                      NEW k \in DOMAIN todo, todo[k].op \in {"lookup", "lm_head"}
               PROVE  todo[k].of \subseteq gpu
    BY DEF ResidentComplete
  <2>1. file \in Files /\ KvEntries \subseteq gpu
    BY DEF PathsInv, LoadTypes, GpuFilled
  <2>2. todo[k] \in ToSet(RunGpuResident)
    BY DEF PathsInv, OfProgram, Passes, ToSet
  <2>3. QED
    BY <2>1, <2>2, ResidentAccess
<1>2. QED
  BY <1>1, PathsInductive, PTL

(* No matmul of a pass uploads its weight again: what a kernel can read is *)
(* on the GPU when the first pass starts (pre_upload_gpu, matmul_into).    *)
THEOREM NoAdHocUpload == Spec => []HotPathUploaded
<1>1. PathsInv => HotPathUploaded
  <2> SUFFICES ASSUME PathsInv, pc = "pass", NEW k \in DOMAIN todo, NEW t \in Matmuls(todo[k])
               PROVE  ~AdHoc(t)
    BY DEF HotPathUploaded
  <2> DEFINE a == todo[k]
  <2>1. file \in Files /\ a \in ToSet(todo)
    BY DEF PathsInv, LoadTypes, ToSet
  <2> HIDE DEF a
  <2>2. \A u \in HotTensors : ~AdHoc(u)
    BY DEF PathsInv, GpuFilled, AdHoc, Uploadable
  <2>3. t \in Matmuls(a)
    BY DEF a
  <2>4. CASE Ready
    <3>1. a.op \in {"dequant_row", "dims", "lookup", "lm_head"}
      BY <2>1, <2>4, ResidentAccess DEF PathsInv, OfProgram, GpuFilled, Passes
    <3>2. QED
      BY <2>3, <3>1 DEF Matmuls
  <2>5. CASE ~Ready
    <3>1. PassAccess(a)
      BY <2>1, <2>5, RunAccess, RunBatchAccess DEF PathsInv, OfProgram, Passes
    <3>2. CASE a.op = "matmul" /\ a.of \in HotTensors
      BY <2>2, <2>3, <3>2 DEF Matmuls
    <3>3. CASE a.op = "together" /\ \E i \in Layers : a.of = Inputs(i)
      <4>1. t \in ToSet(a.of)
        BY <2>3, <3>3 DEF Matmuls
      <4>2. QED
        BY <2>1, <2>2, <3>3, <4>1, Hot
    <3>4. CASE a.op = "ffn" /\ \E i \in Layers : a.of = Ffn(i)
      <4>1. PICK i \in Layers : a.of = Ffn(i)
        BY <3>4
      <4>2. t = T(i, "ffn_down")
        BY <2>3, <3>4, <4>1 DEF Matmuls, Ffn
      <4>3. QED
        BY <2>1, <2>2, <4>2, Hot, LayerTensors
    <3>5. CASE a.op \in {"dequant_row", "dims", "matmul_batch"}
      BY <2>3, <3>5 DEF Matmuls
    <3>6. QED
      BY <3>1, <3>2, <3>3, <3>4, <3>5 DEF PassAccess
  <2>6. QED
    BY <2>4, <2>5
<1>2. QED
  BY <1>1, PathsInductive, PTL

-----------------------------------------------------------------------------
(* What an access wants of the file, and that it is what decides.          *)

Tap(t) == Readable(t) /\ Format(t) # "bf16"

Wants(a) ==
  CASE a.op \in {"dequant_row", "matmul", "matmul_batch"} -> Readable(a.of)
    [] a.op \in {"together", "ffn"} -> \A t \in ToSet(a.of) : Readable(t)
    [] a.op = "dequant_tensor" -> Tap(a.of)
    [] a.op = "present" -> \E t \in a.of : Has(t)
    [] OTHER -> TRUE

(* The tensors of the file that loading and a pass want.                   *)
LoadGood ==
  /\ Readable(OutputNorm)
  /\ \A i \in Layers :
       /\ Readable(FfnNorm(i)) /\ Readable(T(i, "attn_norm"))
       /\ \A t \in LoadNeeds(i) : Readable(t)
       /\ Mixer(i) = "ShortConv" => Tap(T(i, "shortconv.conv"))
       /\ Mixer(i) = "GatedDeltaNet" => Tap(T(i, "ssm_conv1d"))

PassGood ==
  /\ Readable(T(0, "token_embd")) /\ Readable(lm_head)
  /\ \A i \in Layers : \A t \in ToSet(Inputs(i)) \union {Output(i)} \union ToSet(Ffn(i)) \union QkNorms(i) :
       Readable(t)

Good == (\A t \in Needed : Readable(t)) /\ (\A t \in Taps : Readable(t) /\ Format(t) # "bf16")

LEMMA GoodSplit == Good <=> LoadGood /\ PassGood
<1>1. ASSUME Good  PROVE LoadGood /\ PassGood
  <2>1. ASSUME NEW i \in Layers,
               NEW t \in ToSet(Inputs(i)) \union {Output(i)} \union ToSet(Ffn(i)) \union QkNorms(i)
                        \union LoadNeeds(i) \union {FfnNorm(i), T(i, "attn_norm")}
        PROVE  Readable(t)
    <3>1. t \in Needed
      BY <2>1 DEF Needed
    <3>2. QED
      BY <1>1, <3>1 DEF Good
  <2>2. Readable(T(0, "token_embd")) /\ Readable(lm_head) /\ Readable(OutputNorm)
    BY <1>1 DEF Good, Needed
  <2>3. ASSUME NEW i \in Layers
        PROVE  /\ Mixer(i) = "ShortConv" => Tap(T(i, "shortconv.conv"))
               /\ Mixer(i) = "GatedDeltaNet" => Tap(T(i, "ssm_conv1d"))
    <3>1. \A t \in Taps : Tap(t)
      BY <1>1 DEF Good, Tap
    <3>2. Mixer(i) = "ShortConv" => T(i, "shortconv.conv") \in Taps
      BY DEF Taps
    <3>3. Mixer(i) = "GatedDeltaNet" => T(i, "ssm_conv1d") \in Taps
      BY DEF Taps
    <3>4. QED
      BY <3>1, <3>2, <3>3
  <2>4. LoadGood
    BY <2>1, <2>2, <2>3 DEF LoadGood
  <2>5. PassGood
    BY <2>1, <2>2 DEF PassGood
  <2>6. QED
    BY <2>4, <2>5
<1>2. ASSUME LoadGood, PassGood  PROVE Good
  <2>1. ASSUME NEW t \in Needed  PROVE Readable(t)
    <3>1. CASE t \in {T(0, "token_embd"), lm_head, OutputNorm}
      BY <1>2, <3>1 DEF LoadGood, PassGood
    <3>2. CASE \E i \in Layers :
                 t \in ToSet(Inputs(i)) \union {Output(i)} \union ToSet(Ffn(i)) \union QkNorms(i)
                       \union LoadNeeds(i) \union {FfnNorm(i), T(i, "attn_norm")}
      BY <1>2, <3>2 DEF LoadGood, PassGood
    <3>3. QED
      BY <2>1, <3>1, <3>2 DEF Needed
  <2>2. \A t \in Taps : Tap(t)
    BY <1>2 DEF LoadGood, Taps
  <2>3. QED
    BY <2>1, <2>2 DEF Good, Tap
<1>3. QED
  BY <1>1, <1>2

LEMMA RowWants ==
  ASSUME NEW ts
  PROVE  (\A a \in Row(ts) \union Batch(ts) : Wants(a)) <=> (\A t \in ts : Readable(t))
<1>1. ASSUME NEW t  PROVE /\ Wants(Do("dequant_row", t)) <=> Readable(t)
                          /\ Wants(Do("matmul_batch", t)) <=> Readable(t)
  BY DEF Wants, Do
<1>2. QED
  BY <1>1 DEF Row, Batch

LEMMA DoWants ==
  ASSUME NEW x
  PROVE  /\ Wants(Do("dequant_row", x)) <=> Readable(x)
         /\ Wants(Do("matmul", x)) <=> Readable(x)
         /\ Wants(Do("matmul_batch", x)) <=> Readable(x)
         /\ Wants(Do("together", x)) <=> \A t \in ToSet(x) : Readable(t)
         /\ Wants(Do("ffn", x)) <=> \A t \in ToSet(x) : Readable(t)
         /\ Wants(Do("dequant_tensor", x)) <=> Tap(x)
         /\ Wants(Do("present", x)) <=> \E t \in x : Has(t)
         /\ Wants(Do("dims", x)) /\ Wants(Do("lookup", x)) /\ Wants(Do("lm_head", x))
  BY DEF Wants, Do

LEMMA LoadWants ==
  ASSUME file \in Files
  PROVE  /\ (\A a \in ToSet(LoadProgram) : Wants(a)) => LoadGood
         /\ LoadGood /\ PassGood => \A a \in ToSet(LoadProgram) : Wants(a)
<1>1. ToSet(LoadProgram) =
        {Do("present", {T(0, "token_embd")})} \union (UNION {ToSet(LoadLayer(i)) : i \in Layers})
          \union {Do("present", {T(0, "output_norm"), T(0, "token_embd_norm")}), Do("dequant_row", OutputNorm)}
  BY FileTypes, LoadProgramElements
<1>2. ASSUME \A a \in ToSet(LoadProgram) : Wants(a)  PROVE LoadGood
  <2>1. Readable(OutputNorm)
    BY <1>1, <1>2, DoWants
  <2>2. ASSUME NEW i \in Layers
        PROVE  /\ Readable(FfnNorm(i)) /\ Readable(T(i, "attn_norm"))
               /\ \A t \in LoadNeeds(i) : Readable(t)
               /\ Mixer(i) = "ShortConv" => Tap(T(i, "shortconv.conv"))
               /\ Mixer(i) = "GatedDeltaNet" => Tap(T(i, "ssm_conv1d"))
    <3>1. \A a \in ToSet(LoadLayer(i)) : Wants(a)
      BY <1>1, <1>2
    <3>2. Readable(FfnNorm(i)) /\ Readable(T(i, "attn_norm"))
      <4>1. /\ Do("dequant_row", FfnNorm(i)) \in ToSet(LoadLayer(i))
            /\ Do("dequant_row", T(i, "attn_norm")) \in ToSet(LoadLayer(i))
        BY LoadLayerElements DEF Row
      <4>2. QED
        BY <3>1, <4>1, DoWants
    <3>3. \A a \in ToSet(LoadMixer(i)) : Wants(a)
      BY <3>1, LoadLayerElements
    <3>4. CASE Mixer(i) = "ShortConv"
      <4>1. Tap(T(i, "shortconv.conv"))
        BY <3>3, <3>4, LoadLayerElements, DoWants
      <4>2. QED
        BY <3>2, <3>4, <4>1 DEF LoadNeeds
    <3>5. CASE Mixer(i) = "GatedDeltaNet"
      <4>1. /\ Wants(Do("dequant_tensor", T(i, "ssm_conv1d")))
            /\ \A t \in LoadNeeds(i) : Wants(Do("dequant_row", t))
        BY <3>3, <3>5, LoadLayerElements DEF Row
      <4>2. QED
        BY <3>2, <3>5, <4>1, DoWants
    <3>6. CASE Mixer(i) \notin {"ShortConv", "GatedDeltaNet"}
      BY <3>2, <3>6 DEF LoadNeeds
    <3>7. QED
      BY <3>4, <3>5, <3>6
  <2>3. QED
    BY <2>1, <2>2 DEF LoadGood
<1>3. ASSUME LoadGood, PassGood, NEW a \in ToSet(LoadProgram)  PROVE Wants(a)
  <2>1. Wants(Do("present", {T(0, "token_embd")})) /\ Wants(Do("dequant_row", OutputNorm))
    BY <1>3, DoWants DEF LoadGood, PassGood, Readable
  <2>2. Wants(Do("present", {T(0, "output_norm"), T(0, "token_embd_norm")}))
    <3>1. Has(OutputNorm) /\ OutputNorm \in {T(0, "output_norm"), T(0, "token_embd_norm")}
      BY <1>3 DEF LoadGood, Readable, OutputNorm
    <3>2. QED
      BY <3>1, DoWants
  <2>3. ASSUME NEW i \in Layers, a \in ToSet(LoadLayer(i))  PROVE Wants(a)
    <3>1. CASE a \in Row({FfnNorm(i), T(i, "attn_norm")})
      <4>1. \A t \in {FfnNorm(i), T(i, "attn_norm")} : Readable(t)
        BY <1>3 DEF LoadGood
      <4>2. QED
        BY <3>1, <4>1, RowWants
    <3>2. CASE a \in ToSet(LoadMixer(i)) /\ Mixer(i) = "ShortConv"
      <4>1. a = Do("dequant_tensor", T(i, "shortconv.conv"))
        BY <3>2, LoadLayerElements
      <4>2. QED
        BY <1>3, <3>2, <4>1, DoWants DEF LoadGood
    <3>3. CASE a \in ToSet(LoadMixer(i)) /\ Mixer(i) = "GatedDeltaNet"
      <4>1. a = Do("dequant_tensor", T(i, "ssm_conv1d")) \/ a \in Row(LoadNeeds(i))
        BY <3>3, LoadLayerElements
      <4>2. \A t \in LoadNeeds(i) : Readable(t)
        BY <1>3 DEF LoadGood
      <4>3. Tap(T(i, "ssm_conv1d"))
        BY <1>3, <3>3 DEF LoadGood
      <4>4. QED
        BY <4>1, <4>2, <4>3, DoWants, RowWants
    <3>4. CASE a \in ToSet(LoadMixer(i)) /\ Mixer(i) \notin {"ShortConv", "GatedDeltaNet"}
      <4>1. a = Do("present", {T(i, "attn_q")})
        BY <3>4, LoadLayerElements
      <4>2. ToSet(Inputs(i)) = {T(i, "attn_q"), T(i, "attn_k"), T(i, "attn_v")}
        BY <3>4, ElementsOfThree DEF Inputs
      <4>3. Has(T(i, "attn_q"))
        BY <1>3, <4>2 DEF PassGood, Readable
      <4>4. QED
        BY <4>1, <4>3, DoWants
    <3>5. QED
      BY <2>3, <3>1, <3>2, <3>3, <3>4, LoadLayerElements
  <2>4. QED
    BY <1>1, <1>3, <2>1, <2>2, <2>3
<1>4. QED
  BY <1>2, <1>3

LEMMA RunMixerWants ==
  ASSUME NEW i
  PROVE  (\A a \in ToSet(RunMixer(i)) : Wants(a))
           <=> \A t \in ToSet(Inputs(i)) \union {Output(i)} \union QkNorms(i) : Readable(t)
<1>1. ToSet(RunMixer(i)) =
        {Do("dims", i), Do("together", Inputs(i)), Do("matmul", Output(i))} \union Row(QkNorms(i))
  BY RunMixerElements
<1>2. (\A a \in Row(QkNorms(i)) : Wants(a)) <=> (\A t \in QkNorms(i) : Readable(t))
  BY DoWants DEF Row
<1>3. (\A a \in ToSet(RunMixer(i)) : Wants(a))
        <=> /\ Wants(Do("together", Inputs(i))) /\ Wants(Do("matmul", Output(i)))
            /\ \A a \in Row(QkNorms(i)) : Wants(a)
  BY <1>1, DoWants
<1>4. QED
  BY <1>2, <1>3, DoWants

LEMMA RunWants ==
  ASSUME file \in Files
  PROVE  (\A a \in ToSet(Run) : Wants(a)) <=> PassGood
<1>1. ToSet(Run) = {Do("dequant_row", T(0, "token_embd"))} \union (UNION {ToSet(RunLayer(i)) : i \in Layers})
                     \union {Do("matmul", lm_head)}
  BY FileTypes, RunElements
<1>2. ASSUME NEW i \in Layers
      PROVE  (\A a \in ToSet(RunLayer(i)) : Wants(a))
               <=> \A t \in ToSet(Inputs(i)) \union {Output(i)} \union ToSet(Ffn(i)) \union QkNorms(i) : Readable(t)
  <2>1. ToSet(RunLayer(i)) = ToSet(RunMixer(i)) \union {Do("ffn", Ffn(i))}
    BY RunLayerElements
  <2>2. (\A a \in ToSet(RunLayer(i)) : Wants(a))
          <=> (\A a \in ToSet(RunMixer(i)) : Wants(a)) /\ Wants(Do("ffn", Ffn(i)))
    BY <2>1
  <2>3. QED
    BY <2>2, RunMixerWants, DoWants
<1>3. (\A a \in ToSet(Run) : Wants(a))
        <=> /\ Wants(Do("dequant_row", T(0, "token_embd"))) /\ Wants(Do("matmul", lm_head))
            /\ \A i \in Layers : \A a \in ToSet(RunLayer(i)) : Wants(a)
  BY <1>1
<1>4. QED
  BY <1>2, <1>3, DoWants DEF PassGood

LEMMA RunBatchWants ==
  ASSUME file \in Files
  PROVE  (\A a \in ToSet(RunBatch) : Wants(a)) <=> PassGood
<1>1. ToSet(RunBatch) = {Do("dequant_row", T(0, "token_embd"))}
                          \union (UNION {ToSet(BatchLayer(i)) : i \in Layers}) \union {Do("matmul", lm_head)}
  BY FileTypes, RunBatchElements
<1>2. ASSUME NEW i \in Layers
      PROVE  (\A a \in ToSet(BatchLayer(i)) : Wants(a))
               <=> \A t \in ToSet(Inputs(i)) \union {Output(i)} \union ToSet(Ffn(i)) \union QkNorms(i) : Readable(t)
  <2>1. \A ts : (\A a \in Batch(ts) : Wants(a)) <=> (\A t \in ts : Readable(t))
    BY DoWants DEF Batch
  <2>2. \A ts : (\A a \in Row(ts) : Wants(a)) <=> (\A t \in ts : Readable(t))
    BY DoWants DEF Row
  <2>3. CASE Mixer(i) = "Attention"
    <3>1. ToSet(BatchLayer(i)) =
            Batch(ToSet(Ffn(i))) \union (Batch(ToSet(Inputs(i)) \union {Output(i)}) \union Row(QkNorms(i)))
      BY <2>3, BatchLayerElements
    <3>2. (\A a \in ToSet(BatchLayer(i)) : Wants(a))
            <=> /\ \A a \in Batch(ToSet(Ffn(i))) : Wants(a)
                /\ \A a \in Batch(ToSet(Inputs(i)) \union {Output(i)}) : Wants(a)
                /\ \A a \in Row(QkNorms(i)) : Wants(a)
      BY <3>1
    <3>3. (\A a \in ToSet(BatchLayer(i)) : Wants(a))
            <=> /\ \A t \in ToSet(Ffn(i)) : Readable(t)
                /\ \A t \in ToSet(Inputs(i)) \union {Output(i)} : Readable(t)
                /\ \A t \in QkNorms(i) : Readable(t)
      BY <2>1, <2>2, <3>2
    <3>4. QED
      BY <3>3
  <2>4. CASE Mixer(i) # "Attention"
    <3>1. ToSet(BatchLayer(i)) = Batch(ToSet(Ffn(i))) \union ToSet(RunMixer(i))
      BY <2>4, BatchLayerElements
    <3>2. (\A a \in ToSet(BatchLayer(i)) : Wants(a))
            <=> (\A a \in Batch(ToSet(Ffn(i))) : Wants(a)) /\ (\A a \in ToSet(RunMixer(i)) : Wants(a))
      BY <3>1
    <3>3. (\A a \in ToSet(BatchLayer(i)) : Wants(a))
            <=> /\ \A t \in ToSet(Ffn(i)) : Readable(t)
                /\ \A t \in ToSet(Inputs(i)) \union {Output(i)} \union QkNorms(i) : Readable(t)
      BY <2>1, <3>2, RunMixerWants
    <3>4. QED
      BY <3>3
  <2>5. QED
    BY <2>3, <2>4
<1>3. (\A a \in ToSet(RunBatch) : Wants(a))
        <=> /\ Wants(Do("dequant_row", T(0, "token_embd"))) /\ Wants(Do("matmul", lm_head))
            /\ \A i \in Layers : \A a \in ToSet(BatchLayer(i)) : Wants(a)
  BY <1>1
<1>4. QED
  BY <1>2, <1>3, DoWants DEF PassGood

(* A resident pass reads only the embedding from the file: what else it    *)
(* wants it has found on the GPU, so it could be read.                     *)
LEMMA ResidentWants ==
  ASSUME PathsInv, pc = "pass", Ready
  PROVE  (\A a \in ToSet(RunGpuResident) : Wants(a)) <=> PassGood
<1>1. file \in Files /\ KvEntries \subseteq gpu
  BY DEF PathsInv, LoadTypes, GpuFilled
<1>2. ToSet(RunGpuResident) =
        {Do("dequant_row", T(0, "token_embd"))} \union (UNION {ToSet(ResidentLayer(i)) : i \in Layers})
          \union {Do("lookup", {<<"gpu_output_norm", 0>>}), Do("lm_head", {<<"gpu_tensors", lm_head>>})}
  BY <1>1, FileTypes, RunGpuResidentElements
<1>3. ASSUME NEW i \in Layers, NEW a \in ToSet(ResidentLayer(i))  PROVE Wants(a)
  <2>1. \/ a = Do("dims", i)
        \/ \E x : a = Do("lookup", x)
    BY ResidentLayerElements
  <2>2. QED
    BY <2>1, DoWants
<1>4. (\A a \in ToSet(RunGpuResident) : Wants(a)) <=> Readable(T(0, "token_embd"))
  <2>1. (\A a \in ToSet(RunGpuResident) : Wants(a))
          <=> /\ Wants(Do("dequant_row", T(0, "token_embd")))
              /\ \A i \in Layers : \A a \in ToSet(ResidentLayer(i)) : Wants(a)
              /\ Wants(Do("lookup", {<<"gpu_output_norm", 0>>}))
              /\ Wants(Do("lm_head", {<<"gpu_tensors", lm_head>>}))
    BY <1>2
  <2>2. QED
    BY <1>3, <2>1, DoWants
<1>5. \A t \in HotTensors : OnGpu(t) => Readable(t)
  BY DEF PathsInv, GpuFilled, Uploadable, Readable
<1>6. Readable(lm_head)
  BY <1>1, <1>5, Hot DEF Ready
<1>7. ASSUME NEW i \in Layers,
             NEW t \in ToSet(Inputs(i)) \union {Output(i)} \union ToSet(Ffn(i)) \union QkNorms(i)
      PROVE  Readable(t)
  <2>1. MixerReady(i) /\ \A u \in ToSet(Ffn(i)) : OnGpu(u)
    BY DEF Ready
  <2>2. t \in ToSet(Inputs(i)) \union {Output(i)} \union ToSet(Ffn(i)) => OnGpu(t) /\ t \in HotTensors
    BY <1>1, <2>1, Hot DEF MixerReady
  <2>3. CASE t \in QkNorms(i)
    <3>1. <<"gpu_qk_norm", t>> \in gpu /\ <<"gpu_qk_norm", t>>[1] = "gpu_qk_norm" /\ <<"gpu_qk_norm", t>>[2] = t
      BY <2>1, <2>3 DEF MixerReady
    <3>2. QED
      BY <3>1 DEF PathsInv, NormsFilled
  <2>4. QED
    BY <1>5, <1>7, <2>2, <2>3
<1>8. QED
  BY <1>4, <1>6, <1>7 DEF PassGood

-----------------------------------------------------------------------------
(* The outcome of an access to an intact file.                             *)

LEMMA FirstDecides ==
  ASSUME NEW n \in Nat, NEW o, DOMAIN o = 1 .. n, \A k \in 1 .. n : o[k] \in {"ok", "err"}
  PROVE  First(o) = IF \A k \in 1 .. n : o[k] = "ok" THEN "ok" ELSE "err"
<1> DEFINE bad == {k \in DOMAIN o : o[k] # "ok"}
<1>1. First(o) = IF bad = {} THEN "ok" ELSE o[CHOOSE k \in bad : \A m \in bad : k <= m]
  BY DEF First
<1>2. bad = {} <=> \A k \in 1 .. n : o[k] = "ok"
  OBVIOUS
<1>3. bad \subseteq Nat /\ \A k \in bad : o[k] = "err"
  OBVIOUS
<1> HIDE DEF bad
<1>4. CASE bad = {}
  BY <1>1, <1>2, <1>4
<1>5. CASE bad # {}
  <2>1. \E k \in bad : \A m \in bad : k <= m
    BY <1>3, <1>5, LeastNatural
  <2>2. (CHOOSE k \in bad : \A m \in bad : k <= m) \in bad
    BY <2>1
  <2>3. QED
    BY <1>1, <1>2, <1>3, <1>5, <2>2
<1>6. QED
  BY <1>4, <1>5

LEMMA IntactOutcomes ==
  ASSUME file \in Files, Intact, NEW t
  PROVE  /\ DequantRow(t) = IF Readable(t) THEN "ok" ELSE "err"
         /\ DequantTensor(t) = IF Tap(t) THEN "ok" ELSE "err"
<1>1. Has(t) => Whole(t) /\ Format(t) \in {"gpu", "float", "bf16", "other"}
  BY FileTypes DEF Intact, Has
<1>2. QED
  BY <1>1 DEF DequantRow, DequantTensor, Readable, Tap

LEMMA MatmulOutcome ==
  ASSUME PathsInv, Intact, NEW t \in HotTensors
  PROVE  /\ Matmul(t) = IF Readable(t) THEN "ok" ELSE "err"
         /\ OnGpu(t) => Readable(t)
<1>1. file \in Files
  BY DEF PathsInv, LoadTypes
<1>2. OnGpu(t) => Readable(t)
  BY DEF PathsInv, GpuFilled, Uploadable, Readable
<1>3. Has(t) => Whole(t)
  BY DEF Intact, Has
<1>4. QED
  BY <1>1, <1>2, <1>3, IntactOutcomes DEF Matmul

LEMMA TogetherOutcome ==
  ASSUME PathsInv, Intact, NEW i \in Layers
  PROVE  Together(Inputs(i)) = IF \A t \in ToSet(Inputs(i)) : Readable(t) THEN "ok" ELSE "err"
<1> DEFINE ts == Inputs(i)
           o == [k \in DOMAIN ts |-> Matmul(ts[k])]
<1>1. file \in Files
  BY DEF PathsInv, LoadTypes
<1>2. Len(ts) \in Nat /\ DOMAIN ts = 1 .. Len(ts) /\ ToSet(ts) = {ts[k] : k \in 1 .. Len(ts)}
  BY LayerTensors, IsSequenceIntro DEF IsSequence, ToSet
<1>3. Together(ts) = First(o)
  BY DEF Together
<1>4. ToSet(ts) \subseteq HotTensors
  BY <1>1, Hot
<1> HIDE DEF ts
<1>5. \A k \in 1 .. Len(ts) : o[k] = IF Readable(ts[k]) THEN "ok" ELSE "err"
  BY <1>2, <1>4, MatmulOutcome
<1>6. DOMAIN o = 1 .. Len(ts)
  BY <1>2
<1> HIDE DEF o
<1>7. First(o) = IF \A k \in 1 .. Len(ts) : o[k] = "ok" THEN "ok" ELSE "err"
  BY <1>2, <1>5, <1>6, FirstDecides
<1>8. (\A k \in 1 .. Len(ts) : o[k] = "ok") <=> \A t \in ToSet(ts) : Readable(t)
  BY <1>2, <1>5
<1>9. QED
  BY <1>3, <1>7, <1>8 DEF ts

LEMMA FfnDecides ==
  ASSUME PathsInv, Intact, NEW i \in Layers
  PROVE  FfnOutcome(Ffn(i)) = IF \A t \in ToSet(Ffn(i)) : Readable(t) THEN "ok" ELSE "err"
<1> DEFINE gate == T(i, "ffn_gate")
           up   == T(i, "ffn_up")
           down == T(i, "ffn_down")
<1>1. file \in Files
  BY DEF PathsInv, LoadTypes
<1>2. ToSet(Ffn(i)) = {gate, up, down} /\ Ffn(i) = <<gate, up, down>>
  BY LayerTensors DEF Ffn
<1>3. {gate, up, down} \subseteq HotTensors
  BY <1>1, <1>2, Hot
<1> HIDE DEF gate, up, down
<1>4. /\ Ffn(i)[1] = gate /\ Ffn(i)[2] = up /\ Ffn(i)[3] = down /\ DOMAIN Ffn(i) = {1, 2, 3}
  BY <1>2
<1>5. CASE FfnChained(Ffn(i))
  <2>1. OnGpu(gate) /\ OnGpu(up) /\ OnGpu(down)
    BY <1>4, <1>5 DEF FfnChained
  <2>2. Readable(gate) /\ Readable(up) /\ Readable(down)
    BY <1>3, <2>1, MatmulOutcome
  <2>3. QED
    BY <1>2, <1>5, <2>2 DEF FfnOutcome
<1>6. CASE ~FfnChained(Ffn(i))
  <2> DEFINE o == <<DequantRow(gate), DequantRow(up), Matmul(down)>>
  <2>1. FfnOutcome(Ffn(i)) = First(o)
    BY <1>4, <1>6 DEF FfnOutcome
  <2>2. /\ o[1] = (IF Readable(gate) THEN "ok" ELSE "err")
        /\ o[2] = (IF Readable(up) THEN "ok" ELSE "err")
        /\ o[3] = (IF Readable(down) THEN "ok" ELSE "err")
        /\ DOMAIN o = 1 .. 3
    BY <1>1, <1>3, IntactOutcomes, MatmulOutcome
  <2> HIDE DEF o
  <2>3. \A k \in 1 .. 3 : k = 1 \/ k = 2 \/ k = 3
    OBVIOUS
  <2>4. First(o) = IF \A k \in 1 .. 3 : o[k] = "ok" THEN "ok" ELSE "err"
    BY <2>2, <2>3, FirstDecides
  <2>5. (\A k \in 1 .. 3 : o[k] = "ok") <=> Readable(gate) /\ Readable(up) /\ Readable(down)
    BY <2>2, <2>3
  <2>6. QED
    BY <1>2, <2>1, <2>4, <2>5
<1>7. QED
  BY <1>5, <1>6

(* An access to an intact file fails, with Err, just if it wants a tensor  *)
(* that cannot be read.                                                    *)
LEMMA LoadOutcome ==
  ASSUME file \in Files, Intact, NEW a, a.op \in {"present", "dequant_row", "dequant_tensor"}
  PROVE  Outcome(a) = IF Wants(a) THEN "ok" ELSE "err"
<1>1. CASE a.op = "present"
  BY <1>1 DEF Outcome, Wants
<1>2. CASE a.op = "dequant_row"
  BY <1>2, IntactOutcomes DEF Outcome, Wants
<1>3. CASE a.op = "dequant_tensor"
  BY <1>3, IntactOutcomes DEF Outcome, Wants
<1>4. QED
  BY <1>1, <1>2, <1>3

LEMMA PassOutcome ==
  ASSUME PathsInv, Intact, NEW a, PassAccess(a)
  PROVE  Outcome(a) = IF Wants(a) THEN "ok" ELSE "err"
<1>1. file \in Files
  BY DEF PathsInv, LoadTypes
<1>2. CASE a.op = "dequant_row"
  BY <1>1, <1>2, LoadOutcome
<1>3. CASE a.op = "matmul" /\ a.of \in HotTensors
  BY <1>3, MatmulOutcome DEF Outcome, Wants
<1>4. CASE a.op = "matmul_batch"
  BY <1>1, <1>4, IntactOutcomes DEF Outcome, Wants
<1>5. CASE a.op = "together" /\ \E i \in Layers : a.of = Inputs(i)
  BY <1>5, TogetherOutcome DEF Outcome, Wants
<1>6. CASE a.op = "ffn" /\ \E i \in Layers : a.of = Ffn(i)
  BY <1>6, FfnDecides DEF Outcome, Wants
<1>7. CASE a.op = "dims" /\ a.of \in Layers
  BY <1>7 DEF Outcome, Wants, Intact
<1>8. QED
  BY <1>2, <1>3, <1>4, <1>5, <1>6, <1>7 DEF PassAccess

LEMMA AccessOutcome ==
  ASSUME PathsInv, Intact, pc \in {"load", "upload", "pass"}, NEW a \in ToSet(todo)
  PROVE  Outcome(a) = IF Wants(a) THEN "ok" ELSE "err"
<1>1. file \in Files
  BY DEF PathsInv, LoadTypes
<1>2. CASE pc = "load"
  BY <1>1, <1>2, LoadAccess, LoadOutcome DEF PathsInv, OfProgram
<1>3. CASE pc = "upload"
  <2>1. a.op = "upload"
    BY <1>1, <1>3, UploadAccess DEF PathsInv, OfProgram
  <2>2. Uploadable(a.of) => Whole(a.of)
    BY DEF Intact, Uploadable, Has
  <2>3. QED
    BY <2>1, <2>2 DEF Outcome, Wants
<1>4. CASE pc = "pass" /\ ~Ready
  <2>1. PassAccess(a)
    BY <1>1, <1>4, RunAccess, RunBatchAccess DEF PathsInv, OfProgram, Passes
  <2>2. QED
    BY <2>1, PassOutcome
<1>5. CASE pc = "pass" /\ Ready
  <2>1. /\ a.op \in {"dequant_row", "dims", "lookup", "lm_head"}
        /\ a.op = "dims" => a.of \in Layers
        /\ a.op \in {"lookup", "lm_head"} => a.of \subseteq gpu
    BY <1>1, <1>5, ResidentAccess DEF PathsInv, OfProgram, GpuFilled, Passes
  <2>2. CASE a.op \in {"dequant_row", "dims"}
    BY <2>1, <2>2, PassOutcome DEF PassAccess
  <2>3. CASE a.op \in {"lookup", "lm_head"}
    BY <2>1, <2>3 DEF Outcome, Wants, Lookup
  <2>4. QED
    BY <2>1, <2>2, <2>3
<1>6. QED
  BY <1>2, <1>3, <1>4, <1>5

-----------------------------------------------------------------------------
(* What has been accessed could be read.                                   *)

Decided ==
  /\ (Intact /\ pc = "load") => \A a \in ToSet(LoadProgram) : a \in ToSet(todo) \/ Wants(a)
  /\ (Intact /\ pc \in {"upload", "warmup", "idle", "pass"}) => \A a \in ToSet(LoadProgram) : Wants(a)
  /\ (Intact /\ pc = "pass") =>
       \E P \in Passes : /\ ToSet(todo) \subseteq ToSet(P)
                         /\ \A a \in ToSet(P) : a \in ToSet(todo) \/ Wants(a)
  /\ FileDecides

LEMMA FileDecidesGood == FileDecides <=> ((pc = "done" /\ Intact) => result = IF Good THEN "ok" ELSE "err")
  BY DEF FileDecides, Good

LEMMA SameWants ==
  ASSUME file' = file
  PROVE  /\ Intact' <=> Intact
         /\ Good' <=> Good
         /\ \A a : Wants(a)' <=> Wants(a)
<1>1. /\ Layers' = Layers /\ \A i : DimsOf(i)' = DimsOf(i)
      /\ \A t : Has(t)' = Has(t) /\ Format(t)' = Format(t) /\ Whole(t)' = Whole(t)
      /\ \A t : Readable(t)' <=> Readable(t)
  BY SMT DEF Layers, DimsOf, Mixer, Has, Format, Whole, Readable
<1>2. Intact' <=> Intact
  BY <1>1 DEF Intact
<1>3. Needed' = Needed /\ Taps' = Taps
  BY SMT DEF Needed, Taps, LoadNeeds, FfnNorm, OutputNorm, QkNorms, Layers, Inputs, Output, Ffn, lm_head,
             Mixer, Has
<1>4. Good' <=> Good
  BY <1>1, <1>3 DEF Good
<1>5. \A a : Wants(a)' <=> Wants(a)
  BY <1>1 DEF Wants, Tap
<1>6. QED
  BY <1>2, <1>4, <1>5

LEMMA PassWants ==
  ASSUME PathsInv, pc = "pass", NEW P \in Passes
  PROVE  (\A a \in ToSet(P) : Wants(a)) <=> PassGood
<1>1. file \in Files
  BY DEF PathsInv, LoadTypes
<1>2. QED
  BY <1>1, RunWants, RunBatchWants, ResidentWants DEF Passes

LEMMA DecidedInit == Init => Decided
  BY DEF Init, Decided, FileDecides

LEMMA DecidedAccess == PathsInv /\ Decided /\ Access => Decided'
<1> SUFFICES ASSUME PathsInv, Decided, Access  PROVE Decided'
  OBVIOUS
<1> DEFINE a == Head(todo)
<1>1. /\ file' = file /\ backend' = backend /\ todo' = Tail(todo)
      /\ pc \in {"load", "upload", "pass"} /\ todo # <<>>
      /\ pc' = (IF Outcome(a) = "ok" THEN pc ELSE "done") /\ result' = Outcome(a)
  BY DEF Access
<1>2. /\ a \in ToSet(todo) /\ ToSet(todo) = {a} \union ToSet(todo')
  BY <1>1, ElementsOfTail DEF PathsInv, LoadTypes
<1>3. /\ Intact' <=> Intact
      /\ Good' <=> Good
      /\ \A b : Wants(b)' <=> Wants(b)
      /\ LoadProgram' = LoadProgram
  BY <1>1, SameWants, SameFile
<1>4. file \in Files
  BY DEF PathsInv, LoadTypes
<1>5. Intact => Outcome(a) = IF Wants(a) THEN "ok" ELSE "err"
  BY <1>1, <1>2, AccessOutcome
<1> HIDE DEF a
<1>6. CASE ~Intact
  BY <1>3, <1>6 DEF Decided, FileDecides
<1>7. CASE Intact /\ Wants(a)
  <2>1. pc' = pc /\ pc' # "done"
    BY <1>1, <1>5, <1>7
  <2>2. \A b : b \in ToSet(todo) \/ Wants(b) => b \in ToSet(todo') \/ Wants(b)'
    BY <1>2, <1>3, <1>7
  <2>3. pc' = "load" => \A b \in ToSet(LoadProgram)' : b \in ToSet(todo)' \/ Wants(b)'
    BY <1>3, <1>7, <2>1, <2>2 DEF Decided
  <2>4. pc' \in {"upload", "warmup", "idle", "pass"} => \A b \in ToSet(LoadProgram)' : Wants(b)'
    BY <1>3, <1>7, <2>1 DEF Decided
  <2>5. ASSUME pc' = "pass"
        PROVE  \E P \in Passes' : /\ ToSet(todo)' \subseteq ToSet(P)
                                  /\ \A b \in ToSet(P) : b \in ToSet(todo)' \/ Wants(b)'
    <3>1. pc = "pass"
      BY <2>1, <2>5
    <3>2. PICK P \in Passes : /\ ToSet(todo) \subseteq ToSet(P)
                              /\ \A b \in ToSet(P) : b \in ToSet(todo) \/ Wants(b)
      BY <1>7, <3>1 DEF Decided
    <3>3. Passes' = Passes
      BY <1>1, <3>1, PassesStay DEF Access
    <3>4. ToSet(todo)' \subseteq ToSet(P)
      BY <1>2, <3>2
    <3>5. QED
      BY <2>2, <3>2, <3>3, <3>4
  <2>6. FileDecides'
    BY <2>1 DEF FileDecides
  <2>7. QED
    BY <2>3, <2>4, <2>5, <2>6 DEF Decided
<1>8. CASE Intact /\ ~Wants(a)
  <2>1. pc' = "done" /\ result' = "err"
    BY <1>1, <1>5, <1>8
  <2>2. ~Good
    <3>1. CASE pc = "load"
      <4>1. a \in ToSet(LoadProgram)
        BY <1>2, <3>1 DEF PathsInv, OfProgram
      <4>2. QED
        BY <1>4, <1>8, <4>1, LoadWants, GoodSplit
    <3>2. CASE pc = "upload"
      <4>1. a.op = "upload"
        BY <1>2, <1>4, <3>2, UploadAccess DEF PathsInv, OfProgram
      <4>2. QED
        BY <1>8, <4>1 DEF Wants
    <3>3. CASE pc = "pass"
      <4>1. PICK P \in Passes : ToSet(todo) \subseteq ToSet(P)
        BY <3>3 DEF PathsInv, OfProgram
      <4>2. QED
        BY <1>2, <1>8, <3>3, <4>1, PassWants, GoodSplit
    <3>4. QED
      BY <1>1, <3>1, <3>2, <3>3
  <2>3. FileDecides'
    BY <1>3, <2>1, <2>2 DEF FileDecides, Good
  <2>4. QED
    BY <2>1, <2>3 DEF Decided
<1>9. QED
  BY <1>6, <1>7, <1>8

LEMMA DecidedStep == PathsInv /\ Decided /\ [Next]_vars => Decided'
<1> SUFFICES ASSUME PathsInv, Decided, [Next]_vars  PROVE Decided'
  OBVIOUS
<1>1. file' = file
  BY DEF Next, Access, Loaded, UploadSmall, Warmup, Forward, Return, vars
<1>2. /\ Intact' <=> Intact
      /\ Good' <=> Good
      /\ \A b : Wants(b)' <=> Wants(b)
      /\ LoadProgram' = LoadProgram /\ Run' = Run /\ RunBatch' = RunBatch /\ RunGpuResident' = RunGpuResident
  BY <1>1, SameWants, SameFile
<1>3. CASE Access
  BY <1>3, DecidedAccess
<1>4. CASE Loaded
  <2>1. todo = <<>> /\ pc = "load" /\ pc' \in {"upload", "idle"}
    BY <1>4 DEF Loaded
  <2>2. ToSet(todo) = {}
    BY <2>1 DEF ToSet
  <2>3. QED
    BY <1>2, <2>1, <2>2 DEF Decided, FileDecides
<1>5. CASE UploadSmall
  BY <1>2, <1>5 DEF UploadSmall, Decided, FileDecides
<1>6. CASE Warmup
  BY <1>2, <1>6 DEF Warmup, Decided, FileDecides
<1>7. CASE Forward
  <2>1. pc = "idle" /\ pc' = "pass"
    BY <1>7 DEF Forward
  <2>2. \E P \in Passes' : todo' = P
    <3>1. Ready' <=> Ready
      BY <1>1, <1>7, SameReady, ReadyStays DEF Forward
    <3>2. QED
      BY <1>2, <1>7, <3>1 DEF Forward, Passes
  <2>3. QED
    BY <1>2, <2>1, <2>2 DEF Decided, FileDecides
<1>8. CASE Return
  <2>1. pc = "pass" /\ pc' = "done" /\ todo = <<>> /\ result' = result /\ result = "ok"
    BY <1>8 DEF Return, PathsInv, LoadTypes
  <2>2. ToSet(todo) = {}
    BY <2>1 DEF ToSet
  <2>3. ASSUME Intact  PROVE Good
    <3>1. LoadGood
      <4>1. file \in Files /\ \A a \in ToSet(LoadProgram) : Wants(a)
        BY <2>1, <2>3 DEF PathsInv, LoadTypes, Decided
      <4>2. QED
        BY <4>1, LoadWants
    <3>2. \E P \in Passes : \A a \in ToSet(P) : Wants(a)
      BY <2>1, <2>2, <2>3 DEF Decided
    <3>3. PassGood
      BY <2>1, <3>2, PassWants
    <3>4. QED
      BY <3>1, <3>3, GoodSplit
  <2>4. FileDecides'
    BY <1>2, <2>1, <2>3 DEF FileDecides, Good
  <2>5. QED
    BY <2>1, <2>4 DEF Decided
<1>9. CASE UNCHANGED vars
  <2>1. Passes' = Passes /\ ToSet(todo)' = ToSet(todo) /\ pc' = pc /\ result' = result
    BY <1>2, <1>9, SameReady DEF vars, Passes
  <2>2. FileDecides'
    BY <1>2, <2>1 DEF Decided, FileDecides, Good
  <2>3. QED
    BY <1>2, <2>1, <2>2 DEF Decided
<1>10. QED
  BY <1>3, <1>4, <1>5, <1>6, <1>7, <1>8, <1>9 DEF Next

(* An intact file alone decides between an answer and an Err, whatever the *)
(* backend, the kind of call and the path (from_gguf_with_backend,         *)
(* pre_upload_gpu, forward, forward_batch).                                *)
THEOREM OnlyTheFileDecides == Spec => []FileDecides
<1>1. Decided => FileDecides
  BY DEF Decided
<1>2. Init => PathsInv /\ Decided
  BY PathsInit, DecidedInit
<1>3. PathsInv /\ Decided /\ [Next]_vars => PathsInv' /\ Decided'
  BY PathsStep, DecidedStep
<1>4. QED
  BY <1>1, <1>2, <1>3, PTL DEF Spec

-----------------------------------------------------------------------------
(* GgufParser: the parser expects and has gathered what the document has   *)
(* behind and before the place it has reached.                             *)

(* The first of several.                                                   *)
LEMMA ConsOf ==
  ASSUME NEW S, NEW x \in S, NEW s \in Seq(S)
  PROVE  /\ <<x>> \o s \in Seq(S) /\ <<x>> \o s # <<>> /\ <<x>> \in Seq(S)
         /\ Head(<<x>> \o s) = x /\ Tail(<<x>> \o s) = s
         /\ Len(<<x>> \o s) = Len(s) + 1 /\ (<<x>> \o s)[1] = x
<1>1. <<x>> \in Seq(S) /\ Len(<<x>>) = 1 /\ <<x>>[1] = x
  OBVIOUS
<1>2. PICK c : c = <<x>> \o s
  OBVIOUS
<1>3. /\ c \in Seq(S) /\ Len(c) = Len(s) + 1 /\ Len(s) \in Nat
      /\ \A i \in 1 .. 1 + Len(s) : c[i] = IF i <= 1 THEN <<x>>[i] ELSE s[i - 1]
  BY <1>1, <1>2, ConcatProperties, LenProperties
<1>4. c # <<>> /\ c[1] = x
  BY <1>1, <1>3, EmptySeq
<1>5. Head(c) = x /\ Tail(c) \in Seq(S) /\ Len(Tail(c)) = Len(s)
      /\ \A i \in 1 .. Len(s) : Tail(c)[i] = c[i + 1]
  BY <1>3, <1>4, HeadTailProperties
<1>6. \A i \in 1 .. Len(s) : Tail(c)[i] = s[i]
  BY <1>3, <1>5
<1>7. Tail(c) = s
  BY <1>5, <1>6, SeqEqual
<1>8. QED
  BY <1>1, <1>2, <1>3, <1>4, <1>5, <1>7

LEMMA FlattenOne ==
  ASSUME NEW S, NEW x \in Seq(S)
  PROVE  FlattenSeq(<<x>>) = x
<1>1. <<>> \in Seq(Seq(S)) /\ Append(<<>>, x) = <<x>>
  OBVIOUS
<1>2. FlattenSeq(Append(<<>>, x)) = FlattenSeq(<<>>) \o x
  BY <1>1, FlattenAppend
<1>3. QED
  BY <1>1, <1>2, FlattenEmpty, ConcatEmptySeq

(* The sequences of F behind the first i of n.                             *)
Part(F, n, i) == [j \in 1 .. n - i |-> F[i + j]]
After(F, n, i) == FlattenSeq(Part(F, n, i))

SeqsOf(S, F, n) == n \in Nat /\ \A j \in 1 .. n : F[j] \in Seq(S)

LEMMA PartIsSeq ==
  ASSUME NEW S, NEW F, NEW n, SeqsOf(S, F, n), NEW i \in 0 .. n
  PROVE  Part(F, n, i) \in Seq(Seq(S)) /\ After(F, n, i) \in Seq(S)
<1>1. n - i \in Nat /\ \A j \in 1 .. n - i : i + j \in 1 .. n
  BY DEF SeqsOf
<1>2. \A j \in 1 .. n - i : F[i + j] \in Seq(S)
  BY <1>1 DEF SeqsOf
<1>3. PICK G : G = [j \in 1 .. n - i |-> F[i + j]]
  OBVIOUS
<1>4. G \in [1 .. n - i -> Seq(S)]
  BY <1>2, <1>3
<1>5. G \in Seq(Seq(S)) /\ Len(G) = n - i
  BY <1>1, <1>4
<1>6. QED
  BY <1>3, <1>5, FlattenSeqType DEF After, Part

LEMMA AfterStep ==
  ASSUME NEW S, NEW F, NEW n, SeqsOf(S, F, n), NEW i \in 0 .. n - 1
  PROVE  After(F, n, i) = F[i + 1] \o After(F, n, i + 1)
<1> DEFINE G == Part(F, n, i)
           H == Part(F, n, i + 1)
           x == F[i + 1]
<1>1. n \in Nat /\ i \in 0 .. n /\ i + 1 \in 0 .. n /\ x \in Seq(S)
  BY DEF SeqsOf
<1>2. /\ G \in Seq(Seq(S)) /\ Len(G) = n - i /\ H \in Seq(Seq(S)) /\ Len(H) = n - i - 1
      /\ n - i \in Nat \ {0}
  <2>1. G \in Seq(Seq(S)) /\ H \in Seq(Seq(S))
    BY <1>1, PartIsSeq
  <2>2. Len(G) = n - i /\ Len(H) = n - i - 1
    BY <1>1 DEF Part
  <2>3. n - i \in Nat \ {0}
    BY <1>1
  <2>4. QED
    BY <2>1, <2>2, <2>3
<1>3. /\ \A j \in 1 .. n - i : G[j] = F[i + j]
      /\ \A j \in 1 .. n - i - 1 : H[j] = F[i + 1 + j]
  <2>1. n - (i + 1) = n - i - 1
    BY <1>1
  <2>2. QED
    BY <2>1 DEF Part
<1>4. FlattenSeq(G) = After(F, n, i) /\ FlattenSeq(H) = After(F, n, i + 1)
  BY DEF After
<1> HIDE DEF G, H, x
<1>5. PICK c : c = <<x>> \o H
  OBVIOUS
<1>6. /\ c \in Seq(Seq(S)) /\ Len(c) = n - i
      /\ \A j \in 1 .. n - i : c[j] = IF j <= 1 THEN x ELSE H[j - 1]
  <2>1. <<x>> \in Seq(Seq(S)) /\ Len(<<x>>) = 1 /\ <<x>>[1] = x
    BY <1>1
  <2>2. /\ c \in Seq(Seq(S)) /\ Len(c) = 1 + Len(H)
        /\ \A j \in 1 .. 1 + Len(H) : c[j] = IF j <= 1 THEN <<x>>[j] ELSE H[j - 1]
    BY <1>2, <1>5, <2>1, ConcatProperties
  <2>3. 1 + Len(H) = n - i
    BY <1>2
  <2>4. \A j \in 1 .. n - i : j <= 1 => <<x>>[j] = x
    BY <2>1
  <2>5. QED
    BY <2>2, <2>3, <2>4
<1>7. \A j \in 1 .. n - i : c[j] = G[j]
  <2> TAKE j \in 1 .. n - i
  <2>1. CASE j = 1
    BY <1>1, <1>2, <1>3, <1>6, <2>1 DEF x
  <2>2. CASE j # 1
    <3>1. j - 1 \in 1 .. n - i - 1 /\ i + 1 + (j - 1) = i + j /\ ~(j <= 1)
      BY <1>1, <2>2
    <3>2. QED
      BY <1>3, <1>6, <3>1
  <2>3. QED
    BY <2>1, <2>2
<1>8. c = G
  BY <1>2, <1>6, <1>7, SeqEqual
<1>9. <<x>> \in Seq(Seq(S)) /\ FlattenSeq(<<x>>) = x
  BY <1>1, FlattenOne
<1>10. FlattenSeq(<<x>> \o H) = FlattenSeq(<<x>>) \o FlattenSeq(H)
  BY <1>2, <1>9, FlattenConcat
<1>11. QED
  BY <1>4, <1>5, <1>8, <1>9, <1>10 DEF x

LEMMA AfterEnd ==
  ASSUME NEW F, NEW n \in Nat
  PROVE  After(F, n, n) = <<>>
<1>1. Part(F, n, n) = <<>>
  BY DEF Part
<1>2. QED
  BY <1>1, FlattenEmpty DEF After

(* All of them.                                                            *)
LEMMA AfterNone ==
  ASSUME NEW F, NEW n \in Nat
  PROVE  FlattenSeq([j \in 1 .. n |-> F[j]]) = After(F, n, 0)
<1>1. [j \in 1 .. n |-> F[j]] = Part(F, n, 0)
  BY DEF Part
<1>2. QED
  BY <1>1 DEF After

LEMMA RepeatTypes ==
  ASSUME NEW S, NEW u \in Seq(S), NEW n \in Nat
  PROVE  Repeat(u, n) \in Seq(S)
<1>1. PICK F : F = [k \in 1 .. n |-> u]
  OBVIOUS
<1>2. SeqsOf(S, F, n) /\ 0 \in 0 .. n
  BY <1>1 DEF SeqsOf
<1>3. F = [j \in 1 .. n |-> F[j]]
  BY <1>1
<1>4. FlattenSeq(F) = After(F, n, 0)
  BY <1>3, AfterNone
<1>5. After(F, n, 0) \in Seq(S)
  BY <1>2, PartIsSeq
<1>6. QED
  BY <1>1, <1>4, <1>5 DEF Repeat

LEMMA RepeatStep ==
  ASSUME NEW S, NEW u \in Seq(S), NEW n \in Nat \ {0}
  PROVE  Repeat(u, n) = u \o Repeat(u, n - 1)
<1>1. PICK F : F = [k \in 1 .. n |-> u]
  OBVIOUS
<1>2. SeqsOf(S, F, n) /\ 0 \in 0 .. n - 1 /\ n \in Nat /\ F[1] = u
  BY <1>1 DEF SeqsOf
<1>3. F = [j \in 1 .. n |-> F[j]]
  BY <1>1
<1>4. Repeat(u, n) = After(F, n, 0)
  <2>1. FlattenSeq(F) = After(F, n, 0)
    BY <1>2, <1>3, AfterNone
  <2>2. QED
    BY <1>1, <2>1 DEF Repeat
<1>5. After(F, n, 0) = F[1] \o After(F, n, 1)
  <2>1. After(F, n, 0) = F[0 + 1] \o After(F, n, 0 + 1)
    BY <1>2, AfterStep
  <2>2. 0 + 1 = 1
    OBVIOUS
  <2>3. QED
    BY <2>1, <2>2
<1>6. [k \in 1 .. n - 1 |-> u] = Part(F, n, 1)
  BY <1>1 DEF Part
<1>7. Repeat(u, n - 1) = After(F, n, 1)
  BY <1>6 DEF Repeat, After
<1>8. QED
  BY <1>2, <1>4, <1>5, <1>7

LEMMA RepeatNone == ASSUME NEW u PROVE Repeat(u, 0) = <<>>
<1>1. [k \in 1 .. 0 |-> u] = <<>>
  OBVIOUS
<1>2. QED
  BY <1>1, FlattenEmpty DEF Repeat

(* A field of a file.                                                      *)
FieldValues == STRING \union Int \union Texts
FieldErrors ==
  {<<>>, <<"InvalidMagic">>, <<"InvalidString">>}
    \union ({"UnsupportedVersion", "UnknownMetadataType", "UnknownTensorType"} \X Nat)
Fields ==
  {f \in [value : FieldValues, width : Nat, error : FieldErrors] : f.width = 0 => f.value = EmptyString}

LEMMA FieldIsField ==
  ASSUME NEW v \in Int, NEW n \in Nat \ {0}
  PROVE  /\ Field(v, n) \in Fields /\ Field(v, n).value = v
         /\ Field(v, n).width = n /\ Field(v, n).error = <<>>
  BY DEF Field, Fields, FieldValues, FieldErrors

LEMMA OwedIsField ==
  ASSUME NEW v \in FieldValues, NEW n \in Nat \ {0}, NEW e \in FieldErrors
  PROVE  [value |-> v, width |-> n, error |-> e] \in Fields
  BY DEF Fields

TextField(s) == [value |-> s, width |-> s.width, error |-> IF s.utf8 THEN <<>> ELSE <<"InvalidString">>]

LEMMA TextIsField ==
  ASSUME NEW s \in Texts
  PROVE  /\ StringFields(s) = <<Field(s.width, 8), TextField(s)>>
         /\ Field(s.width, 8) \in Fields /\ TextField(s) \in Fields
         /\ StringFields(s) \in Seq(Fields) /\ s.width \in Nat /\ s \in FieldValues
<1>1. s.width \in Nat /\ s \in FieldValues /\ (s.width = 0 => s = EmptyString)
  BY DEF Texts, FieldValues
<1>2. Field(s.width, 8) \in Fields
  BY <1>1, FieldIsField
<1>3. (IF s.utf8 THEN <<>> ELSE <<"InvalidString">>) \in FieldErrors
  BY DEF FieldErrors
<1>4. TextField(s) \in Fields
  BY <1>1, <1>3 DEF TextField, Fields
<1>5. StringFields(s) = <<Field(s.width, 8), TextField(s)>>
  BY DEF StringFields, TextField
<1>6. QED
  BY <1>1, <1>2, <1>4, <1>5

(* The bytes of a field and of several.                                    *)
FileBytes == FieldValues \X Nat \X Nat

LEMMA BytesType ==
  ASSUME NEW f \in Fields
  PROVE  /\ Bytes(f) \in Seq(FileBytes) /\ Len(Bytes(f)) = f.width /\ f.width \in Nat
         /\ f.width > 0 => Bytes(f)[1] = <<f.value, 1, f.width>>
<1>1. f.value \in FieldValues /\ f.width \in Nat
  BY DEF Fields
<1>2. Bytes(f) \in [1 .. f.width -> FileBytes]
  BY <1>1 DEF Bytes, FileBytes
<1>3. f.width > 0 => Bytes(f)[1] = <<f.value, 1, f.width>>
  BY <1>1 DEF Bytes
<1>4. QED
  BY <1>1, <1>2, <1>3

Laid(fs) == [k \in DOMAIN fs |-> Bytes(fs[k])]

LEMMA LaidType ==
  ASSUME NEW fs \in Seq(Fields)
  PROVE  Laid(fs) \in Seq(Seq(FileBytes)) /\ Len(Laid(fs)) = Len(fs) /\ BytesOf(fs) \in Seq(FileBytes)
<1>1. DOMAIN fs = 1 .. Len(fs) /\ Len(fs) \in Nat /\ \A k \in 1 .. Len(fs) : fs[k] \in Fields
  BY LenProperties, ElementOfSeq
<1>2. Laid(fs) \in [1 .. Len(fs) -> Seq(FileBytes)]
  BY <1>1, BytesType DEF Laid
<1>3. Laid(fs) \in Seq(Seq(FileBytes)) /\ Len(Laid(fs)) = Len(fs)
  BY <1>1, <1>2
<1>4. QED
  BY <1>3, FlattenSeqType DEF BytesOf, Laid

LEMMA BytesOfJoin ==
  ASSUME NEW a \in Seq(Fields), NEW b \in Seq(Fields)
  PROVE  BytesOf(a \o b) = BytesOf(a) \o BytesOf(b)
<1>1. PICK c : c = a \o b
  OBVIOUS
<1>2. /\ c \in Seq(Fields) /\ Len(c) = Len(a) + Len(b) /\ Len(a) \in Nat /\ Len(b) \in Nat
      /\ \A i \in 1 .. Len(a) + Len(b) : c[i] = IF i <= Len(a) THEN a[i] ELSE b[i - Len(a)]
  BY <1>1, ConcatProperties, LenProperties
<1>3. DOMAIN a = 1 .. Len(a) /\ DOMAIN b = 1 .. Len(b) /\ DOMAIN c = 1 .. Len(c)
  BY <1>2, LenProperties
<1>4. PICK L : L = Laid(a) \o Laid(b)
  OBVIOUS
<1>5. /\ L \in Seq(Seq(FileBytes)) /\ Len(L) = Len(a) + Len(b)
      /\ \A i \in 1 .. Len(a) + Len(b) :
           L[i] = IF i <= Len(a) THEN Laid(a)[i] ELSE Laid(b)[i - Len(a)]
  <2>1. /\ Laid(a) \in Seq(Seq(FileBytes)) /\ Len(Laid(a)) = Len(a)
        /\ Laid(b) \in Seq(Seq(FileBytes)) /\ Len(Laid(b)) = Len(b)
    BY LaidType
  <2>2. /\ Laid(a) \o Laid(b) \in Seq(Seq(FileBytes))
        /\ Len(Laid(a) \o Laid(b)) = Len(Laid(a)) + Len(Laid(b))
        /\ \A i \in 1 .. Len(Laid(a)) + Len(Laid(b)) :
             (Laid(a) \o Laid(b))[i] = IF i <= Len(Laid(a)) THEN Laid(a)[i] ELSE Laid(b)[i - Len(Laid(a))]
    BY <2>1, ConcatProperties
  <2>3. QED
    BY <1>4, <2>1, <2>2
<1>6. Laid(c) \in Seq(Seq(FileBytes)) /\ Len(Laid(c)) = Len(a) + Len(b)
  BY <1>2, LaidType
<1>7. ASSUME NEW i \in 1 .. Len(a) + Len(b)  PROVE Laid(c)[i] = L[i]
  <2>1. Laid(c)[i] = Bytes(c[i])
    BY <1>2, <1>3 DEF Laid
  <2>2. CASE i <= Len(a)
    <3>1. i \in 1 .. Len(a)
      BY <1>2, <2>2
    <3>2. Laid(a)[i] = Bytes(a[i])
      BY <1>3, <3>1 DEF Laid
    <3>3. QED
      BY <1>2, <1>5, <2>1, <2>2, <3>2
  <2>3. CASE ~(i <= Len(a))
    <3>1. i - Len(a) \in 1 .. Len(b)
      BY <1>2, <2>3
    <3>2. Laid(b)[i - Len(a)] = Bytes(b[i - Len(a)])
      BY <1>3, <3>1 DEF Laid
    <3>3. QED
      BY <1>2, <1>5, <2>1, <2>3, <3>2
  <2>4. QED
    BY <2>2, <2>3
<1>8. Laid(c) = L
  BY <1>5, <1>6, <1>7, SeqEqual
<1>9. FlattenSeq(L) = FlattenSeq(Laid(a)) \o FlattenSeq(Laid(b))
  BY <1>4, LaidType, FlattenConcat
<1>10. QED
  BY <1>1, <1>8, <1>9 DEF BytesOf, Laid

LEMMA BytesOfOne ==
  ASSUME NEW f \in Fields
  PROVE  BytesOf(<<f>>) = Bytes(f)
<1>1. Laid(<<f>>) = <<Bytes(f)>>
  BY DEF Laid
<1>2. QED
  BY <1>1, BytesType, FlattenOne DEF BytesOf, Laid

(* What documents are made of.                                             *)
LEMMA WidthsArePositive == \A t \in Valid : WrittenWidth[t] \in Nat \ {0}
<1> TAKE t \in Valid
<1>1. WrittenWidth[t] = <<1, 1, 2, 2, 4, 4, 4, 1, 8, 4, 8, 8, 8>>[t + 1]
  BY DEF WrittenWidth, Valid
<1>2. \/ t = 0 \/ t = 1 \/ t = 2 \/ t = 3 \/ t = 4 \/ t = 5 \/ t = 6 \/ t = 7 \/ t = 8 \/ t = 9
      \/ t = 10 \/ t = 11 \/ t = 12
  BY DEF Valid
<1>3. QED
  BY <1>1, <1>2

LEMMA ItemsAreFields ==
  ASSUME NEW t \in Valid \ {9}, NEW v, IF t = 8 THEN v \in Texts ELSE v \in Int
  PROVE  ItemFields(t, v) \in Seq(Fields)
<1>1. CASE t = 8
  BY <1>1, TextIsField DEF ItemFields
<1>2. CASE t # 8
  <2>1. Field(v, WrittenWidth[t]) \in Fields
    BY <1>2, WidthsArePositive, FieldIsField
  <2>2. QED
    BY <1>2, <2>1 DEF ItemFields
<1>3. QED
  BY <1>1, <1>2

(* A read: what is expected next, with the rest of the plan, meets the     *)
(* next field, with the rest of the fields.                                *)
StepNames ==
  {"magic", "version", "tensor_count", "kv_count", "length", "string", "value_type", "scalar", "bool",
   "elem_type", "count", "insert", "n_dims", "dim", "ggml_type", "byte_offset", "push"}
Plans == StepNames \X Nat

Owes(what, f) == Rejects(what, f.value) = IF f.error = <<"InvalidString">> THEN <<"InvalidString", pos>> ELSE f.error

ReadsAs(td, rest, what, f, tl, fl) ==
  /\ what \in StepNames \ {"insert", "push"} /\ tl \in Seq(Plans) /\ td = <<<<what, f.width>>>> \o tl
  /\ f \in Fields /\ fl \in Seq(Fields) /\ rest = <<f>> \o fl
  /\ Owes(what, f)

(* Then and vals' for any rest of the plan and any values.                 *)
Onward(what, v, tl, vs) ==
  CASE what = "tensor_count" -> tl \o Repeat(Tensor, v)
    [] what = "kv_count"     -> Repeat(KeyValue, v) \o tl
    [] what = "length"       -> <<<<"string", v>>>> \o tl
    [] what = "value_type"   -> Value(v) \o tl
    [] what = "count"        -> Repeat(Value(Last(vs)), v) \o tl
    [] what = "n_dims"       -> Repeat(<<<<"dim", 8>>>>, v) \o tl
    [] OTHER -> tl
Kept(what, v, vs) ==
  CASE what \in {"magic", "version", "tensor_count", "kv_count", "length", "count"} -> vs
    [] what = "bool" -> Append(vs, IF v # 0 THEN 1 ELSE 0)
    [] OTHER -> Append(vs, v)

LEMMA OwesNothing ==
  ASSUME NEW what, NEW f, f.error = <<>>,
         what \notin {"magic", "version", "string", "value_type", "elem_type", "ggml_type"}
  PROVE  Owes(what, f)
<1>1. Rejects(what, f.value) = <<>>
  BY DEF Rejects
<1>2. <<>> # <<"InvalidString">>
  OBVIOUS
<1>3. QED
  BY <1>1, <1>2 DEF Owes

LEMMA OwesText ==
  ASSUME NEW s \in Texts
  PROVE  Owes("string", TextField(s))
<1>1. s.utf8 \in BOOLEAN
  BY DEF Texts
<1>2. Rejects("string", s) = IF s.utf8 THEN <<>> ELSE <<"InvalidString", pos>>
  BY <1>1 DEF Rejects
<1>3. <<>> # <<"InvalidString">>
  OBVIOUS
<1>4. QED
  BY <1>1, <1>2, <1>3 DEF Owes, TextField

LEMMA StringPlan == String = <<<<"length", 8>>>> /\ String \in Seq(Plans) /\ <<"length", 8>> \in Plans
  BY DEF String, Plans, StepNames

-----------------------------------------------------------------------------
(* An item of a kind: what is read of it, its fields, and the value kept.  *)
IsText(unit, fs, m) == unit = String /\ m \in Texts /\ fs = StringFields(m)
IsNumber(unit, fs, m) ==
  \E what \in {"scalar", "bool", "dim"}, n \in Nat \ {0}, v \in Int :
    /\ unit = <<<<what, n>>>> /\ fs = <<Field(v, n)>>
    /\ m = IF what = "bool" THEN (IF v # 0 THEN 1 ELSE 0) ELSE v
Item(unit, fs, m) == IsText(unit, fs, m) \/ IsNumber(unit, fs, m)

LEMMA ItemTypes ==
  ASSUME NEW unit, NEW fs, NEW m, Item(unit, fs, m)
  PROVE  unit \in Seq(Plans) /\ fs \in Seq(Fields) /\ m \in FieldValues
<1>1. CASE IsText(unit, fs, m)
  BY <1>1, TextIsField, StringPlan DEF IsText
<1>2. CASE IsNumber(unit, fs, m)
  <2>1. PICK what \in {"scalar", "bool", "dim"}, n \in Nat \ {0}, v \in Int :
          /\ unit = <<<<what, n>>>> /\ fs = <<Field(v, n)>>
          /\ m = IF what = "bool" THEN (IF v # 0 THEN 1 ELSE 0) ELSE v
    BY <1>2 DEF IsNumber
  <2>2. <<what, n>> \in Plans /\ Field(v, n) \in Fields /\ m \in Int
    <3>1. what \in StepNames /\ n \in Nat
      BY DEF StepNames
    <3>2. m \in Int
      BY <2>1
    <3>3. QED
      BY <3>1, <3>2, FieldIsField DEF Plans
  <2>3. QED
    BY <2>1, <2>2 DEF FieldValues
<1>3. QED
  BY <1>1, <1>2 DEF Item

(* Several items of a kind, read after what is in pre, before tail.        *)
Job(unit, F, M, pre, tail, rest) ==
  [unit |-> unit, fields |-> F, values |-> M, pre |-> pre, tail |-> tail, rest |-> rest]
Number(j) == Len(j.values)
Sound(j) ==
  /\ j.unit \in Seq(Plans)
  /\ j.values \in Seq(FieldValues) /\ j.pre \in Seq(FieldValues)
  /\ j.tail \in Seq(Plans) /\ j.rest \in Seq(Fields)
  /\ \A i \in 1 .. Number(j) : Item(j.unit, j.fields[i], j.values[i])

PlanAt(j, i) == Repeat(j.unit, Number(j) - i) \o j.tail
FieldsAt(j, i) == After(j.fields, Number(j), i) \o j.rest
ValsAt(j, i) == j.pre \o SubSeq(j.values, 1, i)

Between(j, i, td, rest, vs) ==
  /\ i \in 0 .. Number(j)
  /\ td = PlanAt(j, i) /\ rest = FieldsAt(j, i) /\ vs = ValsAt(j, i)
Within(j, i, td, rest, vs) ==
  /\ i \in 0 .. Number(j) - 1 /\ IsText(j.unit, j.fields[i + 1], j.values[i + 1])
  /\ td = <<<<"string", j.values[i + 1].width>>>> \o PlanAt(j, i + 1)
  /\ rest = <<TextField(j.values[i + 1])>> \o FieldsAt(j, i + 1)
  /\ vs = ValsAt(j, i)
OnJob(j, td, rest, vs) == \E i : Between(j, i, td, rest, vs) \/ Within(j, i, td, rest, vs)

LEMMA AtTypes ==
  ASSUME NEW j, Sound(j), NEW i \in 0 .. Number(j)
  PROVE  /\ PlanAt(j, i) \in Seq(Plans) /\ FieldsAt(j, i) \in Seq(Fields)
         /\ ValsAt(j, i) \in Seq(FieldValues)
         /\ Number(j) \in Nat /\ SeqsOf(Fields, j.fields, Number(j))
<1>1. Number(j) \in Nat /\ Number(j) - i \in Nat
  BY LenProperties DEF Sound, Number
<1>2. SeqsOf(Fields, j.fields, Number(j))
  BY <1>1, ItemTypes DEF SeqsOf, Sound
<1>3. Repeat(j.unit, Number(j) - i) \in Seq(Plans)
  BY <1>1, RepeatTypes DEF Sound
<1>4. After(j.fields, Number(j), i) \in Seq(Fields)
  BY <1>2, PartIsSeq
<1>5. SubSeq(j.values, 1, i) \in Seq(FieldValues)
  <2>1. \A k \in 1 .. i : j.values[k] \in FieldValues
    BY <1>1, ElementOfSeq DEF Sound, Number
  <2>2. QED
    BY <1>1, <2>1, SubSeqProperties
<1>6. QED
  BY <1>1, <1>2, <1>3, <1>4, <1>5, ConcatProperties DEF Sound, PlanAt, FieldsAt, ValsAt

(* The plan and the fields at an item, and the values behind it.           *)
LEMMA AtStep ==
  ASSUME NEW j, Sound(j), NEW i \in 0 .. Number(j) - 1
  PROVE  /\ PlanAt(j, i) = j.unit \o PlanAt(j, i + 1)
         /\ FieldsAt(j, i) = j.fields[i + 1] \o FieldsAt(j, i + 1)
         /\ ValsAt(j, i + 1) = Append(ValsAt(j, i), j.values[i + 1])
         /\ Item(j.unit, j.fields[i + 1], j.values[i + 1])
<1>1. /\ Number(j) \in Nat /\ i \in 0 .. Number(j) /\ i + 1 \in 0 .. Number(j)
      /\ i + 1 \in 1 .. Number(j) /\ Number(j) - i \in Nat \ {0} /\ Number(j) - (i + 1) \in Nat
      /\ Number(j) - i - 1 = Number(j) - (i + 1)
  BY LenProperties DEF Sound, Number
<1>2. Item(j.unit, j.fields[i + 1], j.values[i + 1])
  BY <1>1 DEF Sound
<1>3. PICK r, r1 : r = Repeat(j.unit, Number(j) - i) /\ r1 = Repeat(j.unit, Number(j) - (i + 1))
  OBVIOUS
<1>4. r = j.unit \o r1
  <2>1. Repeat(j.unit, Number(j) - i) = j.unit \o Repeat(j.unit, Number(j) - i - 1)
    BY <1>1, RepeatStep DEF Sound
  <2>2. QED
    BY <1>1, <1>3, <2>1
<1>5. PICK u, t : u = j.unit /\ t = j.tail
  OBVIOUS
<1>6. PlanAt(j, i) = j.unit \o PlanAt(j, i + 1)
  <2>1. u \in Seq(Plans) /\ t \in Seq(Plans) /\ r1 \in Seq(Plans)
    BY <1>1, <1>3, <1>5, RepeatTypes DEF Sound
  <2>2. (u \o r1) \o t = u \o (r1 \o t)
    BY <2>1, JoinTyped
  <2>3. QED
    BY <1>3, <1>4, <1>5, <2>2 DEF PlanAt
<1>7. PICK a, a1 : a = After(j.fields, Number(j), i) /\ a1 = After(j.fields, Number(j), i + 1)
  OBVIOUS
<1>8. SeqsOf(Fields, j.fields, Number(j))
  BY <1>1, AtTypes
<1>9. a = j.fields[i + 1] \o a1
  BY <1>7, <1>8, AfterStep
<1>10. PICK f, z : f = j.fields[i + 1] /\ z = j.rest
  OBVIOUS
<1>11. FieldsAt(j, i) = j.fields[i + 1] \o FieldsAt(j, i + 1)
  <2>1. f \in Seq(Fields) /\ z \in Seq(Fields) /\ a1 \in Seq(Fields)
    BY <1>1, <1>2, <1>7, <1>8, <1>10, ItemTypes, PartIsSeq DEF Sound
  <2>2. (f \o a1) \o z = f \o (a1 \o z)
    BY <2>1, JoinTyped
  <2>3. QED
    BY <1>7, <1>9, <1>10, <2>2 DEF FieldsAt
<1>12. ValsAt(j, i + 1) = Append(ValsAt(j, i), j.values[i + 1])
  <2>1. j.values \in Seq(FieldValues) /\ j.pre \in Seq(FieldValues) /\ i + 1 \in 1 .. Len(j.values)
    BY <1>1 DEF Sound, Number
  <2>2. PICK b, x : b = SubSeq(j.values, 1, i) /\ x = j.values[i + 1]
    OBVIOUS
  <2>3. x \in FieldValues
    BY <2>1, <2>2, ElementOfSeq
  <2>4. b \in Seq(FieldValues)
    <3>1. \A k \in 1 .. i : j.values[k] \in FieldValues
      BY <1>1, <2>1, ElementOfSeq
    <3>2. QED
      BY <1>1, <2>2, <3>1, SubSeqProperties
  <2>5. SubSeq(j.values, 1, i + 1) = b \o <<x>>
    <3>1. 1 \in 1 .. Len(j.values) /\ i + 1 \in 1 .. Len(j.values) /\ i + 1 - 1 = i
      BY <1>1, <2>1
    <3>2. SubSeq(j.values, 1, i + 1) = SubSeq(j.values, 1, i + 1 - 1) \o <<j.values[i + 1]>>
      BY <2>1, <3>1, SubSeqRecursiveSecond
    <3>3. QED
      BY <2>2, <3>1, <3>2
  <2>6. PICK p, o : p = j.pre /\ o = <<x>>
    OBVIOUS
  <2>7. p \in Seq(FieldValues) /\ o \in Seq(FieldValues)
    BY <2>1, <2>3, <2>6
  <2>8. p \o (b \o o) = (p \o b) \o o
    BY <2>4, <2>7, JoinTyped
  <2>9. p \o b \in Seq(FieldValues)
    BY <2>4, <2>7, ConcatProperties
  <2>10. Append(p \o b, x) = (p \o b) \o o
    BY <2>3, <2>6, <2>9, AppendIsConcat
  <2>11. QED
    BY <2>2, <2>5, <2>6, <2>8, <2>10 DEF ValsAt
<1>13. QED
  BY <1>2, <1>6, <1>11, <1>12

LEMMA OneAndOne == ASSUME NEW a, NEW b PROVE <<a>> \o <<b>> = <<a, b>>
<1>1. PICK S, p, q, c, d : S = {a, b} /\ p = <<a>> /\ q = <<b>> /\ c = p \o q /\ d = <<a, b>>
  OBVIOUS
<1>2. /\ p \in Seq(S) /\ Len(p) = 1 /\ p[1] = a /\ q \in Seq(S) /\ Len(q) = 1 /\ q[1] = b
      /\ d \in Seq(S) /\ Len(d) = 2 /\ d[1] = a /\ d[2] = b
  BY <1>1
<1>3. /\ c \in Seq(S) /\ Len(c) = Len(p) + Len(q)
      /\ \A i \in 1 .. Len(p) + Len(q) : c[i] = IF i <= Len(p) THEN p[i] ELSE q[i - Len(p)]
  BY <1>1, <1>2, ConcatProperties
<1>4. Len(c) = 2 /\ c[1] = a /\ c[2] = b
  BY <1>2, <1>3
<1>5. \A i \in 1 .. Len(c) : c[i] = d[i]
  <2> TAKE i \in 1 .. Len(c)
  <2>1. i = 1 \/ i = 2
    BY <1>4
  <2>2. QED
    BY <2>1, <1>2, <1>4
<1>6. c = d
  BY <1>2, <1>3, <1>4, <1>5, SeqEqual
<1>7. QED
  BY <1>1, <1>6

LEMMA AtEnd ==
  ASSUME NEW j, Sound(j)
  PROVE  /\ PlanAt(j, Number(j)) = j.tail /\ FieldsAt(j, Number(j)) = j.rest
         /\ ValsAt(j, Number(j)) = j.pre \o j.values
<1>1. Number(j) \in Nat /\ Number(j) - Number(j) = 0
  BY LenProperties DEF Sound, Number
<1>2. Repeat(j.unit, Number(j) - Number(j)) = <<>>
  BY <1>1, RepeatNone
<1>3. After(j.fields, Number(j), Number(j)) = <<>>
  BY <1>1, AfterEnd
<1>4. SubSeq(j.values, 1, Number(j)) = j.values
  BY SubSeqFull DEF Sound, Number
<1>5. <<>> \o j.tail = j.tail /\ <<>> \o j.rest = j.rest
  BY ConcatEmptySeq DEF Sound
<1>6. QED
  BY <1>2, <1>3, <1>4, <1>5 DEF PlanAt, FieldsAt, ValsAt

LEMMA AtStart ==
  ASSUME NEW j, Sound(j)
  PROVE  OnJob(j, Repeat(j.unit, Number(j)) \o j.tail, After(j.fields, Number(j), 0) \o j.rest, j.pre)
<1>1. Number(j) \in Nat /\ 0 \in 0 .. Number(j) /\ Number(j) - 0 = Number(j)
  BY LenProperties DEF Sound, Number
<1>2. SubSeq(j.values, 1, 0) = <<>>
  BY SubSeqEmpty
<1>3. j.pre \o <<>> = j.pre
  BY ConcatEmptySeq DEF Sound
<1>4. Between(j, 0, Repeat(j.unit, Number(j)) \o j.tail, After(j.fields, Number(j), 0) \o j.rest, j.pre)
  BY <1>1, <1>2, <1>3 DEF Between, PlanAt, FieldsAt, ValsAt
<1>5. QED
  BY <1>4 DEF OnJob

Finished(j, td, rest, vs) == td = j.tail /\ rest = j.rest /\ vs = j.pre \o j.values
JobReads == {"length", "string", "scalar", "bool", "dim"}
Advances(j, td, rest, vs) ==
  \E what \in JobReads : \E f, tl, fl :
    /\ ReadsAs(td, rest, what, f, tl, fl)
    /\ f.error = <<>> => OnJob(j, Onward(what, f.value, tl, vs), fl, Kept(what, f.value, vs))

LEMMA TextBegins ==
  ASSUME NEW j, Sound(j), NEW i \in 0 .. Number(j) - 1, NEW td, NEW rest, NEW vs,
         Between(j, i, td, rest, vs), IsText(j.unit, j.fields[i + 1], j.values[i + 1])
  PROVE  Advances(j, td, rest, vs)
<1> DEFINE s == j.values[i + 1]
           f == Field(s.width, 8)
           tl == PlanAt(j, i + 1)
           fl == <<TextField(s)>> \o FieldsAt(j, i + 1)
<1>1. i \in 0 .. Number(j) /\ i + 1 \in 0 .. Number(j) /\ Number(j) \in Nat
  BY LenProperties DEF Sound, Number
<1>2. tl \in Seq(Plans) /\ FieldsAt(j, i + 1) \in Seq(Fields)
  BY <1>1, AtTypes
<1>3. s \in Texts /\ j.unit = String /\ j.fields[i + 1] = StringFields(s)
  BY DEF IsText
<1>4. /\ StringFields(s) = <<f, TextField(s)>> /\ f \in Fields /\ TextField(s) \in Fields
      /\ s.width \in Nat
  BY <1>3, TextIsField
<1>5. f.value = s.width /\ f.width = 8 /\ f.error = <<>>
  BY DEF Field
<1>6. td = String \o tl /\ rest = StringFields(s) \o FieldsAt(j, i + 1) /\ vs = ValsAt(j, i)
  BY <1>3, AtStep DEF Between
<1>7. td = <<<<"length", f.width>>>> \o tl
  BY <1>5, <1>6, StringPlan
<1>8. rest = <<f>> \o fl /\ fl \in Seq(Fields)
  <2>1. PICK z : z = FieldsAt(j, i + 1)
    OBVIOUS
  <2>2. PICK a, b : a = <<f>> /\ b = <<TextField(s)>>
    OBVIOUS
  <2>3. a \in Seq(Fields) /\ b \in Seq(Fields) /\ z \in Seq(Fields)
    BY <1>2, <1>4, <2>1, <2>2
  <2>4. a \o b = <<f, TextField(s)>>
    BY <2>2, OneAndOne
  <2>5. (a \o b) \o z = a \o (b \o z) /\ b \o z \in Seq(Fields)
    BY <2>3, JoinTyped, ConcatProperties
  <2>6. QED
    BY <1>4, <1>6, <2>1, <2>2, <2>4, <2>5
<1>9. Owes("length", f)
  BY <1>5, OwesNothing
<1> HIDE DEF tl, fl, f
<1>10. ReadsAs(td, rest, "length", f, tl, fl)
  BY <1>2, <1>4, <1>7, <1>8, <1>9 DEF ReadsAs, StepNames
<1>11. Onward("length", f.value, tl, vs) = <<<<"string", s.width>>>> \o tl
  BY <1>5 DEF Onward
<1>12. Kept("length", f.value, vs) = vs
  BY DEF Kept
<1>13. Within(j, i, <<<<"string", s.width>>>> \o tl, fl, vs)
  BY <1>6 DEF Within, tl, fl
<1>14. OnJob(j, Onward("length", f.value, tl, vs), fl, Kept("length", f.value, vs))
  BY <1>11, <1>12, <1>13 DEF OnJob
<1>15. QED
  BY <1>10, <1>14 DEF Advances, JobReads

LEMMA TextEnds ==
  ASSUME NEW j, Sound(j), NEW i, NEW td, NEW rest, NEW vs, Within(j, i, td, rest, vs)
  PROVE  Advances(j, td, rest, vs)
<1> DEFINE s == j.values[i + 1]
           f == TextField(s)
           tl == PlanAt(j, i + 1)
           fl == FieldsAt(j, i + 1)
<1>1. /\ i \in 0 .. Number(j) - 1 /\ i + 1 \in 0 .. Number(j) /\ Number(j) \in Nat
  BY LenProperties DEF Sound, Number, Within
<1>2. tl \in Seq(Plans) /\ fl \in Seq(Fields)
  BY <1>1, AtTypes
<1>3. s \in Texts
  BY DEF IsText, Within
<1>4. f \in Fields /\ Owes("string", f)
  BY <1>3, TextIsField, OwesText
<1>5. f.value = s /\ f.width = s.width
  BY DEF TextField
<1>6. td = <<<<"string", f.width>>>> \o tl /\ rest = <<f>> \o fl /\ vs = ValsAt(j, i)
  BY <1>5 DEF Within
<1>7. ValsAt(j, i + 1) = Append(vs, s)
  BY <1>1, <1>6, AtStep
<1> HIDE DEF tl, fl, f
<1>8. ReadsAs(td, rest, "string", f, tl, fl)
  BY <1>2, <1>4, <1>6 DEF ReadsAs, StepNames
<1>9. Onward("string", f.value, tl, vs) = tl
  BY DEF Onward
<1>10. Kept("string", f.value, vs) = Append(vs, s)
  BY <1>5 DEF Kept
<1>11. Between(j, i + 1, tl, fl, Append(vs, s))
  BY <1>1, <1>7 DEF Between, tl, fl
<1>12. OnJob(j, Onward("string", f.value, tl, vs), fl, Kept("string", f.value, vs))
  BY <1>9, <1>10, <1>11 DEF OnJob
<1>13. QED
  BY <1>8, <1>12 DEF Advances, JobReads

LEMMA NumberRead ==
  ASSUME NEW j, Sound(j), NEW i \in 0 .. Number(j) - 1, NEW td, NEW rest, NEW vs,
         Between(j, i, td, rest, vs), IsNumber(j.unit, j.fields[i + 1], j.values[i + 1])
  PROVE  Advances(j, td, rest, vs)
<1>1. PICK what \in {"scalar", "bool", "dim"}, n \in Nat \ {0}, v \in Int :
        /\ j.unit = <<<<what, n>>>> /\ j.fields[i + 1] = <<Field(v, n)>>
        /\ j.values[i + 1] = IF what = "bool" THEN (IF v # 0 THEN 1 ELSE 0) ELSE v
  BY DEF IsNumber
<1> DEFINE m == j.values[i + 1]
           f == Field(v, n)
           tl == PlanAt(j, i + 1)
           fl == FieldsAt(j, i + 1)
<1>2. i \in 0 .. Number(j) /\ i + 1 \in 0 .. Number(j) /\ Number(j) \in Nat
  BY LenProperties DEF Sound, Number
<1>3. tl \in Seq(Plans) /\ fl \in Seq(Fields)
  BY <1>2, AtTypes
<1>4. f \in Fields /\ f.value = v /\ f.width = n /\ f.error = <<>>
  BY <1>1, FieldIsField
<1>5. Owes(what, f)
  BY <1>1, <1>4, OwesNothing
<1>6. td = <<<<what, n>>>> \o tl /\ rest = <<f>> \o fl /\ vs = ValsAt(j, i)
  BY <1>1, AtStep DEF Between
<1>7. ValsAt(j, i + 1) = Append(vs, m)
  BY <1>2, <1>6, AtStep
<1> HIDE DEF tl, fl, f
<1>8. ReadsAs(td, rest, what, f, tl, fl)
  BY <1>1, <1>3, <1>4, <1>5, <1>6 DEF ReadsAs, StepNames
<1>9. Onward(what, f.value, tl, vs) = tl
  BY <1>1 DEF Onward
<1>10. Kept(what, f.value, vs) = Append(vs, m)
  BY <1>1, <1>4 DEF Kept
<1>11. Between(j, i + 1, tl, fl, Append(vs, m))
  BY <1>2, <1>7 DEF Between, tl, fl
<1>12. OnJob(j, Onward(what, f.value, tl, vs), fl, Kept(what, f.value, vs))
  BY <1>9, <1>10, <1>11 DEF OnJob
<1>13. what \in JobReads
  BY <1>1 DEF JobReads
<1>14. QED
  BY <1>8, <1>12, <1>13 DEF Advances

LEMMA JobStep ==
  ASSUME NEW j, Sound(j), NEW td, NEW rest, NEW vs, OnJob(j, td, rest, vs)
  PROVE  Finished(j, td, rest, vs) \/ Advances(j, td, rest, vs)
<1>1. PICK i : Between(j, i, td, rest, vs) \/ Within(j, i, td, rest, vs)
  BY DEF OnJob
<1>2. CASE Within(j, i, td, rest, vs)
  BY <1>2, TextEnds
<1>3. CASE Between(j, i, td, rest, vs)
  <2>1. i \in 0 .. Number(j) /\ Number(j) \in Nat
    BY <1>3, LenProperties DEF Between, Sound, Number
  <2>2. CASE i = Number(j)
    BY <1>3, <2>2, AtEnd DEF Between, Finished
  <2>3. CASE i # Number(j)
    <3>1. i \in 0 .. Number(j) - 1
      BY <2>1, <2>3
    <3>2. Item(j.unit, j.fields[i + 1], j.values[i + 1])
      BY <3>1, AtStep
    <3>3. QED
      BY <1>3, <3>1, <3>2, TextBegins, NumberRead DEF Item
  <2>4. QED
    BY <2>2, <2>3
<1>4. QED
  BY <1>1, <1>2, <1>3

(* The joins of single elements.                                           *)
LEMMA OneAndTwo == ASSUME NEW a, NEW b, NEW c PROVE <<a>> \o <<b, c>> = <<a, b, c>> /\ <<a, b>> \o <<c>> = <<a, b, c>>
<1>1. PICK S, p, q, p2, q2, x, y, z :
        /\ S = {a, b, c} /\ p = <<a>> /\ q = <<b, c>> /\ x = p \o q
        /\ p2 = <<a, b>> /\ q2 = <<c>> /\ y = p2 \o q2 /\ z = <<a, b, c>>
  OBVIOUS
<1>2. /\ p \in Seq(S) /\ Len(p) = 1 /\ p[1] = a /\ q \in Seq(S) /\ Len(q) = 2 /\ q[1] = b /\ q[2] = c
      /\ p2 \in Seq(S) /\ Len(p2) = 2 /\ p2[1] = a /\ p2[2] = b /\ q2 \in Seq(S) /\ Len(q2) = 1 /\ q2[1] = c
      /\ z \in Seq(S) /\ Len(z) = 3 /\ z[1] = a /\ z[2] = b /\ z[3] = c
  BY <1>1
<1>3. /\ x \in Seq(S) /\ Len(x) = Len(p) + Len(q)
      /\ \A i \in 1 .. Len(p) + Len(q) : x[i] = IF i <= Len(p) THEN p[i] ELSE q[i - Len(p)]
  BY <1>1, <1>2, ConcatProperties
<1>4. /\ y \in Seq(S) /\ Len(y) = Len(p2) + Len(q2)
      /\ \A i \in 1 .. Len(p2) + Len(q2) : y[i] = IF i <= Len(p2) THEN p2[i] ELSE q2[i - Len(p2)]
  BY <1>1, <1>2, ConcatProperties
<1>5. Len(x) = 3 /\ x[1] = a /\ x[2] = b /\ x[3] = c
  BY <1>2, <1>3
<1>6. Len(y) = 3 /\ y[1] = a /\ y[2] = b /\ y[3] = c
  BY <1>2, <1>4
<1>7. \A i \in 1 .. 3 : x[i] = z[i] /\ y[i] = z[i]
  <2> TAKE i \in 1 .. 3
  <2>1. i = 1 \/ i = 2 \/ i = 3
    OBVIOUS
  <2>2. QED
    BY <2>1, <1>2, <1>5, <1>6
<1>8. x = z
  BY <1>2, <1>3, <1>5, <1>7, SeqEqual
<1>9. y = z
  BY <1>2, <1>4, <1>6, <1>7, SeqEqual
<1>10. QED
  BY <1>1, <1>8, <1>9

LEMMA AppendOne ==
  ASSUME NEW a, NEW b, NEW c
  PROVE  Append(<<a>>, b) = <<a, b>> /\ Append(<<a, b>>, c) = <<a, b, c>>
<1>1. PICK S : S = {a, b, c}
  OBVIOUS
<1>2. <<a>> \in Seq(S) /\ <<a, b>> \in Seq(S) /\ b \in S /\ c \in S
  BY <1>1
<1>3. Append(<<a>>, b) = <<a>> \o <<b>> /\ Append(<<a, b>>, c) = <<a, b>> \o <<c>>
  BY <1>2, AppendIsConcat
<1>4. QED
  BY <1>3, OneAndOne, OneAndTwo

(* A single item.                                                          *)
LEMMA RepeatOne ==
  ASSUME NEW S, NEW u \in Seq(S)
  PROVE  Repeat(u, 1) = u
<1>1. Repeat(u, 1) = u \o Repeat(u, 1 - 1)
  BY RepeatStep
<1>2. 1 - 1 = 0
  OBVIOUS
<1>3. QED
  BY <1>1, <1>2, RepeatNone, ConcatEmptySeq

LEMMA AfterOne ==
  ASSUME NEW S, NEW u \in Seq(S)
  PROVE  After(<<u>>, 1, 0) = u
<1>1. FlattenSeq(<<u>>) = u
  BY FlattenOne
<1>2. Part(<<u>>, 1, 0) = <<u>>
  BY DEF Part
<1>3. QED
  BY <1>1, <1>2 DEF After

(* The type and the items of a value.                                      *)
Kind(value) == IF value[1] = 9 THEN value[2] ELSE value[1]
Held(value) == IF value[1] = 9 THEN value[3] ELSE <<value[2]>>
HeldFields(value) == [k \in DOMAIN Held(value) |-> ItemFields(Kind(value), Held(value)[k])]
HeldValues(value) == [k \in DOMAIN Held(value) |-> Meaning(Kind(value), Held(value)[k])]
Supported(value) == Kind(value) \in Valid \ {9} /\ value[1] \in Valid

TypeOwed(n, known) ==
  [value |-> n, width |-> 4, error |-> IF n \in known THEN <<>> ELSE <<"UnknownMetadataType", n>>]

LEMMA MetadataCases ==
  ASSUME NEW value \in MetadataValues
  PROVE  /\ value[1] \in Nat
         /\ \/ value[1] \in Nat \ {8, 9} /\ value[2] \in Int
            \/ value[1] = 8 /\ value[2] \in Texts
            \/ value[1] = 9 /\ value[2] \in Nat /\ value[3] = <<>>
            \/ value[1] = 9 /\ value[2] \in Valid \ {8, 9} /\ value[3] \in Seq(Int)
            \/ value[1] = 9 /\ value[2] = 8 /\ value[3] \in Seq(Texts)
<1>1. CASE value \in (Nat \ {8, 9}) \X Int
  BY <1>1
<1>2. CASE value \in {8} \X Texts
  BY <1>2
<1>3. CASE value \in {9} \X Nat \X {<<>>}
  BY <1>3
<1>4. CASE value \in {9} \X (Valid \ {8, 9}) \X Seq(Int)
  BY <1>4
<1>5. CASE value \in {9} \X {8} \X Seq(Texts)
  BY <1>5
<1>6. QED
  BY <1>1, <1>2, <1>3, <1>4, <1>5 DEF MetadataValues

LEMMA TypesAreNumbers ==
  ASSUME NEW value \in MetadataValues
  PROVE  value[1] \in Nat /\ (value[1] = 9 => value[2] \in Nat)
<1>1. PICK a, b, c : a = value[1] /\ b = value[2] /\ c = value[3]
  OBVIOUS
<1>2. /\ a \in Nat
      /\ \/ a \in Nat \ {8, 9} /\ b \in Int
         \/ a = 8 /\ b \in Texts
         \/ a = 9 /\ b \in Nat /\ c = <<>>
         \/ a = 9 /\ b \in Valid \ {8, 9} /\ c \in Seq(Int)
         \/ a = 9 /\ b = 8 /\ c \in Seq(Texts)
  BY <1>1, MetadataCases
<1>3. Valid \subseteq Nat /\ 8 \in Nat /\ 8 # 9
  BY DEF Valid
<1>4. a = 9 => b \in Nat
  BY <1>2, <1>3
<1>5. QED
  BY <1>1, <1>2, <1>4

LEMMA HeldTypes ==
  ASSUME NEW value \in MetadataValues, Supported(value)
  PROVE  /\ Held(value) \in Seq(IF Kind(value) = 8 THEN Texts ELSE Int)
         /\ Kind(value) \in Valid \ {9}
         /\ Len(Held(value)) \in Nat /\ DOMAIN Held(value) = 1 .. Len(Held(value))
         /\ value[1] # 9 => Held(value) = <<value[2]>> /\ Kind(value) = value[1]
         /\ value[1] = 9 => Held(value) = value[3] /\ Kind(value) = value[2] /\ value[2] \in Nat
<1>1. Held(value) \in Seq(IF Kind(value) = 8 THEN Texts ELSE Int)
  <2>1. CASE value[1] = 9
    <3>1. Held(value) = value[3] /\ Kind(value) = value[2]
      BY <2>1 DEF Held, Kind
    <3>2. CASE value[3] = <<>>
      BY <3>1, <3>2, EmptySeq
    <3>3. CASE value[2] \in Valid \ {8, 9} /\ value[3] \in Seq(Int)
      BY <3>1, <3>3
    <3>4. CASE value[2] = 8 /\ value[3] \in Seq(Texts)
      BY <3>1, <3>4
    <3>5. QED
      BY <2>1, <3>2, <3>3, <3>4, MetadataCases
  <2>2. CASE value[1] # 9
    <3>1. Held(value) = <<value[2]>> /\ Kind(value) = value[1]
      BY <2>2 DEF Held, Kind
    <3>2. CASE value[1] = 8 /\ value[2] \in Texts
      BY <3>1, <3>2
    <3>3. CASE value[1] \in Nat \ {8, 9} /\ value[2] \in Int
      <4>1. Kind(value) # 8 /\ <<value[2]>> \in Seq(Int)
        BY <3>1, <3>3
      <4>2. QED
        BY <3>1, <4>1
    <3>4. QED
      BY <2>2, <3>2, <3>3, MetadataCases
  <2>3. QED
    BY <2>1, <2>2
<1>2. Len(Held(value)) \in Nat /\ DOMAIN Held(value) = 1 .. Len(Held(value))
  BY <1>1, LenProperties
<1>3. value[1] = 9 => value[2] \in Nat
  BY TypesAreNumbers
<1>4. QED
  BY <1>1, <1>2, <1>3 DEF Supported, Held, Kind

LEMMA Widths ==
  /\ WrittenWidth[0] = 1 /\ WrittenWidth[1] = 1 /\ WrittenWidth[2] = 2 /\ WrittenWidth[3] = 2
  /\ WrittenWidth[4] = 4 /\ WrittenWidth[5] = 4 /\ WrittenWidth[6] = 4
  /\ WrittenWidth[10] = 8 /\ WrittenWidth[11] = 8 /\ WrittenWidth[12] = 8
  BY DEF WrittenWidth

LEMMA ItemOfKind ==
  ASSUME NEW t \in Valid \ {9}, NEW v, v \in (IF t = 8 THEN Texts ELSE Int)
  PROVE  Item(Value(t), ItemFields(t, v), Meaning(t, v))
<1>1. CASE t = 8
  <2>1. Value(t) = String /\ ItemFields(t, v) = StringFields(v) /\ Meaning(t, v) = v
    BY <1>1 DEF Value, ItemFields, Meaning
  <2>2. QED
    BY <1>1, <2>1 DEF Item, IsText
<1>2. CASE t = 7
  <2>1. WrittenWidth[7] = 1
    BY DEF WrittenWidth
  <2>2. Value(t) = <<<<"bool", 1>>>> /\ ItemFields(t, v) = <<Field(v, 1)>>
    BY <1>2, <2>1 DEF Value, ItemFields
  <2>3. Meaning(t, v) = IF v # 0 THEN 1 ELSE 0
    BY <1>2 DEF Meaning
  <2>4. v \in Int /\ "bool" \in {"scalar", "bool", "dim"} /\ 1 \in Nat \ {0}
    BY <1>2
  <2>5. IsNumber(Value(t), ItemFields(t, v), Meaning(t, v))
    BY <2>2, <2>3, <2>4 DEF IsNumber
  <2>6. QED
    BY <2>5 DEF Item
<1>3. CASE t \notin {7, 8}
  <2>1. \/ t \in {0, 1} /\ WrittenWidth[t] = 1
        \/ t \in {2, 3} /\ WrittenWidth[t] = 2
        \/ t \in {4, 5, 6} /\ WrittenWidth[t] = 4
        \/ t \in {10, 11, 12} /\ WrittenWidth[t] = 8
    <3>1. t \in {0, 1, 2, 3, 4, 5, 6, 10, 11, 12}
      BY <1>3 DEF Valid
    <3>2. QED
      BY <3>1, Widths
  <2>2. PICK n \in Nat \ {0} : WrittenWidth[t] = n /\ Value(t) = <<<<"scalar", n>>>>
    <3>1. CASE t \in {0, 1} /\ WrittenWidth[t] = 1
      BY <3>1 DEF Value
    <3>2. CASE t \in {2, 3} /\ WrittenWidth[t] = 2
      BY <3>2 DEF Value
    <3>3. CASE t \in {4, 5, 6} /\ WrittenWidth[t] = 4
      BY <3>3 DEF Value
    <3>4. CASE t \in {10, 11, 12} /\ WrittenWidth[t] = 8
      BY <3>4 DEF Value
    <3>5. QED
      BY <2>1, <3>1, <3>2, <3>3, <3>4
  <2>3. ItemFields(t, v) = <<Field(v, n)>> /\ Meaning(t, v) = v /\ v \in Int
    BY <1>3, <2>2 DEF ItemFields, Meaning
  <2>4. "scalar" \in {"scalar", "bool", "dim"} /\ "scalar" # "bool"
    OBVIOUS
  <2>5. IsNumber(Value(t), ItemFields(t, v), Meaning(t, v))
    BY <2>2, <2>3, <2>4 DEF IsNumber
  <2>6. QED
    BY <2>5 DEF Item
<1>4. QED
  BY <1>1, <1>2, <1>3

LEMMA HeldItems ==
  ASSUME NEW value \in MetadataValues, Supported(value)
  PROVE  /\ HeldValues(value) \in Seq(FieldValues) /\ Len(HeldValues(value)) = Len(Held(value))
         /\ SeqsOf(Fields, HeldFields(value), Len(Held(value)))
         /\ Value(Kind(value)) \in Seq(Plans)
         /\ \A i \in 1 .. Len(Held(value)) :
              Item(Value(Kind(value)), HeldFields(value)[i], HeldValues(value)[i])
<1> DEFINE t == Kind(value)
           n == Len(Held(value))
<1>1. /\ Held(value) \in Seq(IF t = 8 THEN Texts ELSE Int) /\ t \in Valid \ {9}
      /\ n \in Nat /\ DOMAIN Held(value) = 1 .. n
  BY HeldTypes
<1>2. ASSUME NEW i \in 1 .. n
      PROVE  /\ HeldFields(value)[i] = ItemFields(t, Held(value)[i])
             /\ HeldValues(value)[i] = Meaning(t, Held(value)[i])
             /\ Item(Value(t), ItemFields(t, Held(value)[i]), Meaning(t, Held(value)[i]))
  <2>1. Held(value)[i] \in (IF t = 8 THEN Texts ELSE Int)
    BY <1>1, <1>2, ElementOfSeq
  <2>2. Item(Value(t), ItemFields(t, Held(value)[i]), Meaning(t, Held(value)[i]))
    BY <1>1, <2>1, ItemOfKind
  <2>3. QED
    BY <1>1, <1>2, <2>2 DEF HeldFields, HeldValues
<1>3. \A i \in 1 .. n : HeldFields(value)[i] \in Seq(Fields) /\ HeldValues(value)[i] \in FieldValues
  BY <1>2, ItemTypes
<1>4. HeldValues(value) \in Seq(FieldValues) /\ Len(HeldValues(value)) = n
  <2>1. HeldValues(value) = [i \in 1 .. n |-> HeldValues(value)[i]]
    BY <1>1 DEF HeldValues
  <2>2. HeldValues(value) \in [1 .. n -> FieldValues]
    BY <1>3, <2>1
  <2>3. QED
    BY <1>1, <2>2
<1>5. SeqsOf(Fields, HeldFields(value), n)
  BY <1>1, <1>3 DEF SeqsOf
<1>6. Value(t) \in Seq(Plans)
  <2>1. 0 \in Valid \ {9} /\ 8 \in Valid
    BY DEF Valid
  <2>2. CASE t = 8
    BY <2>2, StringPlan DEF Value
  <2>3. CASE t # 8
    <3>1. Item(Value(t), ItemFields(t, 0), Meaning(t, 0))
      BY <1>1, <2>3, ItemOfKind
    <3>2. QED
      BY <3>1, ItemTypes
  <2>4. QED
    BY <2>2, <2>3
<1>7. QED
  BY <1>1, <1>2, <1>4, <1>5, <1>6

(* The fields of a value.                                                  *)
LEMMA ValueShape ==
  ASSUME NEW value \in MetadataValues
  PROVE  /\ value[1] \notin Valid => ValueFields(value) = <<TypeOwed(value[1], Valid)>>
         /\ value[1] \in Valid \ {9} =>
              /\ Supported(value)
              /\ ValueFields(value) =
                   <<TypeOwed(value[1], Valid)>> \o After(HeldFields(value), Len(Held(value)), 0)
         /\ value[1] = 9 =>
              /\ Len(value[3]) \in Nat /\ value[2] \in Nat
              /\ ValueFields(value) =
                   <<TypeOwed(9, Valid), TypeOwed(value[2], Valid \ {9}), Field(Len(value[3]), 8)>>
                     \o After(HeldFields(value), Len(value[3]), 0)
<1>1. ASSUME value[1] \notin Valid
      PROVE  ValueFields(value) = <<TypeOwed(value[1], Valid)>>
  <2>1. value[1] # 9
    BY <1>1 DEF Valid
  <2>2. ValueFields(value) = <<TypeOwed(value[1], Valid)>> \o <<>>
    BY <1>1, <2>1 DEF ValueFields, TypeOwed
  <2>3. <<TypeOwed(value[1], Valid)>> \in Seq({TypeOwed(value[1], Valid)})
    OBVIOUS
  <2>4. QED
    BY <2>2, <2>3, ConcatEmptySeq
<1>2. ASSUME value[1] \in Valid \ {9}
      PROVE  /\ Supported(value)
             /\ ValueFields(value) =
                  <<TypeOwed(value[1], Valid)>> \o After(HeldFields(value), Len(Held(value)), 0)
  <2>1. Supported(value)
    BY <1>2 DEF Supported, Kind
  <2>2. Held(value) = <<value[2]>> /\ Kind(value) = value[1] /\ value[1] # 9
    BY <1>2, <2>1, HeldTypes
  <2>3. HeldFields(value) = <<ItemFields(value[1], value[2])>> /\ Len(Held(value)) = 1
    BY <2>2 DEF HeldFields
  <2>4. ItemFields(value[1], value[2]) \in Seq(Fields)
    <3>1. SeqsOf(Fields, HeldFields(value), Len(Held(value)))
      BY <2>1, HeldItems
    <3>2. HeldFields(value)[1] = ItemFields(value[1], value[2]) /\ 1 \in 1 .. 1
      BY <2>3
    <3>3. QED
      BY <2>3, <3>1, <3>2 DEF SeqsOf
  <2>5. After(HeldFields(value), Len(Held(value)), 0) = ItemFields(value[1], value[2])
    BY <2>3, <2>4, AfterOne
  <2>6. ValueFields(value) = <<TypeOwed(value[1], Valid)>> \o ItemFields(value[1], value[2])
    BY <1>2, <2>2 DEF ValueFields, TypeOwed
  <2>7. QED
    BY <2>1, <2>5, <2>6
<1>3. ASSUME value[1] = 9
      PROVE  /\ Len(value[3]) \in Nat /\ value[2] \in Nat
             /\ ValueFields(value) =
                  <<TypeOwed(9, Valid), TypeOwed(value[2], Valid \ {9}), Field(Len(value[3]), 8)>>
                    \o After(HeldFields(value), Len(value[3]), 0)
  <2>1. /\ value[2] \in Nat
        /\ value[3] = <<>> \/ value[3] \in Seq(Int) \/ value[3] \in Seq(Texts)
    BY <1>3, MetadataCases DEF Valid
  <2>2. Len(value[3]) \in Nat /\ DOMAIN value[3] = 1 .. Len(value[3])
    BY <2>1, LenProperties, EmptySeq
  <2>3. PICK F : F = HeldFields(value)
    OBVIOUS
  <2>4. F = [k \in 1 .. Len(value[3]) |-> ItemFields(value[2], value[3][k])]
    BY <1>3, <2>2, <2>3 DEF HeldFields, Held, Kind
  <2>5. F = [k \in 1 .. Len(value[3]) |-> F[k]]
    BY <2>4
  <2>6. FlattenSeq(F) = After(F, Len(value[3]), 0)
    BY <2>2, <2>5, AfterNone
  <2>7. ValueFields(value) =
          <<TypeOwed(9, Valid), TypeOwed(value[2], Valid \ {9}), Field(Len(value[3]), 8)>>
            \o FlattenSeq([k \in DOMAIN value[3] |-> ItemFields(value[2], value[3][k])])
    BY <1>3 DEF ValueFields, TypeOwed
  <2>8. QED
    BY <2>1, <2>2, <2>3, <2>4, <2>6, <2>7
<1>4. QED
  BY <1>1, <1>2, <1>3

-----------------------------------------------------------------------------
(* An entry of the metadata, before tl and fl.                             *)
Entries == [key : Texts, value : MetadataValues]
InsertStep == <<<<"insert", 0>>>>

KeyJob(e, tl, fl) ==
  Job(String, <<StringFields(e.key)>>, <<e.key>>, <<>>,
      <<<<"value_type", 4>>>> \o (InsertStep \o tl), ValueFields(e.value) \o fl)
Before(e) == IF e.value[1] = 9 THEN <<e.key, 9, e.value[2]>> ELSE <<e.key, e.value[1]>>
ValueJob(e, tl, fl) ==
  Job(Value(Kind(e.value)), HeldFields(e.value), HeldValues(e.value), Before(e), InsertStep \o tl, fl)

(* The type and the number of the items of an array.                       *)
AtElemType(e, tl, fl, td, rest, vs) ==
  /\ e.value[1] = 9
  /\ td = <<<<"elem_type", 4>>>> \o (<<<<"count", 8>>>> \o (InsertStep \o tl))
  /\ rest = <<TypeOwed(e.value[2], Valid \ {9})>>
              \o (<<Field(Len(e.value[3]), 8)>> \o (After(HeldFields(e.value), Len(e.value[3]), 0) \o fl))
  /\ vs = <<e.key, 9>>
AtCount(e, tl, fl, td, rest, vs) ==
  /\ e.value[1] = 9 /\ Supported(e.value)
  /\ td = <<<<"count", 8>>>> \o (InsertStep \o tl)
  /\ rest = <<Field(Len(e.value[3]), 8)>> \o (After(HeldFields(e.value), Len(e.value[3]), 0) \o fl)
  /\ vs = <<e.key, 9, e.value[2]>>

InEntry(e, tl, fl, td, rest, vs) ==
  \/ OnJob(KeyJob(e, tl, fl), td, rest, vs)
  \/ AtElemType(e, tl, fl, td, rest, vs)
  \/ AtCount(e, tl, fl, td, rest, vs)
  \/ Supported(e.value) /\ OnJob(ValueJob(e, tl, fl), td, rest, vs)

EntryReads == JobReads \union {"value_type", "elem_type", "count"}
EntryGoesOn(e, tl, fl, td, rest, vs) ==
  \E what \in EntryReads : \E f, tl1, fl1 :
    /\ ReadsAs(td, rest, what, f, tl1, fl1)
    /\ f.error = <<>> => InEntry(e, tl, fl, Onward(what, f.value, tl1, vs), fl1, Kept(what, f.value, vs))
EntryRead(e, tl, fl, td, rest, vs) ==
  td = InsertStep \o tl /\ rest = fl /\ vs = <<e.key>> \o Content(e.value)

Around(e, tl, fl) == e \in Entries /\ tl \in Seq(Plans) /\ fl \in Seq(Fields)

LEMMA InsertStepTypes ==
  ASSUME NEW tl \in Seq(Plans)
  PROVE  /\ InsertStep \in Seq(Plans) /\ InsertStep \o tl \in Seq(Plans)
         /\ <<<<"count", 8>>>> \o (InsertStep \o tl) \in Seq(Plans)
         /\ <<<<"value_type", 4>>>> \o (InsertStep \o tl) \in Seq(Plans)
         /\ <<"count", 8>> \in Plans /\ <<"elem_type", 4>> \in Plans
<1>1. <<"insert", 0>> \in Plans /\ <<"count", 8>> \in Plans /\ <<"value_type", 4>> \in Plans
      /\ <<"elem_type", 4>> \in Plans
  BY DEF Plans, StepNames
<1>2. InsertStep \in Seq(Plans) /\ <<<<"count", 8>>>> \in Seq(Plans) /\ <<<<"value_type", 4>>>> \in Seq(Plans)
  BY <1>1 DEF InsertStep
<1>3. InsertStep \o tl \in Seq(Plans)
  BY <1>2, ConcatProperties
<1>4. QED
  BY <1>1, <1>2, <1>3, ConcatProperties

LEMMA TypeOwedIsField ==
  ASSUME NEW n \in Nat, NEW known
  PROVE  /\ TypeOwed(n, known) \in Fields
         /\ TypeOwed(n, known).value = n /\ TypeOwed(n, known).width = 4
         /\ TypeOwed(n, known).error = <<>> <=> n \in known
<1>1. (IF n \in known THEN <<>> ELSE <<"UnknownMetadataType", n>>) \in FieldErrors
  BY DEF FieldErrors
<1>2. n \in FieldValues /\ 4 \in Nat \ {0}
  BY DEF FieldValues
<1>3. TypeOwed(n, known) \in Fields
  BY <1>1, <1>2, OwedIsField DEF TypeOwed
<1>4. <<>> # <<"UnknownMetadataType", n>>
  OBVIOUS
<1>5. QED
  BY <1>3, <1>4 DEF TypeOwed

LEMMA OwesType ==
  ASSUME NEW n \in Nat
  PROVE  /\ Owes("value_type", TypeOwed(n, Valid))
         /\ Owes("elem_type", TypeOwed(n, Valid \ {9}))
<1>1. /\ Rejects("value_type", n) = IF n \in Valid THEN <<>> ELSE <<"UnknownMetadataType", n>>
      /\ Rejects("elem_type", n) = IF n \in Valid \ {9} THEN <<>> ELSE <<"UnknownMetadataType", n>>
  BY DEF Rejects, Valid, MetadataArrayType
<1>2. <<>> # <<"InvalidString">> /\ <<"UnknownMetadataType", n>> # <<"InvalidString">>
  OBVIOUS
<1>3. QED
  BY <1>1, <1>2 DEF Owes, TypeOwed

LEMMA ArrayItems ==
  ASSUME NEW value \in MetadataValues, value[1] = 9
  PROVE  After(HeldFields(value), Len(value[3]), 0) \in Seq(Fields)
<1>1. Len(value[3]) \in Nat
  BY ValueShape
<1>2. CASE Supported(value)
  <2>1. Held(value) = value[3]
    BY <1>2, HeldTypes
  <2>2. SeqsOf(Fields, HeldFields(value), Len(value[3])) /\ 0 \in 0 .. Len(value[3])
    BY <1>1, <1>2, <2>1, HeldItems
  <2>3. QED
    BY <2>2, PartIsSeq
<1>3. CASE ~Supported(value)
  <2>1. value[3] = <<>>
    BY <1>3, MetadataCases DEF Supported, Kind, Valid
  <2>2. Len(value[3]) = 0
    BY <2>1
  <2>3. After(HeldFields(value), 0, 0) = <<>>
    BY AfterEnd
  <2>4. QED
    BY <2>2, <2>3, EmptySeq
<1>4. QED
  BY <1>2, <1>3

LEMMA ValueFieldsType ==
  ASSUME NEW value \in MetadataValues
  PROVE  ValueFields(value) \in Seq(Fields)
<1>1. value[1] \in Nat /\ TypeOwed(value[1], Valid) \in Fields /\ <<TypeOwed(value[1], Valid)>> \in Seq(Fields)
  BY MetadataCases, TypeOwedIsField
<1>2. CASE value[1] \notin Valid
  BY <1>1, <1>2, ValueShape
<1>3. CASE value[1] \in Valid \ {9}
  <2>1. /\ Supported(value)
        /\ ValueFields(value) = <<TypeOwed(value[1], Valid)>> \o After(HeldFields(value), Len(Held(value)), 0)
    BY <1>3, ValueShape
  <2>2. SeqsOf(Fields, HeldFields(value), Len(Held(value))) /\ 0 \in 0 .. Len(Held(value))
    BY <2>1, HeldItems, HeldTypes
  <2>3. After(HeldFields(value), Len(Held(value)), 0) \in Seq(Fields)
    BY <2>2, PartIsSeq
  <2>4. QED
    BY <1>1, <2>1, <2>3, ConcatProperties
<1>4. CASE value[1] = 9
  <2>1. /\ Len(value[3]) \in Nat /\ value[2] \in Nat
        /\ ValueFields(value) =
             <<TypeOwed(9, Valid), TypeOwed(value[2], Valid \ {9}), Field(Len(value[3]), 8)>>
               \o After(HeldFields(value), Len(value[3]), 0)
    BY <1>4, ValueShape
  <2>2. /\ TypeOwed(9, Valid) \in Fields /\ TypeOwed(value[2], Valid \ {9}) \in Fields
        /\ Field(Len(value[3]), 8) \in Fields
    BY <2>1, TypeOwedIsField, FieldIsField
  <2>3. <<TypeOwed(9, Valid), TypeOwed(value[2], Valid \ {9}), Field(Len(value[3]), 8)>> \in Seq(Fields)
    BY <2>2
  <2>4. After(HeldFields(value), Len(value[3]), 0) \in Seq(Fields)
    BY <1>4, ArrayItems
  <2>5. QED
    BY <2>1, <2>3, <2>4, ConcatProperties
<1>5. QED
  BY <1>1, <1>2, <1>3, <1>4

LEMMA JobFields ==
  ASSUME NEW u, NEW F, NEW M, NEW p, NEW t, NEW r
  PROVE  /\ Job(u, F, M, p, t, r).unit = u /\ Job(u, F, M, p, t, r).fields = F
         /\ Job(u, F, M, p, t, r).values = M /\ Job(u, F, M, p, t, r).pre = p
         /\ Job(u, F, M, p, t, r).tail = t /\ Job(u, F, M, p, t, r).rest = r
         /\ Number(Job(u, F, M, p, t, r)) = Len(M)
  BY DEF Job, Number

LEMMA SoundJob ==
  ASSUME NEW u \in Seq(Plans), NEW F, NEW M \in Seq(FieldValues), NEW p \in Seq(FieldValues),
         NEW t \in Seq(Plans), NEW r \in Seq(Fields), \A i \in 1 .. Len(M) : Item(u, F[i], M[i])
  PROVE  Sound(Job(u, F, M, p, t, r))
<1>1. PICK j : j = Job(u, F, M, p, t, r)
  OBVIOUS
<1>2. /\ j.unit = u /\ j.fields = F /\ j.values = M /\ j.pre = p /\ j.tail = t /\ j.rest = r
      /\ Number(j) = Len(M)
  BY <1>1, JobFields
<1>3. Sound(j)
  BY <1>2 DEF Sound
<1>4. QED
  BY <1>1, <1>3

(* A single text.                                                          *)
LEMMA TextJobSound ==
  ASSUME NEW s \in Texts, NEW t \in Seq(Plans), NEW r \in Seq(Fields)
  PROVE  Sound(Job(String, <<StringFields(s)>>, <<s>>, <<>>, t, r))
<1> DEFINE F == <<StringFields(s)>>
           M == <<s>>
<1>1. s \in FieldValues
  BY TextIsField
<1>2. M \in Seq(FieldValues) /\ Len(M) = 1 /\ <<>> \in Seq(FieldValues)
  BY <1>1
<1>3. Item(String, F[1], M[1])
  BY DEF Item, IsText
<1>4. \A i \in 1 .. Len(M) : Item(String, F[i], M[i])
  <2> TAKE i \in 1 .. Len(M)
  <2>1. i = 1
    BY <1>2
  <2>2. QED
    BY <1>3, <2>1
<1> HIDE DEF F, M
<1>5. Sound(Job(String, F, M, <<>>, t, r))
  BY <1>2, <1>4, SoundJob, StringPlan
<1>6. QED
  BY <1>5 DEF F, M

LEMMA BeforeTypes ==
  ASSUME NEW e \in Entries
  PROVE  /\ e.key \in Texts /\ e.key \in FieldValues /\ e.value \in MetadataValues
         /\ Before(e) \in Seq(FieldValues)
<1>1. e.key \in Texts /\ e.value \in MetadataValues
  BY DEF Entries
<1>2. e.key \in FieldValues
  BY <1>1, TextIsField
<1>3. e.value[1] \in Nat /\ (e.value[1] = 9 => e.value[2] \in Nat)
  BY <1>1, TypesAreNumbers
<1>4. PICK a, b, c, S : a = e.key /\ b = e.value[1] /\ c = e.value[2] /\ S = FieldValues
  OBVIOUS
<1>5. a \in S /\ b \in S /\ (e.value[1] = 9 => c \in S) /\ 9 \in S
  BY <1>2, <1>3, <1>4 DEF FieldValues
<1>6. CASE e.value[1] = 9
  <2>1. <<a, 9, c>> \in Seq(S)
    BY <1>5, <1>6
  <2>2. QED
    BY <1>1, <1>2, <1>4, <1>6, <2>1 DEF Before
<1>7. CASE e.value[1] # 9
  <2>1. <<a, b>> \in Seq(S)
    BY <1>5
  <2>2. QED
    BY <1>1, <1>2, <1>4, <1>7, <2>1 DEF Before
<1>8. QED
  BY <1>6, <1>7

LEMMA EntryJobsSound ==
  ASSUME NEW e, NEW tl, NEW fl, Around(e, tl, fl)
  PROVE  /\ Sound(KeyJob(e, tl, fl))
         /\ Supported(e.value) => Sound(ValueJob(e, tl, fl))
<1>1. e \in Entries /\ tl \in Seq(Plans) /\ fl \in Seq(Fields)
  BY DEF Around
<1>2. e.key \in Texts /\ e.value \in MetadataValues /\ Before(e) \in Seq(FieldValues)
  BY <1>1, BeforeTypes
<1>3. InsertStep \o tl \in Seq(Plans) /\ <<<<"value_type", 4>>>> \o (InsertStep \o tl) \in Seq(Plans)
  BY <1>1, InsertStepTypes
<1>4. ValueFields(e.value) \o fl \in Seq(Fields)
  BY <1>1, <1>2, ValueFieldsType, ConcatProperties
<1>5. Sound(KeyJob(e, tl, fl))
  BY <1>2, <1>3, <1>4, TextJobSound DEF KeyJob
<1>6. ASSUME Supported(e.value)  PROVE Sound(ValueJob(e, tl, fl))
  <2>1. PICK u, F, M : u = Value(Kind(e.value)) /\ F = HeldFields(e.value) /\ M = HeldValues(e.value)
    OBVIOUS
  <2>2. /\ M \in Seq(FieldValues) /\ u \in Seq(Plans)
        /\ \A i \in 1 .. Len(M) : Item(u, F[i], M[i])
    BY <1>2, <1>6, <2>1, HeldItems
  <2>3. Sound(Job(u, F, M, Before(e), InsertStep \o tl, fl))
    BY <1>1, <1>2, <1>3, <2>2, SoundJob
  <2>4. QED
    BY <2>1, <2>3 DEF ValueJob
<1>7. QED
  BY <1>5, <1>6

(* The first field of an entry.                                            *)
LEMMA EntryBegins ==
  ASSUME NEW e, NEW tl, NEW fl, Around(e, tl, fl)
  PROVE  InEntry(e, tl, fl, KeyValue \o tl, EntryFields(e) \o fl, <<>>)
<1> DEFINE j == KeyJob(e, tl, fl)
           next == <<<<"value_type", 4>>>> \o (InsertStep \o tl)
           later == ValueFields(e.value) \o fl
<1>1. e \in Entries /\ tl \in Seq(Plans) /\ fl \in Seq(Fields)
  BY DEF Around
<1>2. e.key \in Texts /\ e.value \in MetadataValues
  BY <1>1, BeforeTypes
<1>3. Sound(j) /\ j.unit = String /\ j.fields = <<StringFields(e.key)>> /\ Number(j) = 1
      /\ j.pre = <<>> /\ j.tail = next /\ j.rest = later
  <2>1. Sound(j)
    BY EntryJobsSound
  <2>2. Len(<<e.key>>) = 1
    OBVIOUS
  <2>3. PICK k, F, M, n, z : k = j /\ F = <<StringFields(e.key)>> /\ M = <<e.key>> /\ n = next /\ z = later
    OBVIOUS
  <2>4. k = Job(String, F, M, <<>>, n, z)
    BY <2>3 DEF KeyJob
  <2>5. /\ k.unit = String /\ k.fields = F /\ Number(k) = Len(M)
        /\ k.pre = <<>> /\ k.tail = n /\ k.rest = z
    BY <2>4, JobFields
  <2> HIDE DEF j, next, later
  <2>6. QED
    BY <2>1, <2>2, <2>3, <2>5
<1>4. Repeat(String, 1) = String
  BY RepeatOne, StringPlan
<1>5. StringFields(e.key) \in Seq(Fields)
  BY <1>2, TextIsField
<1>6. After(<<StringFields(e.key)>>, 1, 0) = StringFields(e.key)
  BY <1>5, AfterOne
<1>7. OnJob(j, String \o next, StringFields(e.key) \o later, <<>>)
  <2>1. OnJob(j, Repeat(j.unit, Number(j)) \o j.tail, After(j.fields, Number(j), 0) \o j.rest, j.pre)
    BY <1>3, AtStart
  <2> HIDE DEF j, next, later
  <2>2. QED
    BY <1>3, <1>4, <1>6, <2>1
<1>8. KeyValue \o tl = String \o next
  <2>1. PICK a, b, c : a = String /\ b = <<<<"value_type", 4>>>> /\ c = InsertStep
    OBVIOUS
  <2>2. a \in Seq(Plans) /\ b \in Seq(Plans) /\ c \in Seq(Plans)
    BY <1>1, <2>1, StringPlan, InsertStepTypes DEF Plans, StepNames
  <2>3. PICK bc : bc = b \o c
    OBVIOUS
  <2>4. KeyValue = a \o bc
    BY <2>1, <2>3, OneAndOne DEF KeyValue, InsertStep
  <2>5. bc \in Seq(Plans)
    BY <2>2, <2>3, ConcatProperties
  <2>6. (a \o bc) \o tl = a \o (bc \o tl)
    BY <1>1, <2>2, <2>5, JoinTyped
  <2>7. (b \o c) \o tl = b \o (c \o tl)
    BY <1>1, <2>2, JoinTyped
  <2>8. QED
    BY <2>1, <2>3, <2>4, <2>6, <2>7
<1>9. EntryFields(e) \o fl = StringFields(e.key) \o later
  <2>1. ValueFields(e.value) \in Seq(Fields)
    BY <1>2, ValueFieldsType
  <2>2. (StringFields(e.key) \o ValueFields(e.value)) \o fl = StringFields(e.key) \o (ValueFields(e.value) \o fl)
    BY <1>1, <1>5, <2>1, JoinTyped
  <2>3. QED
    BY <2>2 DEF EntryFields
<1> HIDE DEF j, next, later
<1>10. QED
  BY <1>7, <1>8, <1>9 DEF InEntry, j

(* Single elements in front.                                               *)
OneJoins(S, a, s, z) == a \in S /\ s \in Seq(S) /\ z \in Seq(S)
TwoJoins(S, p, q, r, z) ==
  z \in Seq(S) /\ \E a \in S, b \in S : p = <<a>> /\ q = <<b>> /\ r = <<a, b>>
ThreeJoins(S, p, q, w, v, s, z) ==
  /\ s \in Seq(S) /\ z \in Seq(S)
  /\ \E a \in S, b \in S, c \in S : p = <<a>> /\ q = <<b>> /\ w = <<c>> /\ v = <<a, b, c>>

(* What x begins with.                                                     *)
OpensWithTwo(x, p, q, z) == x = p \o (q \o z)
OpensWithThree(x, p, q, w, z) == x = p \o (q \o (w \o z))

LEMMA JoinOne ==
  ASSUME NEW S, NEW a, NEW s, NEW z, OneJoins(S, a, s, z)
  PROVE  (<<a>> \o s) \o z = <<a>> \o (s \o z) /\ s \o z \in Seq(S)
<1>1. PICK p : p = <<a>>
  OBVIOUS
<1>2. Joins(S, p, s, z)
  BY <1>1 DEF OneJoins, Joins
<1>3. (p \o s) \o z = p \o (s \o z)
  BY <1>2, Join
<1>4. QED
  BY <1>1, <1>3, ConcatProperties DEF OneJoins

LEMMA JoinTwo ==
  ASSUME NEW S, NEW p, NEW q, NEW r, NEW z, TwoJoins(S, p, q, r, z)
  PROVE  OpensWithTwo(r \o z, p, q, z) /\ q \o z \in Seq(S)
<1>1. PICK a \in S, b \in S : p = <<a>> /\ q = <<b>> /\ r = <<a, b>>
  BY DEF TwoJoins
<1>2. Joins(S, p, q, z)
  BY <1>1 DEF TwoJoins, Joins
<1>3. (p \o q) \o z = p \o (q \o z)
  BY <1>2, Join
<1>4. r = p \o q
  BY <1>1, OneAndOne
<1>5. q \in Seq(S) /\ z \in Seq(S)
  BY <1>2 DEF Joins
<1>6. QED
  BY <1>3, <1>4, <1>5, ConcatProperties DEF OpensWithTwo

LEMMA JoinThree ==
  ASSUME NEW S, NEW p, NEW q, NEW w, NEW v, NEW s, NEW z, ThreeJoins(S, p, q, w, v, s, z)
  PROVE  OpensWithThree((v \o s) \o z, p, q, w, s \o z)
<1>1. PICK a \in S, b \in S, c \in S : p = <<a>> /\ q = <<b>> /\ w = <<c>> /\ v = <<a, b, c>>
  BY DEF ThreeJoins
<1>2. PICK r, t : r = <<b, c>> /\ t = s \o z
  OBVIOUS
<1>3. s \in Seq(S) /\ z \in Seq(S) /\ t \in Seq(S)
  BY <1>2, ConcatProperties DEF ThreeJoins
<1>4. p \in Seq(S) /\ r \in Seq(S) /\ v \in Seq(S)
  BY <1>1, <1>2
<1>5. v = p \o r
  BY <1>1, <1>2, OneAndTwo
<1>6. Joins(S, v, s, z) /\ Joins(S, p, r, t)
  BY <1>3, <1>4 DEF Joins
<1>7. (v \o s) \o z = v \o t
  BY <1>2, <1>6, Join
<1>8. (p \o r) \o t = p \o (r \o t)
  BY <1>6, Join
<1>9. TwoJoins(S, q, w, r, t)
  BY <1>1, <1>2, <1>3 DEF TwoJoins
<1>10. OpensWithTwo(r \o t, q, w, t)
  BY <1>9, JoinTwo
<1>11. r \o t = q \o (w \o t)
  BY <1>10 DEF OpensWithTwo
<1>12. QED
  BY <1>2, <1>5, <1>7, <1>8, <1>11 DEF OpensWithThree

LEMMA ValueBegins ==
  ASSUME NEW e, NEW tl, NEW fl, Around(e, tl, fl), Supported(e.value)
  PROVE  OnJob(ValueJob(e, tl, fl),
               Repeat(Value(Kind(e.value)), Len(Held(e.value))) \o (InsertStep \o tl),
               After(HeldFields(e.value), Len(Held(e.value)), 0) \o fl, Before(e))
<1>1. e.value \in MetadataValues
  BY BeforeTypes DEF Around
<1>2. PICK j, u, F, M, p, n, z :
        /\ j = ValueJob(e, tl, fl) /\ u = Value(Kind(e.value)) /\ F = HeldFields(e.value)
        /\ M = HeldValues(e.value) /\ p = Before(e) /\ n = InsertStep \o tl /\ z = fl
  OBVIOUS
<1>3. j = Job(u, F, M, p, n, z)
  BY <1>2 DEF ValueJob
<1>4. /\ j.unit = u /\ j.fields = F /\ Number(j) = Len(M) /\ j.pre = p /\ j.tail = n /\ j.rest = z
  BY <1>3, JobFields
<1>5. Sound(j)
  BY <1>2, EntryJobsSound
<1>6. OnJob(j, Repeat(j.unit, Number(j)) \o j.tail, After(j.fields, Number(j), 0) \o j.rest, j.pre)
  BY <1>5, AtStart
<1>7. Number(j) = Len(Held(e.value))
  BY <1>1, <1>2, <1>4, HeldItems
<1>8. QED
  BY <1>2, <1>4, <1>6, <1>7

(* The key has been read: the type of the value comes next.                *)
LEMMA KeyDone ==
  ASSUME NEW e, NEW tl, NEW fl, Around(e, tl, fl), NEW td, NEW rest, NEW vs,
         Finished(KeyJob(e, tl, fl), td, rest, vs)
  PROVE  EntryGoesOn(e, tl, fl, td, rest, vs)
<1> DEFINE value == e.value
           f == TypeOwed(value[1], Valid)
           tl1 == InsertStep \o tl
<1>1. e \in Entries /\ tl \in Seq(Plans) /\ fl \in Seq(Fields)
  BY DEF Around
<1>2. e.key \in Texts /\ e.key \in FieldValues /\ value \in MetadataValues
  BY <1>1, BeforeTypes
<1>3. td = <<<<"value_type", 4>>>> \o tl1 /\ rest = ValueFields(value) \o fl /\ vs = <<e.key>>
  <2>1. PICK j, F, M, n, z :
          /\ j = KeyJob(e, tl, fl) /\ F = <<StringFields(e.key)>> /\ M = <<e.key>>
          /\ n = <<<<"value_type", 4>>>> \o tl1 /\ z = ValueFields(value) \o fl
    OBVIOUS
  <2>2. j = Job(String, F, M, <<>>, n, z)
    BY <2>1 DEF KeyJob
  <2>3. j.values = M /\ j.pre = <<>> /\ j.tail = n /\ j.rest = z
    BY <2>2, JobFields
  <2>4. M \in Seq(FieldValues)
    BY <1>2, <2>1
  <2>5. <<>> \o M = M
    BY <2>4, ConcatEmptySeq
  <2>6. td = n /\ rest = z /\ vs = M
    BY <2>1, <2>3, <2>5 DEF Finished
  <2>7. QED
    BY <2>1, <2>6
<1>4. value[1] \in Nat /\ f \in Fields /\ f.value = value[1] /\ f.width = 4 /\ (f.error = <<>> <=> value[1] \in Valid)
  BY <1>2, MetadataCases, TypeOwedIsField
<1>5. Owes("value_type", f)
  BY <1>4, OwesType
<1>6. tl1 \in Seq(Plans)
  BY <1>1, InsertStepTypes
<1>7. "value_type" \in EntryReads /\ "value_type" \in StepNames \ {"insert", "push"}
  BY DEF EntryReads, StepNames
<1>8. Kept("value_type", f.value, vs) = <<e.key, value[1]>>
  <2>1. Kept("value_type", f.value, vs) = Append(vs, f.value)
    BY DEF Kept
  <2>2. QED
    BY <1>3, <1>4, <2>1, AppendOne
<1>9. Onward("value_type", f.value, tl1, vs) = Value(value[1]) \o tl1
  BY <1>4 DEF Onward
<1> HIDE DEF f, tl1, value
<1>10. CASE value[1] \notin Valid
  <2>1. rest = <<f>> \o fl
    BY <1>2, <1>3, <1>10, ValueShape DEF f
  <2>2. ReadsAs(td, rest, "value_type", f, tl1, fl)
    BY <1>1, <1>3, <1>4, <1>5, <1>6, <1>7, <2>1 DEF ReadsAs
  <2>3. f.error # <<>>
    BY <1>4, <1>10
  <2>4. QED
    BY <1>7, <2>2, <2>3 DEF EntryGoesOn
<1>11. CASE value[1] \in Valid \ {9}
  <2>1. PICK A : A = After(HeldFields(value), Len(Held(value)), 0)
    OBVIOUS
  <2>2. Supported(value) /\ ValueFields(value) = <<f>> \o A
    BY <1>2, <1>11, <2>1, ValueShape DEF f
  <2>3. A \in Seq(Fields)
    <3>1. SeqsOf(Fields, HeldFields(value), Len(Held(value))) /\ 0 \in 0 .. Len(Held(value))
      BY <1>2, <2>2, HeldItems, HeldTypes
    <3>2. QED
      BY <2>1, <3>1, PartIsSeq
  <2>4. rest = <<f>> \o (A \o fl) /\ A \o fl \in Seq(Fields)
    <3>1. OneJoins(Fields, f, A, fl)
      BY <1>1, <1>4, <2>3 DEF OneJoins
    <3>2. QED
      BY <1>3, <2>2, <3>1, JoinOne
  <2>5. ReadsAs(td, rest, "value_type", f, tl1, A \o fl)
    BY <1>3, <1>4, <1>5, <1>6, <1>7, <2>4 DEF ReadsAs
  <2>6. Held(value) = <<value[2]>> /\ Kind(value) = value[1] /\ Kind(value) \in Valid \ {9}
    BY <1>2, <1>11, <2>2, HeldTypes
  <2>7. Len(Held(value)) = 1 /\ Value(value[1]) \in Seq(Plans)
    BY <1>2, <2>2, <2>6, HeldItems
  <2>8. Repeat(Value(Kind(value)), Len(Held(value))) = Value(value[1])
    BY <2>6, <2>7, RepeatOne
  <2>9. Before(e) = <<e.key, value[1]>>
    BY <1>11 DEF Before, value
  <2>10. OnJob(ValueJob(e, tl, fl), Value(value[1]) \o tl1, A \o fl, <<e.key, value[1]>>)
    <3>1. OnJob(ValueJob(e, tl, fl), Repeat(Value(Kind(value)), Len(Held(value))) \o tl1, A \o fl, Before(e))
      BY <2>1, <2>2, ValueBegins DEF value, tl1
    <3>2. QED
      BY <2>8, <2>9, <3>1
  <2>11. InEntry(e, tl, fl, Value(value[1]) \o tl1, A \o fl, <<e.key, value[1]>>)
    BY <2>2, <2>10 DEF InEntry, value
  <2>12. QED
    BY <1>7, <1>8, <1>9, <2>5, <2>11 DEF EntryGoesOn
<1>12. CASE value[1] = 9
  <2>1. PICK A, g, h : /\ A = After(HeldFields(value), Len(value[3]), 0)
                       /\ g = TypeOwed(value[2], Valid \ {9}) /\ h = Field(Len(value[3]), 8)
    OBVIOUS
  <2>2. Len(value[3]) \in Nat /\ value[2] \in Nat /\ ValueFields(value) = <<f, g, h>> \o A
    BY <1>2, <1>12, <2>1, ValueShape DEF f
  <2>3. A \in Seq(Fields) /\ g \in Fields /\ h \in Fields
    BY <1>2, <1>12, <2>1, <2>2, ArrayItems, TypeOwedIsField, FieldIsField
  <2>4. PICK fl1 : fl1 = <<g>> \o (<<h>> \o (A \o fl))
    OBVIOUS
  <2>5. rest = <<f>> \o fl1
    <3>1. PICK p, q, w, v : p = <<f>> /\ q = <<g>> /\ w = <<h>> /\ v = <<f, g, h>>
      OBVIOUS
    <3>2. ThreeJoins(Fields, p, q, w, v, A, fl)
      BY <1>1, <1>4, <2>3, <3>1 DEF ThreeJoins
    <3>3. OpensWithThree((v \o A) \o fl, p, q, w, A \o fl)
      BY <3>2, JoinThree
    <3>4. rest = (v \o A) \o fl /\ fl1 = q \o (w \o (A \o fl))
      BY <1>3, <2>2, <2>4, <3>1
    <3>5. QED
      BY <3>1, <3>3, <3>4 DEF OpensWithThree
  <2>6. fl1 \in Seq(Fields)
    <3>1. A \o fl \in Seq(Fields)
      BY <1>1, <2>3, ConcatProperties
    <3>2. <<h>> \o (A \o fl) \in Seq(Fields)
      BY <2>3, <3>1, ConsOf
    <3>3. QED
      BY <2>3, <2>4, <3>2, ConsOf
  <2>7. ReadsAs(td, rest, "value_type", f, tl1, fl1)
    BY <1>3, <1>4, <1>5, <1>6, <1>7, <2>5, <2>6 DEF ReadsAs
  <2>8. Value(9) \o tl1 = <<<<"elem_type", 4>>>> \o (<<<<"count", 8>>>> \o tl1)
    <3>1. Value(9) = <<<<"elem_type", 4>>, <<"count", 8>>>>
      BY DEF Value
    <3>2. PICK x, y : x = <<"elem_type", 4>> /\ y = <<"count", 8>>
      OBVIOUS
    <3>3. PICK p, q, r : p = <<x>> /\ q = <<y>> /\ r = <<x, y>>
      OBVIOUS
    <3>4. x \in Plans /\ y \in Plans
      BY <3>2 DEF Plans, StepNames
    <3>5. TwoJoins(Plans, p, q, r, tl1)
      BY <1>6, <3>3, <3>4 DEF TwoJoins
    <3>6. OpensWithTwo(r \o tl1, p, q, tl1)
      BY <3>5, JoinTwo
    <3>7. QED
      BY <3>1, <3>2, <3>3, <3>6 DEF OpensWithTwo
  <2>9. AtElemType(e, tl, fl, Value(9) \o tl1, fl1, <<e.key, 9>>)
    BY <1>12, <2>1, <2>4, <2>8 DEF AtElemType, value, tl1
  <2>10. InEntry(e, tl, fl, Value(value[1]) \o tl1, fl1, <<e.key, value[1]>>)
    BY <1>12, <2>9 DEF InEntry
  <2>11. QED
    BY <1>7, <1>8, <1>9, <2>7, <2>10 DEF EntryGoesOn
<1>13. QED
  BY <1>10, <1>11, <1>12

(* The type of the items of an array.                                      *)
LEMMA ElemTypeStep ==
  ASSUME NEW e, NEW tl, NEW fl, Around(e, tl, fl), NEW td, NEW rest, NEW vs,
         AtElemType(e, tl, fl, td, rest, vs)
  PROVE  EntryGoesOn(e, tl, fl, td, rest, vs)
<1>1. e \in Entries /\ tl \in Seq(Plans) /\ fl \in Seq(Fields)
  BY DEF Around
<1>2. e.key \in Texts /\ e.value \in MetadataValues /\ e.value[1] = 9
  BY <1>1, BeforeTypes DEF AtElemType
<1>3. PICK t, f, h, A, tl1, fl1 :
        /\ t = e.value[2] /\ f = TypeOwed(t, Valid \ {9}) /\ h = Field(Len(e.value[3]), 8)
        /\ A = After(HeldFields(e.value), Len(e.value[3]), 0)
        /\ tl1 = <<<<"count", 8>>>> \o (InsertStep \o tl) /\ fl1 = <<h>> \o (A \o fl)
  OBVIOUS
<1>4. td = <<<<"elem_type", 4>>>> \o tl1 /\ rest = <<f>> \o fl1 /\ vs = <<e.key, 9>>
  BY <1>3 DEF AtElemType
<1>5. Len(e.value[3]) \in Nat /\ t \in Nat
  BY <1>2, <1>3, ValueShape
<1>6. tl1 \in Seq(Plans)
  BY <1>1, <1>3, InsertStepTypes
<1>7. fl1 \in Seq(Fields)
  <2>1. A \in Seq(Fields) /\ h \in Fields
    BY <1>2, <1>3, <1>5, ArrayItems, FieldIsField
  <2>2. A \o fl \in Seq(Fields)
    BY <1>1, <2>1, ConcatProperties
  <2>3. QED
    BY <1>3, <2>1, <2>2, ConsOf
<1>8. /\ f \in Fields /\ f.value = t /\ f.width = 4 /\ (f.error = <<>> <=> t \in Valid \ {9})
      /\ Owes("elem_type", f)
  <2>1. PICK known : known = Valid \ {9}
    OBVIOUS
  <2>2. f = TypeOwed(t, known)
    BY <1>3, <2>1
  <2>3. f \in Fields /\ f.value = t /\ f.width = 4 /\ (f.error = <<>> <=> t \in known)
    BY <1>5, <2>2, TypeOwedIsField
  <2>4. Owes("elem_type", f)
    BY <1>3, <1>5, OwesType
  <2>5. QED
    BY <2>1, <2>3, <2>4
<1>9. "elem_type" \in EntryReads /\ "elem_type" \in StepNames \ {"insert", "push"}
  BY DEF EntryReads, StepNames
<1>10. ReadsAs(td, rest, "elem_type", f, tl1, fl1)
  BY <1>4, <1>6, <1>7, <1>8, <1>9 DEF ReadsAs
<1>11. ASSUME f.error = <<>>
       PROVE  InEntry(e, tl, fl, Onward("elem_type", f.value, tl1, vs), fl1, Kept("elem_type", f.value, vs))
  <2>1. Supported(e.value)
    BY <1>2, <1>3, <1>8, <1>11 DEF Supported, Kind, Valid
  <2>2. Onward("elem_type", f.value, tl1, vs) = tl1
    BY DEF Onward
  <2>3. Kept("elem_type", f.value, vs) = <<e.key, 9, t>>
    <3>1. Kept("elem_type", f.value, vs) = Append(vs, f.value)
      BY DEF Kept
    <3>2. QED
      BY <1>4, <1>8, <3>1, AppendOne
  <2>4. AtCount(e, tl, fl, tl1, fl1, <<e.key, 9, t>>)
    BY <1>2, <1>3, <2>1 DEF AtCount
  <2>5. QED
    BY <2>2, <2>3, <2>4 DEF InEntry
<1>12. QED
  BY <1>9, <1>10, <1>11 DEF EntryGoesOn

LEMMA LastOfThree == ASSUME NEW a, NEW b, NEW c PROVE Last(<<a, b, c>>) = c
<1>1. PICK s : s = <<a, b, c>>
  OBVIOUS
<1>2. Len(s) = 3 /\ s[3] = c
  BY <1>1
<1>3. QED
  BY <1>1, <1>2 DEF Last

(* The number of the items of an array, and its items.                     *)
LEMMA CountStep ==
  ASSUME NEW e, NEW tl, NEW fl, Around(e, tl, fl), NEW td, NEW rest, NEW vs,
         AtCount(e, tl, fl, td, rest, vs)
  PROVE  EntryGoesOn(e, tl, fl, td, rest, vs)
<1>1. e \in Entries /\ tl \in Seq(Plans) /\ fl \in Seq(Fields)
  BY DEF Around
<1>2. e.key \in Texts /\ e.value \in MetadataValues /\ e.value[1] = 9 /\ Supported(e.value)
  BY <1>1, BeforeTypes DEF AtCount
<1>3. PICK t, n, h, A, tl1, fl1 :
        /\ t = e.value[2] /\ n = Len(e.value[3]) /\ h = Field(n, 8)
        /\ A = After(HeldFields(e.value), n, 0)
        /\ tl1 = InsertStep \o tl /\ fl1 = A \o fl
  OBVIOUS
<1>4. td = <<<<"count", 8>>>> \o tl1 /\ rest = <<h>> \o fl1 /\ vs = <<e.key, 9, t>>
  BY <1>3 DEF AtCount
<1>5. n \in Nat
  BY <1>2, <1>3, ValueShape
<1>6. tl1 \in Seq(Plans)
  BY <1>1, <1>3, InsertStepTypes
<1>7. fl1 \in Seq(Fields)
  BY <1>1, <1>2, <1>3, ArrayItems, ConcatProperties
<1>8. h \in Fields /\ h.value = n /\ h.width = 8 /\ h.error = <<>>
  BY <1>3, <1>5, FieldIsField
<1>9. "count" \in EntryReads /\ "count" \in StepNames \ {"insert", "push"}
  BY DEF EntryReads, StepNames
<1>10. Owes("count", h)
  BY <1>8, OwesNothing
<1>11. ReadsAs(td, rest, "count", h, tl1, fl1)
  BY <1>4, <1>6, <1>7, <1>8, <1>9, <1>10 DEF ReadsAs
<1>12. Onward("count", h.value, tl1, vs) = Repeat(Value(t), n) \o tl1
  <2>1. Last(vs) = t
    BY <1>4, LastOfThree
  <2>2. QED
    BY <1>8, <2>1 DEF Onward
<1>13. Kept("count", h.value, vs) = vs
  BY DEF Kept
<1>14. OnJob(ValueJob(e, tl, fl), Repeat(Value(t), n) \o tl1, fl1, vs)
  <2>1. Held(e.value) = e.value[3] /\ Kind(e.value) = t /\ Before(e) = <<e.key, 9, t>>
    BY <1>2, <1>3 DEF Held, Kind, Before
  <2>2. OnJob(ValueJob(e, tl, fl),
              Repeat(Value(Kind(e.value)), Len(Held(e.value))) \o (InsertStep \o tl),
              After(HeldFields(e.value), Len(Held(e.value)), 0) \o fl, Before(e))
    BY <1>2, ValueBegins
  <2>3. QED
    BY <1>3, <1>4, <2>1, <2>2
<1>15. QED
  BY <1>2, <1>9, <1>11, <1>12, <1>13, <1>14 DEF EntryGoesOn, InEntry


(* The value has been read: its content follows the key.                   *)
LEMMA ValueDone ==
  ASSUME NEW e, NEW tl, NEW fl, Around(e, tl, fl), Supported(e.value), NEW td, NEW rest, NEW vs,
         Finished(ValueJob(e, tl, fl), td, rest, vs)
  PROVE  EntryRead(e, tl, fl, td, rest, vs)
<1>1. e \in Entries /\ tl \in Seq(Plans) /\ fl \in Seq(Fields)
  BY DEF Around
<1>2. e.key \in Texts /\ e.key \in FieldValues /\ e.value \in MetadataValues
  BY <1>1, BeforeTypes
<1>3. td = InsertStep \o tl /\ rest = fl /\ vs = Before(e) \o HeldValues(e.value)
  <2>1. PICK j, u, F, M, p, n, z :
          /\ j = ValueJob(e, tl, fl) /\ u = Value(Kind(e.value)) /\ F = HeldFields(e.value)
          /\ M = HeldValues(e.value) /\ p = Before(e) /\ n = InsertStep \o tl /\ z = fl
    OBVIOUS
  <2>2. j = Job(u, F, M, p, n, z)
    BY <2>1 DEF ValueJob
  <2>3. j.values = M /\ j.pre = p /\ j.tail = n /\ j.rest = z
    BY <2>2, JobFields
  <2>4. td = n /\ rest = z /\ vs = p \o M
    BY <2>1, <2>3 DEF Finished
  <2>5. QED
    BY <2>1, <2>4
<1>4. HeldValues(e.value) \in Seq(FieldValues)
  BY <1>2, HeldItems
<1>5. CASE e.value[1] = 9
  <2>1. PICK M, t : M = HeldValues(e.value) /\ t = e.value[2]
    OBVIOUS
  <2>2. Content(e.value) = <<9, t>> \o M
    BY <1>5, <2>1 DEF Content, HeldValues, Held, Kind
  <2>3. Before(e) = <<e.key, 9, t>>
    BY <1>5, <2>1 DEF Before
  <2>4. t \in FieldValues /\ 9 \in FieldValues
    <3>1. t \in Nat
      BY <1>2, <1>5, <2>1, ValueShape
    <3>2. QED
      BY <3>1 DEF FieldValues
  <2>5. PICK k, p, q : k = e.key /\ p = <<k>> /\ q = <<9, t>>
    OBVIOUS
  <2>6. Joins(FieldValues, p, q, M)
    BY <1>2, <1>4, <2>1, <2>4, <2>5 DEF Joins
  <2>7. (p \o q) \o M = p \o (q \o M)
    BY <2>6, Join
  <2>8. p \o q = <<k, 9, t>>
    BY <2>5, OneAndTwo
  <2>9. QED
    BY <1>3, <2>1, <2>2, <2>3, <2>5, <2>7, <2>8 DEF EntryRead
<1>6. CASE e.value[1] # 9
  <2>1. PICK k, t, v, m : k = e.key /\ t = e.value[1] /\ v = e.value[2] /\ m = Meaning(t, v)
    OBVIOUS
  <2>2. Content(e.value) = <<t, m>>
    BY <1>6, <2>1 DEF Content
  <2>3. Before(e) = <<k, t>>
    BY <1>6, <2>1 DEF Before
  <2>4. HeldValues(e.value) = <<m>>
    <3>1. Held(e.value) = <<v>> /\ Kind(e.value) = t
      BY <1>6, <2>1 DEF Held, Kind
    <3>2. HeldValues(e.value) = [i \in DOMAIN <<v>> |-> Meaning(t, <<v>>[i])]
      BY <3>1 DEF HeldValues
    <3>3. [i \in DOMAIN <<v>> |-> Meaning(t, <<v>>[i])] = <<Meaning(t, <<v>>[1])>>
      OBVIOUS
    <3>4. QED
      BY <2>1, <3>2, <3>3
  <2>5. <<k, t>> \o <<m>> = <<k, t, m>> /\ <<k>> \o <<t, m>> = <<k, t, m>>
    BY OneAndTwo
  <2>6. QED
    BY <1>3, <2>1, <2>2, <2>3, <2>4, <2>5 DEF EntryRead
<1>7. QED
  BY <1>5, <1>6

(* Every read of an entry meets the field the format has there.            *)
LEMMA EntryStep ==
  ASSUME NEW e, NEW tl, NEW fl, Around(e, tl, fl), NEW td, NEW rest, NEW vs,
         InEntry(e, tl, fl, td, rest, vs)
  PROVE  EntryGoesOn(e, tl, fl, td, rest, vs) \/ EntryRead(e, tl, fl, td, rest, vs)
<1>1. Sound(KeyJob(e, tl, fl)) /\ (Supported(e.value) => Sound(ValueJob(e, tl, fl)))
  BY EntryJobsSound
<1>2. JobReads \subseteq EntryReads
  BY DEF EntryReads
<1>3. CASE OnJob(KeyJob(e, tl, fl), td, rest, vs)
  <2>1. PICK j : j = KeyJob(e, tl, fl)
    OBVIOUS
  <2>2. Finished(j, td, rest, vs) \/ Advances(j, td, rest, vs)
    BY <1>1, <1>3, <2>1, JobStep
  <2>3. ASSUME Advances(j, td, rest, vs)  PROVE EntryGoesOn(e, tl, fl, td, rest, vs)
    BY <1>2, <2>1, <2>3 DEF Advances, EntryGoesOn, InEntry
  <2>4. QED
    BY <2>1, <2>2, <2>3, KeyDone
<1>4. CASE AtElemType(e, tl, fl, td, rest, vs)
  BY <1>4, ElemTypeStep
<1>5. CASE AtCount(e, tl, fl, td, rest, vs)
  BY <1>5, CountStep
<1>6. CASE Supported(e.value) /\ OnJob(ValueJob(e, tl, fl), td, rest, vs)
  <2>1. PICK j : j = ValueJob(e, tl, fl)
    OBVIOUS
  <2>2. Finished(j, td, rest, vs) \/ Advances(j, td, rest, vs)
    BY <1>1, <1>6, <2>1, JobStep
  <2>3. ASSUME Advances(j, td, rest, vs)  PROVE EntryGoesOn(e, tl, fl, td, rest, vs)
    BY <1>2, <1>6, <2>1, <2>3 DEF Advances, EntryGoesOn, InEntry
  <2>4. QED
    BY <1>6, <2>1, <2>2, <2>3, ValueDone
<1>7. QED
  BY <1>3, <1>4, <1>5, <1>6 DEF InEntry

LEMMA FlattenSingletons ==
  ASSUME NEW S, NEW s \in Seq(S), NEW F \in Seq(Seq(S)), Len(F) = Len(s),
         \A i \in 1 .. Len(s) : F[i] = <<s[i]>>
  PROVE  FlattenSeq(F) = s
<1> DEFINE g == [i \in 1 .. Len(F) |-> SubSeq(s, 1, i)]
<1>1. Len(s) \in Nat /\ Len(F) \in Nat
  BY LenProperties
<1>2. CASE Len(s) = 0
  <2>1. F = <<>> /\ s = <<>>
    BY <1>2, EmptySeq
  <2>2. QED
    BY <2>1, FlattenEmpty
<1>3. CASE Len(s) # 0
  <2>1. ASSUME NEW i \in 1 .. Len(F)  PROVE g[i] = IF i = 1 THEN F[i] ELSE g[i - 1] \o F[i]
    <3>1. /\ i \in Nat /\ i \in 1 .. Len(s) /\ 1 \in 1 .. Len(s) /\ i \in 1 .. Len(s)
          /\ F[i] = <<s[i]>> /\ g[i] = SubSeq(s, 1, i)
      BY <1>1
    <3>2. SubSeq(s, 1, i) = SubSeq(s, 1, i - 1) \o <<s[i]>>
      BY <3>1, SubSeqRecursiveSecond
    <3>3. CASE i = 1
      <4>1. SubSeq(s, 1, 0) = <<>>
        BY SubSeqEmpty
      <4>2. s[1] \in S
        BY <3>1, ElementOfSeq
      <4>3. <<s[1]>> \in Seq(S)
        BY <4>2
      <4>4. <<>> \o <<s[1]>> = <<s[1]>>
        BY <4>3, ConcatEmptySeq
      <4>5. i - 1 = 0
        BY <3>3
      <4> HIDE DEF g
      <4>6. QED
        BY <3>1, <3>2, <3>3, <4>1, <4>4, <4>5
    <3>4. CASE i # 1
      <4>1. i - 1 \in 1 .. Len(F)
        BY <1>1, <3>1, <3>4
      <4>2. g[i - 1] = SubSeq(s, 1, i - 1)
        BY <4>1
      <4> HIDE DEF g
      <4>3. QED
        BY <3>1, <3>2, <3>4, <4>2
    <3>5. QED
      BY <3>3, <3>4
  <2>2. g = [i \in 1 .. Len(F) |-> g[i]]
    OBVIOUS
  <2>3. g[Len(F)] = s
    <3>1. Len(F) \in 1 .. Len(F)
      BY <1>1, <1>3
    <3>2. g[Len(F)] = SubSeq(s, 1, Len(s))
      BY <3>1
    <3>3. QED
      BY <3>2, SubSeqFull
  <2> HIDE DEF g
  <2>4. Flattens(g, F)
    BY <2>1, <2>2 DEF Flattens
  <2>5. PICK f : Flattens(f, F) /\ FlattenSeq(F) = f[Len(F)]
    BY <1>1, <1>3, FlattenIs
  <2>6. Len(F) \in 1 .. Len(F) /\ Len(F) <= Len(F)
    BY <1>1, <1>3
  <2>7. f[Len(F)] = g[Len(F)]
    BY <1>1, <2>4, <2>5, <2>6, FlattenAgree
  <2>8. QED
    BY <2>3, <2>5, <2>7
<1>4. QED
  BY <1>2, <1>3

-----------------------------------------------------------------------------
(* A tensor of the list, before tl and fl.                                 *)
TensorInfos == [name : Texts, dims : Seq(Nat), type : Nat, offset : Nat]
PushStep == <<<<"push", 0>>>>

TypePlan(tl) == <<<<"ggml_type", 4>>>> \o (<<<<"byte_offset", 8>>>> \o (PushStep \o tl))
GgmlOwed(n) ==
  [value |-> n, width |-> 4, error |-> IF n \in 0 .. 33 \ {4, 5} THEN <<>> ELSE <<"UnknownTensorType", n>>]
TypeAndOffset(t, fl) == <<GgmlOwed(t.type)>> \o (<<Field(t.offset, 8)>> \o fl)
DimFields(t) == [k \in DOMAIN t.dims |-> Field(t.dims[k], 8)]

NameJob(t, tl, fl) ==
  Job(String, <<StringFields(t.name)>>, <<t.name>>, <<>>,
      <<<<"n_dims", 4>>>> \o TypePlan(tl), <<Field(Len(t.dims), 4)>> \o (DimFields(t) \o TypeAndOffset(t, fl)))
DimsJob(t, tl, fl) ==
  Job(<<<<"dim", 8>>>>, [k \in DOMAIN t.dims |-> <<Field(t.dims[k], 8)>>], t.dims, <<t.name, Len(t.dims)>>,
      TypePlan(tl), TypeAndOffset(t, fl))
AtOffset(t, tl, fl, td, rest, vs) ==
  /\ td = <<<<"byte_offset", 8>>>> \o (PushStep \o tl)
  /\ rest = <<Field(t.offset, 8)>> \o fl
  /\ vs = (<<t.name, Len(t.dims)>> \o t.dims) \o <<t.type>>

InTensor(t, tl, fl, td, rest, vs) ==
  \/ OnJob(NameJob(t, tl, fl), td, rest, vs)
  \/ OnJob(DimsJob(t, tl, fl), td, rest, vs)
  \/ AtOffset(t, tl, fl, td, rest, vs)

TensorReads == JobReads \union {"n_dims", "ggml_type", "byte_offset"}
TensorGoesOn(t, tl, fl, td, rest, vs) ==
  \E what \in TensorReads : \E f, tl1, fl1 :
    /\ ReadsAs(td, rest, what, f, tl1, fl1)
    /\ f.error = <<>> =>
         \/ InTensor(t, tl, fl, Onward(what, f.value, tl1, vs), fl1, Kept(what, f.value, vs))
         \/ /\ Onward(what, f.value, tl1, vs) = PushStep \o tl /\ fl1 = fl
            /\ Kept(what, f.value, vs) = <<t.name, Len(t.dims)>> \o t.dims \o <<t.type, t.offset>>

AroundTensor(t, tl, fl) == t \in TensorInfos /\ tl \in Seq(Plans) /\ fl \in Seq(Fields)

LEMMA TensorTypes ==
  ASSUME NEW t, NEW tl, NEW fl, AroundTensor(t, tl, fl)
  PROVE  /\ t.name \in Texts /\ t.name \in FieldValues /\ t.dims \in Seq(Nat) /\ t.type \in Nat /\ t.offset \in Nat
         /\ Len(t.dims) \in Nat /\ DOMAIN t.dims = 1 .. Len(t.dims)
         /\ tl \in Seq(Plans) /\ fl \in Seq(Fields)
<1>1. t.name \in Texts /\ t.dims \in Seq(Nat) /\ t.type \in Nat /\ t.offset \in Nat
  BY DEF AroundTensor, TensorInfos
<1>2. Len(t.dims) \in Nat /\ DOMAIN t.dims = 1 .. Len(t.dims)
  BY <1>1, LenProperties
<1>3. t.name \in FieldValues
  BY <1>1, TextIsField
<1>4. QED
  BY <1>1, <1>2, <1>3 DEF AroundTensor

LEMMA GgmlOwedIsField ==
  ASSUME NEW n \in Nat
  PROVE  /\ GgmlOwed(n) \in Fields /\ GgmlOwed(n).value = n /\ GgmlOwed(n).width = 4
         /\ Owes("ggml_type", GgmlOwed(n))
<1>1. (IF n \in 0 .. 33 \ {4, 5} THEN <<>> ELSE <<"UnknownTensorType", n>>) \in FieldErrors
  BY DEF FieldErrors
<1>2. n \in FieldValues /\ 4 \in Nat \ {0}
  BY DEF FieldValues
<1>3. GgmlOwed(n) \in Fields
  BY <1>1, <1>2, OwedIsField DEF GgmlOwed
<1>4. Rejects("ggml_type", n) = IF n \in 0 .. 33 \ {4, 5} THEN <<>> ELSE <<"UnknownTensorType", n>>
  BY DEF Rejects, GgmlType
<1>5. <<>> # <<"InvalidString">> /\ <<"UnknownTensorType", n>> # <<"InvalidString">>
  OBVIOUS
<1>6. Owes("ggml_type", GgmlOwed(n))
  BY <1>4, <1>5 DEF Owes, GgmlOwed
<1>7. QED
  BY <1>3, <1>6 DEF GgmlOwed

LEMMA PushStepTypes ==
  ASSUME NEW tl \in Seq(Plans)
  PROVE  /\ PushStep \o tl \in Seq(Plans) /\ TypePlan(tl) \in Seq(Plans) /\ PushStep \in Seq(Plans)
         /\ <<<<"byte_offset", 8>>>> \o (PushStep \o tl) \in Seq(Plans)
         /\ <<<<"n_dims", 4>>>> \o TypePlan(tl) \in Seq(Plans)
         /\ <<"byte_offset", 8>> \in Plans /\ <<"ggml_type", 4>> \in Plans /\ <<"n_dims", 4>> \in Plans
         /\ <<"push", 0>> \in Plans
<1>1. /\ <<"byte_offset", 8>> \in Plans /\ <<"ggml_type", 4>> \in Plans /\ <<"n_dims", 4>> \in Plans
      /\ <<"push", 0>> \in Plans
  BY DEF Plans, StepNames
<1>2. PushStep \o tl \in Seq(Plans) /\ PushStep \in Seq(Plans)
  BY <1>1, ConsOf DEF PushStep
<1>3. <<<<"byte_offset", 8>>>> \o (PushStep \o tl) \in Seq(Plans)
  BY <1>1, <1>2, ConsOf
<1>4. TypePlan(tl) \in Seq(Plans)
  BY <1>1, <1>3, ConsOf DEF TypePlan
<1>5. <<<<"n_dims", 4>>>> \o TypePlan(tl) \in Seq(Plans)
  BY <1>1, <1>4, ConsOf
<1>6. QED
  BY <1>1, <1>2, <1>3, <1>4, <1>5

LEMMA TensorFieldTypes ==
  ASSUME NEW t, NEW tl, NEW fl, AroundTensor(t, tl, fl)
  PROVE  /\ TypeAndOffset(t, fl) \in Seq(Fields) /\ DimFields(t) \in Seq(Fields)
         /\ <<Field(t.offset, 8)>> \o fl \in Seq(Fields)
         /\ DimFields(t) \o TypeAndOffset(t, fl) \in Seq(Fields)
         /\ <<Field(Len(t.dims), 4)>> \o (DimFields(t) \o TypeAndOffset(t, fl)) \in Seq(Fields)
         /\ Field(t.offset, 8) \in Fields /\ Field(Len(t.dims), 4) \in Fields
         /\ After([k \in DOMAIN t.dims |-> <<Field(t.dims[k], 8)>>], Len(t.dims), 0) = DimFields(t)
<1>1. /\ t.dims \in Seq(Nat) /\ t.type \in Nat /\ t.offset \in Nat
      /\ Len(t.dims) \in Nat /\ DOMAIN t.dims = 1 .. Len(t.dims) /\ fl \in Seq(Fields)
  BY TensorTypes
<1>2. Field(t.offset, 8) \in Fields /\ Field(Len(t.dims), 4) \in Fields /\ GgmlOwed(t.type) \in Fields
  BY <1>1, FieldIsField, GgmlOwedIsField
<1>3. <<Field(t.offset, 8)>> \o fl \in Seq(Fields)
  BY <1>1, <1>2, ConsOf
<1>4. TypeAndOffset(t, fl) \in Seq(Fields)
  BY <1>2, <1>3, ConsOf DEF TypeAndOffset
<1>5. PICK n, d, F : n = Len(t.dims) /\ d = t.dims /\ F = [k \in 1 .. n |-> <<Field(d[k], 8)>>]
  OBVIOUS
<1>6. \A k \in 1 .. n : Field(d[k], 8) \in Fields
  <2> TAKE k \in 1 .. n
  <2>1. d[k] \in Nat
    BY <1>1, <1>5, ElementOfSeq
  <2>2. QED
    BY <2>1, FieldIsField
<1>7. DimFields(t) = [k \in 1 .. n |-> Field(d[k], 8)]
  BY <1>1, <1>5 DEF DimFields
<1>8. PICK D : D = [k \in 1 .. n |-> Field(d[k], 8)]
  OBVIOUS
<1>9. D \in Seq(Fields) /\ Len(D) = n
  BY <1>1, <1>5, <1>6, <1>8
<1>10. F \in Seq(Seq(Fields)) /\ Len(F) = n
  <2>1. \A k \in 1 .. n : <<Field(d[k], 8)>> \in Seq(Fields)
    BY <1>6
  <2>2. PICK Q : Q = Seq(Fields)
    OBVIOUS
  <2>3. \A k \in 1 .. n : F[k] \in Q
    BY <1>5, <2>1, <2>2
  <2>4. F = [k \in 1 .. n |-> F[k]] /\ n \in Nat
    BY <1>1, <1>5
  <2>5. F \in Seq(Q) /\ Len(F) = n
    BY <2>3, <2>4
  <2>6. QED
    BY <2>2, <2>5
<1>11. \A k \in 1 .. Len(D) : F[k] = <<D[k]>>
  BY <1>5, <1>8, <1>9
<1>12. FlattenSeq(F) = D
  BY <1>9, <1>10, <1>11, FlattenSingletons
<1>13. F = [k \in 1 .. n |-> F[k]]
  BY <1>5
<1>14. FlattenSeq(F) = After(F, n, 0)
  BY <1>1, <1>5, <1>13, AfterNone
<1>15. [k \in DOMAIN t.dims |-> <<Field(t.dims[k], 8)>>] = F
  BY <1>1, <1>5
<1>16. DimFields(t) \o TypeAndOffset(t, fl) \in Seq(Fields) /\ DimFields(t) \in Seq(Fields)
  BY <1>4, <1>7, <1>8, <1>9, ConcatProperties
<1>17. <<Field(Len(t.dims), 4)>> \o (DimFields(t) \o TypeAndOffset(t, fl)) \in Seq(Fields)
  BY <1>2, <1>16, ConsOf
<1>18. QED
  BY <1>2, <1>3, <1>4, <1>5, <1>7, <1>8, <1>12, <1>14, <1>15, <1>16, <1>17

LEMMA OneAndThree == ASSUME NEW a, NEW b, NEW c, NEW d PROVE <<a, b>> \o <<c, d>> = <<a, b, c, d>>
<1>1. PICK S, p, q, x, z :
        S = {a, b, c, d} /\ p = <<a, b>> /\ q = <<c, d>> /\ x = p \o q /\ z = <<a, b, c, d>>
  OBVIOUS
<1>2. /\ p \in Seq(S) /\ Len(p) = 2 /\ p[1] = a /\ p[2] = b /\ q \in Seq(S) /\ Len(q) = 2 /\ q[1] = c /\ q[2] = d
      /\ z \in Seq(S) /\ Len(z) = 4 /\ z[1] = a /\ z[2] = b /\ z[3] = c /\ z[4] = d
  BY <1>1
<1>3. /\ x \in Seq(S) /\ Len(x) = Len(p) + Len(q)
      /\ \A i \in 1 .. Len(p) + Len(q) : x[i] = IF i <= Len(p) THEN p[i] ELSE q[i - Len(p)]
  BY <1>1, <1>2, ConcatProperties
<1>4. Len(x) = 4 /\ x[1] = a /\ x[2] = b /\ x[3] = c /\ x[4] = d
  BY <1>2, <1>3
<1>5. \A i \in 1 .. Len(x) : x[i] = z[i]
  <2> TAKE i \in 1 .. Len(x)
  <2>1. i = 1 \/ i = 2 \/ i = 3 \/ i = 4
    BY <1>4
  <2>2. QED
    BY <2>1, <1>2, <1>4
<1>6. QED
  BY <1>1, <1>2, <1>3, <1>4, <1>5, SeqEqual

FourJoins(S, p, q, u, w, v, z) ==
  /\ z \in Seq(S)
  /\ \E a \in S, b \in S, c \in S, d \in S :
       p = <<a>> /\ q = <<b>> /\ u = <<c>> /\ w = <<d>> /\ v = <<a, b, c, d>>
OpensWithFour(x, p, q, u, w, z) == x = p \o (q \o (u \o (w \o z)))

LEMMA JoinFourOnes ==
  ASSUME NEW S, NEW p, NEW q, NEW u, NEW w, NEW v, NEW z, FourJoins(S, p, q, u, w, v, z)
  PROVE  OpensWithFour(v \o z, p, q, u, w, z)
<1>1. PICK a \in S, b \in S, c \in S, d \in S :
        p = <<a>> /\ q = <<b>> /\ u = <<c>> /\ w = <<d>> /\ v = <<a, b, c, d>>
  BY DEF FourJoins
<1>2. PICK l, r, m : l = <<a, b>> /\ r = <<c, d>> /\ m = r \o z
  OBVIOUS
<1>3. z \in Seq(S) /\ l \in Seq(S) /\ r \in Seq(S)
  BY <1>2 DEF FourJoins
<1>4. m \in Seq(S)
  BY <1>2, <1>3, ConcatProperties
<1>5. TwoJoins(S, p, q, l, m) /\ TwoJoins(S, u, w, r, z) /\ Joins(S, l, r, z)
  BY <1>1, <1>2, <1>3, <1>4 DEF TwoJoins, Joins
<1>6. OpensWithTwo(l \o m, p, q, m) /\ OpensWithTwo(r \o z, u, w, z)
  BY <1>5, JoinTwo
<1>7. l \o m = p \o (q \o m) /\ r \o z = u \o (w \o z)
  BY <1>6 DEF OpensWithTwo
<1>8. (l \o r) \o z = l \o (r \o z)
  BY <1>5, Join
<1>9. v = l \o r
  BY <1>1, <1>2, OneAndThree
<1>10. QED
  BY <1>2, <1>7, <1>8, <1>9 DEF OpensWithFour

LEMMA NumbersAreValues == ASSUME NEW s \in Seq(Nat) PROVE s \in Seq(FieldValues)
<1>1. Nat \subseteq FieldValues
  BY DEF FieldValues
<1>2. QED
  BY <1>1

LEMMA TensorJobsSound ==
  ASSUME NEW t, NEW tl, NEW fl, AroundTensor(t, tl, fl)
  PROVE  /\ Sound(NameJob(t, tl, fl)) /\ Sound(DimsJob(t, tl, fl))
         /\ <<t.name, Len(t.dims)>> \in Seq(FieldValues)
<1>1. /\ t.name \in Texts /\ t.name \in FieldValues /\ t.dims \in Seq(Nat)
      /\ Len(t.dims) \in Nat /\ DOMAIN t.dims = 1 .. Len(t.dims) /\ tl \in Seq(Plans) /\ fl \in Seq(Fields)
  BY TensorTypes
<1>2. TypePlan(tl) \in Seq(Plans) /\ <<<<"n_dims", 4>>>> \o TypePlan(tl) \in Seq(Plans)
  BY <1>1, PushStepTypes
<1>3. /\ TypeAndOffset(t, fl) \in Seq(Fields)
      /\ <<Field(Len(t.dims), 4)>> \o (DimFields(t) \o TypeAndOffset(t, fl)) \in Seq(Fields)
  BY TensorFieldTypes
<1>4. Sound(NameJob(t, tl, fl))
  BY <1>1, <1>2, <1>3, TextJobSound DEF NameJob
<1>5. <<t.name, Len(t.dims)>> \in Seq(FieldValues)
  <2>1. PICK a, b, S : a = t.name /\ b = Len(t.dims) /\ S = FieldValues
    OBVIOUS
  <2>2. a \in S /\ b \in S
    BY <1>1, <2>1 DEF FieldValues
  <2>3. <<a, b>> \in Seq(S)
    BY <2>2
  <2>4. QED
    BY <2>1, <2>3
<1>6. Sound(DimsJob(t, tl, fl))
  <2>1. PICK u, F, M, p : /\ u = <<<<"dim", 8>>>> /\ F = [k \in DOMAIN t.dims |-> <<Field(t.dims[k], 8)>>]
                          /\ M = t.dims /\ p = <<t.name, Len(t.dims)>>
    OBVIOUS
  <2>2. u \in Seq(Plans)
    <3>1. <<"dim", 8>> \in Plans
      BY DEF Plans, StepNames
    <3>2. QED
      BY <2>1, <3>1
  <2>3. M \in Seq(FieldValues)
    BY <1>1, <2>1, NumbersAreValues
  <2>4. \A i \in 1 .. Len(M) : Item(u, F[i], M[i])
    <3> TAKE i \in 1 .. Len(M)
    <3>1. i \in DOMAIN t.dims /\ M[i] \in Nat
      BY <1>1, <2>1, ElementOfSeq
    <3>2. F[i] = <<Field(M[i], 8)>>
      BY <2>1, <3>1
    <3>3. 8 \in Nat \ {0} /\ M[i] \in Int /\ "dim" \in {"scalar", "bool", "dim"} /\ "dim" # "bool"
      BY <3>1
    <3>4. IsNumber(u, F[i], M[i])
      BY <2>1, <3>2, <3>3 DEF IsNumber
    <3>5. QED
      BY <3>4 DEF Item
  <2>5. Sound(Job(u, F, M, p, TypePlan(tl), TypeAndOffset(t, fl)))
    BY <1>2, <1>3, <1>5, <2>1, <2>2, <2>3, <2>4, SoundJob
  <2>6. QED
    BY <2>1, <2>5 DEF DimsJob
<1>7. QED
  BY <1>4, <1>5, <1>6

(* The first field of a tensor.                                            *)
LEMMA TensorBegins ==
  ASSUME NEW t, NEW tl, NEW fl, AroundTensor(t, tl, fl)
  PROVE  InTensor(t, tl, fl, Tensor \o tl, TensorFields(t) \o fl, <<>>)
<1>1. /\ t.name \in Texts /\ t.type \in Nat /\ tl \in Seq(Plans) /\ fl \in Seq(Fields)
  BY TensorTypes
<1>2. PICK j, F, M, next, later :
        /\ j = NameJob(t, tl, fl) /\ F = <<StringFields(t.name)>> /\ M = <<t.name>>
        /\ next = <<<<"n_dims", 4>>>> \o TypePlan(tl)
        /\ later = <<Field(Len(t.dims), 4)>> \o (DimFields(t) \o TypeAndOffset(t, fl))
  OBVIOUS
<1>3. /\ Sound(j) /\ j.unit = String /\ j.fields = F /\ Number(j) = 1 /\ j.pre = <<>>
      /\ j.tail = next /\ j.rest = later
  <2>1. Sound(j)
    BY <1>2, TensorJobsSound
  <2>2. j = Job(String, F, M, <<>>, next, later)
    BY <1>2 DEF NameJob
  <2>3. Len(M) = 1
    BY <1>2
  <2>4. /\ j.unit = String /\ j.fields = F /\ Number(j) = Len(M) /\ j.pre = <<>>
        /\ j.tail = next /\ j.rest = later
    <3>1. PICK u, p : u = String /\ p = <<>>
      OBVIOUS
    <3>2. j = Job(u, F, M, p, next, later)
      BY <2>2, <3>1
    <3>3. QED
      BY <3>1, <3>2, JobFields
  <2>5. QED
    BY <2>1, <2>3, <2>4
<1>4. Repeat(String, 1) = String
  BY RepeatOne, StringPlan
<1>5. StringFields(t.name) \in Seq(Fields)
  BY <1>1, TextIsField
<1>6. After(F, 1, 0) = StringFields(t.name)
  BY <1>2, <1>5, AfterOne
<1>7. OnJob(j, String \o next, StringFields(t.name) \o later, <<>>)
  <2>1. OnJob(j, Repeat(j.unit, Number(j)) \o j.tail, After(j.fields, Number(j), 0) \o j.rest, j.pre)
    BY <1>3, AtStart
  <2>2. QED
    BY <1>3, <1>4, <1>6, <2>1
<1>8. Tensor \o tl = String \o next
  <2>1. PICK a, b, c, d : a = <<"n_dims", 4>> /\ b = <<"ggml_type", 4>> /\ c = <<"byte_offset", 8>> /\ d = <<"push", 0>>
    OBVIOUS
  <2>2. a \in Plans /\ b \in Plans /\ c \in Plans /\ d \in Plans
    BY <1>1, <2>1, PushStepTypes
  <2>3. PICK s, p, q, u, w, v : s = String /\ p = <<a>> /\ q = <<b>> /\ u = <<c>> /\ w = <<d>> /\ v = <<a, b, c, d>>
    OBVIOUS
  <2>4. FourJoins(Plans, p, q, u, w, v, tl)
    BY <1>1, <2>2, <2>3 DEF FourJoins
  <2>5. v \o tl = p \o (q \o (u \o (w \o tl)))
    BY <2>4, JoinFourOnes DEF OpensWithFour
  <2>6. Joins(Plans, s, v, tl)
    BY <1>1, <2>2, <2>3, StringPlan DEF Joins
  <2>7. (s \o v) \o tl = s \o (v \o tl)
    BY <2>6, Join
  <2>8. Tensor = s \o v
    BY <2>1, <2>3 DEF Tensor
  <2>9. next = p \o (q \o (u \o (w \o tl)))
    BY <1>2, <2>1, <2>3 DEF TypePlan, PushStep
  <2>10. QED
    BY <2>3, <2>5, <2>7, <2>8, <2>9
<1>9. TensorFields(t) \o fl = StringFields(t.name) \o later
  <2>1. PICK s, A, D, B, g, h :
          /\ s = StringFields(t.name) /\ A = <<Field(Len(t.dims), 4)>> /\ D = DimFields(t)
          /\ g = GgmlOwed(t.type) /\ h = Field(t.offset, 8) /\ B = <<g, h>>
    OBVIOUS
  <2>2. g \in Fields /\ h \in Fields /\ A \in Seq(Fields) /\ D \in Seq(Fields)
    <3>1. Field(Len(t.dims), 4) \in Fields
      BY TensorFieldTypes
    <3>2. A \in Seq(Fields)
      BY <2>1, <3>1, ConsOf
    <3>3. h \in Fields /\ D \in Seq(Fields)
      BY <2>1, TensorFieldTypes
    <3>4. g \in Fields
      BY <1>1, <2>1, GgmlOwedIsField
    <3>5. QED
      BY <3>2, <3>3, <3>4
  <2>3. TensorFields(t) = ((s \o A) \o D) \o B
    BY <2>1 DEF TensorFields, GgmlOwed, DimFields
  <2>4. PICK p, q, Bf, DBf, sA : p = <<g>> /\ q = <<h>> /\ Bf = B \o fl /\ DBf = D \o Bf /\ sA = s \o A
    OBVIOUS
  <2>5. TwoJoins(Fields, p, q, B, fl)
    BY <1>1, <2>1, <2>2, <2>4 DEF TwoJoins
  <2>6. Bf = p \o (q \o fl)
    <3>1. OpensWithTwo(B \o fl, p, q, fl)
      BY <2>5, JoinTwo
    <3>2. QED
      BY <2>4, <3>1 DEF OpensWithTwo
  <2>7. later = A \o DBf
    BY <1>2, <2>1, <2>4, <2>6 DEF TypeAndOffset
  <2>8. s \in Seq(Fields) /\ B \in Seq(Fields) /\ Bf \in Seq(Fields) /\ sA \in Seq(Fields) /\ DBf \in Seq(Fields)
    <3>1. s \in Seq(Fields) /\ B \in Seq(Fields)
      BY <1>5, <2>1, <2>2
    <3>2. Bf \in Seq(Fields) /\ sA \in Seq(Fields)
      BY <1>1, <2>2, <2>4, <3>1, ConcatProperties
    <3>3. QED
      BY <2>2, <2>4, <3>1, <3>2, ConcatProperties
  <2>9. PICK sAD : sAD = sA \o D
    OBVIOUS
  <2>10. sAD \in Seq(Fields)
    BY <2>2, <2>8, <2>9, ConcatProperties
  <2>11. Joins(Fields, sAD, B, fl) /\ Joins(Fields, sA, D, Bf) /\ Joins(Fields, s, A, DBf)
    BY <1>1, <2>2, <2>8, <2>10 DEF Joins
  <2>12. (sAD \o B) \o fl = sAD \o (B \o fl)
    BY <2>11, Join
  <2>13. (sA \o D) \o Bf = sA \o (D \o Bf)
    BY <2>11, Join
  <2>14. (s \o A) \o DBf = s \o (A \o DBf)
    BY <2>11, Join
  <2>15. QED
    BY <2>1, <2>3, <2>4, <2>7, <2>9, <2>12, <2>13, <2>14
<1>10. QED
  BY <1>2, <1>7, <1>8, <1>9 DEF InTensor

LEMMA TensorReadNames ==
  /\ {"n_dims", "ggml_type", "byte_offset"} \subseteq TensorReads
  /\ {"n_dims", "ggml_type", "byte_offset"} \subseteq StepNames \ {"insert", "push"}
  /\ JobReads \subseteq TensorReads
  BY DEF TensorReads, StepNames

(* The name of a tensor has been read.                                     *)
LEMMA NameDone ==
  ASSUME NEW t, NEW tl, NEW fl, AroundTensor(t, tl, fl), NEW td, NEW rest, NEW vs,
         Finished(NameJob(t, tl, fl), td, rest, vs)
  PROVE  TensorGoesOn(t, tl, fl, td, rest, vs)
<1>1. /\ t.name \in Texts /\ t.name \in FieldValues /\ t.dims \in Seq(Nat) /\ Len(t.dims) \in Nat
      /\ DOMAIN t.dims = 1 .. Len(t.dims) /\ tl \in Seq(Plans) /\ fl \in Seq(Fields)
  BY TensorTypes
<1>2. PICK n, f, tl1, D, L, fl1 :
        /\ n = Len(t.dims) /\ f = Field(n, 4) /\ tl1 = TypePlan(tl) /\ D = DimFields(t)
        /\ L = TypeAndOffset(t, fl) /\ fl1 = D \o L
  OBVIOUS
<1>3. td = <<<<"n_dims", 4>>>> \o tl1 /\ rest = <<f>> \o fl1 /\ vs = <<t.name>>
  <2>1. PICK j, u, F, M, p, next, later :
          /\ j = NameJob(t, tl, fl) /\ F = <<StringFields(t.name)>> /\ M = <<t.name>>
          /\ u = String /\ p = <<>>
          /\ next = <<<<"n_dims", 4>>>> \o tl1 /\ later = <<f>> \o fl1
    OBVIOUS
  <2>2. j = Job(u, F, M, p, next, later)
    BY <1>2, <2>1 DEF NameJob
  <2>3. j.values = M /\ j.pre = p /\ j.tail = next /\ j.rest = later
    BY <2>2, JobFields
  <2>4. M \in Seq(FieldValues)
    BY <1>1, <2>1
  <2>5. <<>> \o M = M
    BY <2>4, ConcatEmptySeq
  <2>6. td = next /\ rest = later /\ vs = M
    BY <2>1, <2>3, <2>5 DEF Finished
  <2>7. QED
    BY <2>1, <2>6
<1>4. tl1 \in Seq(Plans)
  BY <1>1, <1>2, PushStepTypes
<1>5. fl1 \in Seq(Fields)
  BY <1>2, TensorFieldTypes
<1>6. f \in Fields /\ f.value = n /\ f.width = 4 /\ f.error = <<>> /\ n \in Nat
  BY <1>1, <1>2, FieldIsField
<1>7. Owes("n_dims", f)
  BY <1>6, OwesNothing
<1>8. ReadsAs(td, rest, "n_dims", f, tl1, fl1)
  BY <1>3, <1>4, <1>5, <1>6, <1>7, TensorReadNames DEF ReadsAs
<1>9. Onward("n_dims", f.value, tl1, vs) = Repeat(<<<<"dim", 8>>>>, n) \o tl1
  BY <1>6 DEF Onward
<1>10. Kept("n_dims", f.value, vs) = <<t.name, n>>
  <2>1. Kept("n_dims", f.value, vs) = Append(vs, f.value)
    BY DEF Kept
  <2>2. QED
    BY <1>3, <1>6, <2>1, AppendOne
<1>11. OnJob(DimsJob(t, tl, fl), Repeat(<<<<"dim", 8>>>>, n) \o tl1, fl1, <<t.name, n>>)
  <2>1. PICK j, u, F, M, p :
          /\ j = DimsJob(t, tl, fl) /\ u = <<<<"dim", 8>>>>
          /\ F = [k \in DOMAIN t.dims |-> <<Field(t.dims[k], 8)>>] /\ M = t.dims /\ p = <<t.name, n>>
    OBVIOUS
  <2>2. j = Job(u, F, M, p, tl1, L)
    BY <1>2, <2>1 DEF DimsJob
  <2>3. j.unit = u /\ j.fields = F /\ Number(j) = Len(M) /\ j.pre = p /\ j.tail = tl1 /\ j.rest = L
    BY <2>2, JobFields
  <2>4. Sound(j)
    BY <2>1, TensorJobsSound
  <2>5. OnJob(j, Repeat(j.unit, Number(j)) \o j.tail, After(j.fields, Number(j), 0) \o j.rest, j.pre)
    BY <2>4, AtStart
  <2>6. After(F, n, 0) = D
    BY <1>2, <2>1, TensorFieldTypes
  <2>7. QED
    BY <1>2, <2>1, <2>3, <2>5, <2>6
<1>12. InTensor(t, tl, fl, Repeat(<<<<"dim", 8>>>>, n) \o tl1, fl1, <<t.name, n>>)
  BY <1>11 DEF InTensor
<1>13. QED
  BY <1>8, <1>9, <1>10, <1>12, TensorReadNames DEF TensorGoesOn

(* So have its dimensions.                                                 *)
LEMMA DimsDone ==
  ASSUME NEW t, NEW tl, NEW fl, AroundTensor(t, tl, fl), NEW td, NEW rest, NEW vs,
         Finished(DimsJob(t, tl, fl), td, rest, vs)
  PROVE  TensorGoesOn(t, tl, fl, td, rest, vs)
<1>1. /\ t.dims \in Seq(Nat) /\ t.dims \in Seq(FieldValues) /\ t.type \in Nat /\ Len(t.dims) \in Nat
      /\ tl \in Seq(Plans) /\ fl \in Seq(Fields) /\ <<t.name, Len(t.dims)>> \in Seq(FieldValues)
  BY TensorTypes, NumbersAreValues, TensorJobsSound
<1>2. PICK n, f, tl1, fl1, p, M :
        /\ n = t.type /\ f = GgmlOwed(n) /\ tl1 = <<<<"byte_offset", 8>>>> \o (PushStep \o tl)
        /\ fl1 = <<Field(t.offset, 8)>> \o fl /\ p = <<t.name, Len(t.dims)>> /\ M = t.dims
  OBVIOUS
<1>3. td = <<<<"ggml_type", 4>>>> \o tl1 /\ rest = <<f>> \o fl1 /\ vs = p \o M
  <2>1. PICK j, u, F, next, later :
          /\ j = DimsJob(t, tl, fl) /\ u = <<<<"dim", 8>>>>
          /\ F = [k \in DOMAIN t.dims |-> <<Field(t.dims[k], 8)>>]
          /\ next = TypePlan(tl) /\ later = TypeAndOffset(t, fl)
    OBVIOUS
  <2>2. j = Job(u, F, M, p, next, later)
    BY <1>2, <2>1 DEF DimsJob
  <2>3. j.values = M /\ j.pre = p /\ j.tail = next /\ j.rest = later
    BY <2>2, JobFields
  <2>4. td = next /\ rest = later /\ vs = p \o M
    BY <2>1, <2>3 DEF Finished
  <2>5. QED
    BY <1>2, <2>1, <2>4 DEF TypePlan, TypeAndOffset
<1>4. tl1 \in Seq(Plans)
  BY <1>1, <1>2, PushStepTypes
<1>5. fl1 \in Seq(Fields)
  BY <1>2, TensorFieldTypes
<1>6. f \in Fields /\ f.value = n /\ f.width = 4 /\ Owes("ggml_type", f) /\ n \in FieldValues
  <2>1. n \in Nat
    BY <1>1, <1>2
  <2>2. QED
    BY <1>2, <2>1, GgmlOwedIsField DEF FieldValues
<1>7. ReadsAs(td, rest, "ggml_type", f, tl1, fl1)
  BY <1>3, <1>4, <1>5, <1>6, TensorReadNames DEF ReadsAs
<1>8. Onward("ggml_type", f.value, tl1, vs) = tl1
  BY DEF Onward
<1>9. Kept("ggml_type", f.value, vs) = (p \o M) \o <<n>>
  <2>1. Kept("ggml_type", f.value, vs) = Append(vs, n)
    BY <1>6 DEF Kept
  <2>2. p \o M \in Seq(FieldValues)
    BY <1>1, <1>2, ConcatProperties
  <2>3. Append(p \o M, n) = (p \o M) \o <<n>>
    BY <1>6, <2>2, AppendIsConcat
  <2>4. QED
    BY <1>3, <2>1, <2>3
<1>10. AtOffset(t, tl, fl, tl1, fl1, (p \o M) \o <<n>>)
  BY <1>2 DEF AtOffset
<1>11. QED
  BY <1>7, <1>8, <1>9, <1>10, TensorReadNames DEF TensorGoesOn, InTensor

(* The last field of a tensor.                                             *)
LEMMA OffsetStep ==
  ASSUME NEW t, NEW tl, NEW fl, AroundTensor(t, tl, fl), NEW td, NEW rest, NEW vs,
         AtOffset(t, tl, fl, td, rest, vs)
  PROVE  TensorGoesOn(t, tl, fl, td, rest, vs)
<1>1. /\ t.dims \in Seq(Nat) /\ t.dims \in Seq(FieldValues) /\ t.type \in Nat /\ t.offset \in Nat
      /\ tl \in Seq(Plans) /\ fl \in Seq(Fields) /\ <<t.name, Len(t.dims)>> \in Seq(FieldValues)
  BY TensorTypes, NumbersAreValues, TensorJobsSound
<1>2. PICK n, o, f, tl1, p, M, pM, q, r :
        /\ n = t.type /\ o = t.offset /\ f = Field(o, 8) /\ tl1 = PushStep \o tl
        /\ p = <<t.name, Len(t.dims)>> /\ M = t.dims /\ pM = p \o M /\ q = <<n>> /\ r = <<o>>
  OBVIOUS
<1>3. td = <<<<"byte_offset", 8>>>> \o tl1 /\ rest = <<f>> \o fl /\ vs = pM \o q
  BY <1>2 DEF AtOffset
<1>4. tl1 \in Seq(Plans)
  BY <1>1, <1>2, PushStepTypes
<1>5. f \in Fields /\ f.value = o /\ f.width = 8 /\ f.error = <<>> /\ n \in FieldValues /\ o \in FieldValues
  <2>1. n \in Nat /\ o \in Nat
    BY <1>1, <1>2
  <2>2. QED
    BY <1>2, <2>1, FieldIsField DEF FieldValues
<1>6. Owes("byte_offset", f)
  BY <1>5, OwesNothing
<1>7. ReadsAs(td, rest, "byte_offset", f, tl1, fl)
  BY <1>1, <1>3, <1>4, <1>5, <1>6, TensorReadNames DEF ReadsAs
<1>8. Onward("byte_offset", f.value, tl1, vs) = tl1
  BY DEF Onward
<1>9. Kept("byte_offset", f.value, vs) = pM \o <<n, o>>
  <2>1. Kept("byte_offset", f.value, vs) = Append(vs, o)
    BY <1>5 DEF Kept
  <2>2. pM \in Seq(FieldValues) /\ q \in Seq(FieldValues) /\ r \in Seq(FieldValues)
    BY <1>1, <1>2, <1>5, ConcatProperties
  <2>3. pM \o q \in Seq(FieldValues)
    BY <2>2, ConcatProperties
  <2>4. Append(pM \o q, o) = (pM \o q) \o r
    BY <1>2, <1>5, <2>3, AppendIsConcat
  <2>5. Joins(FieldValues, pM, q, r)
    BY <2>2 DEF Joins
  <2>6. (pM \o q) \o r = pM \o (q \o r)
    BY <2>5, Join
  <2>7. q \o r = <<n, o>>
    BY <1>2, OneAndOne
  <2>8. QED
    BY <1>3, <2>1, <2>4, <2>6, <2>7
<1>10. QED
  BY <1>2, <1>7, <1>8, <1>9, TensorReadNames DEF TensorGoesOn

(* Every read of a tensor meets the field the format has there.            *)
LEMMA TensorStep ==
  ASSUME NEW t, NEW tl, NEW fl, AroundTensor(t, tl, fl), NEW td, NEW rest, NEW vs,
         InTensor(t, tl, fl, td, rest, vs)
  PROVE  TensorGoesOn(t, tl, fl, td, rest, vs)
<1>1. Sound(NameJob(t, tl, fl)) /\ Sound(DimsJob(t, tl, fl))
  BY TensorJobsSound
<1>2. CASE OnJob(NameJob(t, tl, fl), td, rest, vs)
  <2>1. PICK j : j = NameJob(t, tl, fl)
    OBVIOUS
  <2>2. Finished(j, td, rest, vs) \/ Advances(j, td, rest, vs)
    BY <1>1, <1>2, <2>1, JobStep
  <2>3. ASSUME Advances(j, td, rest, vs)  PROVE TensorGoesOn(t, tl, fl, td, rest, vs)
    BY <2>1, <2>3, TensorReadNames DEF Advances, TensorGoesOn, InTensor
  <2>4. QED
    BY <2>1, <2>2, <2>3, NameDone
<1>3. CASE OnJob(DimsJob(t, tl, fl), td, rest, vs)
  <2>1. PICK j : j = DimsJob(t, tl, fl)
    OBVIOUS
  <2>2. Finished(j, td, rest, vs) \/ Advances(j, td, rest, vs)
    BY <1>1, <1>3, <2>1, JobStep
  <2>3. ASSUME Advances(j, td, rest, vs)  PROVE TensorGoesOn(t, tl, fl, td, rest, vs)
    BY <2>1, <2>3, TensorReadNames DEF Advances, TensorGoesOn, InTensor
  <2>4. QED
    BY <2>1, <2>2, <2>3, DimsDone
<1>4. CASE AtOffset(t, tl, fl, td, rest, vs)
  BY <1>4, OffsetStep
<1>5. QED
  BY <1>2, <1>3, <1>4 DEF InTensor

-----------------------------------------------------------------------------
(* A document: its entries and its tensors in turn.                        *)
Listed(t) == <<t.name, Len(t.dims)>> \o t.dims \o <<t.type, t.offset>>
EntryCount(d) == Len(d.metadata)
TensorCount(d) == Len(d.tensors)
EntryParts(d) == [k \in DOMAIN d.metadata |-> EntryFields(d.metadata[k])]
TensorParts(d) == [k \in DOMAIN d.tensors |-> TensorFields(d.tensors[k])]

(* What is expected, and what is written, after k of them.                 *)
TensorPlan(d, k) == Repeat(Tensor, TensorCount(d) - k)
TensorRest(d, k) == After(TensorParts(d), TensorCount(d), k)
EntryPlan(d, k) == Repeat(KeyValue, EntryCount(d) - k) \o TensorPlan(d, 0)
EntryRest(d, k) == After(EntryParts(d), EntryCount(d), k) \o TensorRest(d, 0)

(* What has been gathered from k of them.                                  *)
LatestUpto(d, k) == {i \in 1 .. k : \A n \in i + 1 .. k : d.metadata[n].key # d.metadata[i].key}
MapUpto(d, k) == {<<d.metadata[i].key, Content(d.metadata[i].value)>> : i \in LatestUpto(d, k)}
TensorsUpto(d, k) == [i \in 1 .. k |-> Listed(d.tensors[i])]
Gathered(d, version, i, k) ==
  [version |-> version, metadata |-> MapUpto(d, i), tensors |-> TensorsUpto(d, k), data_offset |-> 0]

MagicOwed(d) ==
  [value |-> d.magic, width |-> 4, error |-> IF d.magic = "GGUF" THEN <<>> ELSE <<"InvalidMagic">>]
VersionOwed(d) ==
  [value |-> d.version, width |-> 4,
   error |-> IF d.version \in {2, 3} THEN <<>> ELSE <<"UnsupportedVersion", d.version>>]
KvCountRest(d) == <<Field(EntryCount(d), 8)>> \o EntryRest(d, 0)
TensorCountRest(d) == <<Field(TensorCount(d), 8)>> \o KvCountRest(d)
VersionRest(d) == <<VersionOwed(d)>> \o TensorCountRest(d)

KvCountPlan == <<<<"kv_count", 8>>>>
TensorCountPlan == <<<<"tensor_count", 8>>>> \o KvCountPlan
VersionPlan == <<<<"version", 4>>>> \o TensorCountPlan
MagicPlan == <<<<"magic", 4>>>> \o VersionPlan

AtMagic(d, td, rest, vs, g) ==
  td = MagicPlan /\ rest = <<MagicOwed(d)>> \o VersionRest(d) /\ vs = <<>> /\ g = Gathered(d, 0, 0, 0)
AtVersion(d, td, rest, vs, g) ==
  td = VersionPlan /\ rest = VersionRest(d) /\ vs = <<>> /\ g = Gathered(d, 0, 0, 0)
AtTensorCount(d, td, rest, vs, g) ==
  td = TensorCountPlan /\ rest = TensorCountRest(d) /\ vs = <<>> /\ g = Gathered(d, d.version, 0, 0)
AtKvCount(d, td, rest, vs, g) ==
  /\ td = KvCountPlan \o TensorPlan(d, 0) /\ rest = KvCountRest(d) /\ vs = <<>>
  /\ g = Gathered(d, d.version, 0, 0)
AtEntry(d, td, rest, vs, g) ==
  \E k \in 1 .. EntryCount(d) :
    /\ InEntry(d.metadata[k], EntryPlan(d, k), EntryRest(d, k), td, rest, vs)
    /\ g = Gathered(d, d.version, k - 1, 0)
AtTensor(d, td, rest, vs, g) ==
  \E k \in 1 .. TensorCount(d) :
    /\ \/ InTensor(d.tensors[k], TensorPlan(d, k), TensorRest(d, k), td, rest, vs)
       \/ td = PushStep \o TensorPlan(d, k) /\ rest = TensorRest(d, k) /\ vs = Listed(d.tensors[k])
    /\ g = Gathered(d, d.version, EntryCount(d), k - 1)
AtFinish(d, td, rest, vs, g) ==
  td = <<>> /\ rest = <<>> /\ vs = <<>> /\ g = Gathered(d, d.version, EntryCount(d), TensorCount(d))

Control(d, td, rest, vs, g) ==
  \/ AtMagic(d, td, rest, vs, g) \/ AtVersion(d, td, rest, vs, g)
  \/ AtTensorCount(d, td, rest, vs, g) \/ AtKvCount(d, td, rest, vs, g)
  \/ AtEntry(d, td, rest, vs, g) \/ AtTensor(d, td, rest, vs, g) \/ AtFinish(d, td, rest, vs, g)

LEMMA DocumentTypes ==
  ASSUME NEW d \in Document
  PROVE  /\ d.magic \in STRING /\ d.version \in Nat /\ EntryCount(d) \in Nat /\ TensorCount(d) \in Nat
         /\ DOMAIN d.metadata = 1 .. EntryCount(d) /\ DOMAIN d.tensors = 1 .. TensorCount(d)
         /\ \A k \in 1 .. EntryCount(d) : d.metadata[k] \in Entries
         /\ \A k \in 1 .. TensorCount(d) : d.tensors[k] \in TensorInfos
<1>1. d.magic \in STRING /\ d.version \in Nat /\ d.metadata \in Seq(Entries) /\ d.tensors \in Seq(TensorInfos)
  BY DEF Document, Entries, TensorInfos
<1>2. EntryCount(d) \in Nat /\ DOMAIN d.metadata = 1 .. EntryCount(d)
  BY <1>1, LenProperties DEF EntryCount
<1>3. TensorCount(d) \in Nat /\ DOMAIN d.tensors = 1 .. TensorCount(d)
  BY <1>1, LenProperties DEF TensorCount
<1>4. \A k \in 1 .. EntryCount(d) : d.metadata[k] \in Entries
  BY <1>1, ElementOfSeq DEF EntryCount
<1>5. \A k \in 1 .. TensorCount(d) : d.tensors[k] \in TensorInfos
  BY <1>1, ElementOfSeq DEF TensorCount
<1>6. QED
  BY <1>1, <1>2, <1>3, <1>4, <1>5

LEMMA EntryFieldsType ==
  ASSUME NEW e \in Entries
  PROVE  EntryFields(e) \in Seq(Fields)
<1>1. StringFields(e.key) \in Seq(Fields) /\ ValueFields(e.value) \in Seq(Fields)
  BY BeforeTypes, TextIsField, ValueFieldsType
<1>2. QED
  BY <1>1, ConcatProperties DEF EntryFields

LEMMA TensorFieldsType ==
  ASSUME NEW t \in TensorInfos
  PROVE  TensorFields(t) \in Seq(Fields)
<1>1. <<>> \in Seq(Plans) /\ <<>> \in Seq(Fields)
  BY EmptySeq
<1>2. AroundTensor(t, <<>>, <<>>)
  BY <1>1 DEF AroundTensor
<1>3. t.name \in Texts /\ t.type \in Nat
  BY <1>2, TensorTypes
<1>4. PICK s, A, D, B, g, h :
        /\ s = StringFields(t.name) /\ A = <<Field(Len(t.dims), 4)>> /\ D = DimFields(t)
        /\ g = GgmlOwed(t.type) /\ h = Field(t.offset, 8) /\ B = <<g, h>>
  OBVIOUS
<1>5. D \in Seq(Fields) /\ h \in Fields /\ Field(Len(t.dims), 4) \in Fields
  BY <1>2, <1>4, TensorFieldTypes
<1>6. g \in Fields /\ s \in Seq(Fields)
  BY <1>3, <1>4, GgmlOwedIsField, TextIsField
<1>7. A \in Seq(Fields) /\ B \in Seq(Fields)
  BY <1>4, <1>5, <1>6
<1>8. s \o A \in Seq(Fields)
  BY <1>6, <1>7, ConcatProperties
<1>9. (s \o A) \o D \in Seq(Fields)
  BY <1>5, <1>8, ConcatProperties
<1>10. ((s \o A) \o D) \o B \in Seq(Fields)
  BY <1>7, <1>9, ConcatProperties
<1>11. TensorFields(t) = ((s \o A) \o D) \o B
  BY <1>4 DEF TensorFields, GgmlOwed, DimFields
<1>12. QED
  BY <1>10, <1>11

LEMMA PlanUnits == KeyValue \in Seq(Plans) /\ Tensor \in Seq(Plans)
<1>1. <<"length", 8>> \in Plans /\ <<"value_type", 4>> \in Plans /\ <<"insert", 0>> \in Plans
      /\ <<"n_dims", 4>> \in Plans /\ <<"ggml_type", 4>> \in Plans /\ <<"byte_offset", 8>> \in Plans
      /\ <<"push", 0>> \in Plans
  BY DEF Plans, StepNames
<1>2. <<<<"length", 8>>>> \in Seq(Plans) /\ <<<<"value_type", 4>>, <<"insert", 0>>>> \in Seq(Plans)
      /\ <<<<"n_dims", 4>>, <<"ggml_type", 4>>, <<"byte_offset", 8>>, <<"push", 0>>>> \in Seq(Plans)
  BY <1>1
<1>3. QED
  BY <1>2, ConcatProperties DEF KeyValue, Tensor, String

LEMMA PartsTypes ==
  ASSUME NEW d \in Document
  PROVE  /\ SeqsOf(Fields, EntryParts(d), EntryCount(d)) /\ SeqsOf(Fields, TensorParts(d), TensorCount(d))
         /\ \A k \in 0 .. TensorCount(d) : TensorPlan(d, k) \in Seq(Plans) /\ TensorRest(d, k) \in Seq(Fields)
         /\ \A k \in 0 .. EntryCount(d) : EntryPlan(d, k) \in Seq(Plans) /\ EntryRest(d, k) \in Seq(Fields)
<1>1. /\ EntryCount(d) \in Nat /\ TensorCount(d) \in Nat
      /\ DOMAIN d.metadata = 1 .. EntryCount(d) /\ DOMAIN d.tensors = 1 .. TensorCount(d)
      /\ \A k \in 1 .. EntryCount(d) : d.metadata[k] \in Entries
      /\ \A k \in 1 .. TensorCount(d) : d.tensors[k] \in TensorInfos
  BY DocumentTypes
<1>2. SeqsOf(Fields, EntryParts(d), EntryCount(d))
  BY <1>1, EntryFieldsType DEF SeqsOf, EntryParts
<1>3. SeqsOf(Fields, TensorParts(d), TensorCount(d))
  BY <1>1, TensorFieldsType DEF SeqsOf, TensorParts
<1>4. ASSUME NEW k \in 0 .. TensorCount(d)
      PROVE  TensorPlan(d, k) \in Seq(Plans) /\ TensorRest(d, k) \in Seq(Fields)
  <2>1. TensorCount(d) - k \in Nat
    BY <1>1
  <2>2. TensorPlan(d, k) \in Seq(Plans)
    BY <2>1, PlanUnits, RepeatTypes DEF TensorPlan
  <2>3. TensorRest(d, k) \in Seq(Fields)
    BY <1>3, PartIsSeq DEF TensorRest
  <2>4. QED
    BY <2>2, <2>3
<1>5. ASSUME NEW k \in 0 .. EntryCount(d)
      PROVE  EntryPlan(d, k) \in Seq(Plans) /\ EntryRest(d, k) \in Seq(Fields)
  <2>1. EntryCount(d) - k \in Nat /\ 0 \in 0 .. TensorCount(d)
    BY <1>1
  <2>2. Repeat(KeyValue, EntryCount(d) - k) \in Seq(Plans)
    BY <2>1, PlanUnits, RepeatTypes
  <2>3. After(EntryParts(d), EntryCount(d), k) \in Seq(Fields)
    BY <1>2, PartIsSeq
  <2>4. TensorPlan(d, 0) \in Seq(Plans) /\ TensorRest(d, 0) \in Seq(Fields)
    BY <1>4, <2>1
  <2>5. QED
    BY <2>2, <2>3, <2>4, ConcatProperties DEF EntryPlan, EntryRest
<1>6. QED
  BY <1>2, <1>3, <1>4, <1>5

LEMMA AroundEach ==
  ASSUME NEW d \in Document
  PROVE  /\ \A k \in 1 .. EntryCount(d) : Around(d.metadata[k], EntryPlan(d, k), EntryRest(d, k))
         /\ \A k \in 1 .. TensorCount(d) : AroundTensor(d.tensors[k], TensorPlan(d, k), TensorRest(d, k))
<1>1. EntryCount(d) \in Nat /\ TensorCount(d) \in Nat
  BY DocumentTypes
<1>2. ASSUME NEW k \in 1 .. EntryCount(d)  PROVE Around(d.metadata[k], EntryPlan(d, k), EntryRest(d, k))
  <2>1. k \in 0 .. EntryCount(d)
    BY <1>1
  <2>2. QED
    BY <2>1, DocumentTypes, PartsTypes DEF Around
<1>3. ASSUME NEW k \in 1 .. TensorCount(d)
      PROVE  AroundTensor(d.tensors[k], TensorPlan(d, k), TensorRest(d, k))
  <2>1. k \in 0 .. TensorCount(d)
    BY <1>1
  <2>2. QED
    BY <2>1, DocumentTypes, PartsTypes DEF AroundTensor
<1>4. QED
  BY <1>2, <1>3

(* After k tensors either the next one begins or the parse is at its end.  *)
LEMMA TensorsFrom ==
  ASSUME NEW d \in Document, NEW k \in 0 .. TensorCount(d)
  PROVE  Control(d, TensorPlan(d, k), TensorRest(d, k), <<>>, Gathered(d, d.version, EntryCount(d), k))
<1>1. TensorCount(d) \in Nat /\ DOMAIN d.tensors = 1 .. TensorCount(d) /\ k \in Nat
  BY DocumentTypes
<1>2. CASE k = TensorCount(d)
  <2>1. TensorCount(d) - k = 0
    BY <1>1, <1>2
  <2>2. TensorPlan(d, k) = <<>>
    BY <2>1, RepeatNone DEF TensorPlan
  <2>3. TensorRest(d, k) = <<>>
    BY <1>1, <1>2, AfterEnd DEF TensorRest
  <2>4. QED
    BY <1>2, <2>2, <2>3 DEF Control, AtFinish
<1>3. CASE k # TensorCount(d)
  <2>1. PICK m : m = k + 1
    OBVIOUS
  <2>2. /\ m \in 1 .. TensorCount(d) /\ k \in 0 .. TensorCount(d) - 1 /\ m - 1 = k
        /\ TensorCount(d) - k \in Nat \ {0} /\ TensorCount(d) - k - 1 = TensorCount(d) - m
    BY <1>1, <1>3, <2>1
  <2>3. TensorPlan(d, k) = Tensor \o TensorPlan(d, m)
    <3>1. Repeat(Tensor, TensorCount(d) - k) = Tensor \o Repeat(Tensor, TensorCount(d) - k - 1)
      BY <2>2, PlanUnits, RepeatStep
    <3>2. QED
      BY <2>2, <3>1 DEF TensorPlan
  <2>4. TensorRest(d, k) = TensorFields(d.tensors[m]) \o TensorRest(d, m)
    <3>1. PICK F, n : F = TensorParts(d) /\ n = TensorCount(d)
      OBVIOUS
    <3>2. SeqsOf(Fields, F, n) /\ k \in 0 .. n - 1
      BY <2>2, <3>1, PartsTypes
    <3>3. After(F, n, k) = F[k + 1] \o After(F, n, k + 1)
      BY <3>2, AfterStep
    <3>4. F[m] = TensorFields(d.tensors[m])
      BY <1>1, <2>2, <3>1 DEF TensorParts
    <3>5. QED
      BY <2>1, <3>1, <3>3, <3>4 DEF TensorRest
  <2>5. PICK t, tl, fl : t = d.tensors[m] /\ tl = TensorPlan(d, m) /\ fl = TensorRest(d, m)
    OBVIOUS
  <2>6. AroundTensor(t, tl, fl)
    BY <2>2, <2>5, AroundEach
  <2>7. InTensor(t, tl, fl, Tensor \o tl, TensorFields(t) \o fl, <<>>)
    BY <2>6, TensorBegins
  <2>8. InTensor(d.tensors[m], TensorPlan(d, m), TensorRest(d, m), TensorPlan(d, k), TensorRest(d, k), <<>>)
    BY <2>3, <2>4, <2>5, <2>7
  <2>9. QED
    BY <2>2, <2>8 DEF Control, AtTensor
<1>4. QED
  BY <1>2, <1>3

(* After k entries either the next one or the tensors begin.               *)
LEMMA EntriesFrom ==
  ASSUME NEW d \in Document, NEW k \in 0 .. EntryCount(d)
  PROVE  Control(d, EntryPlan(d, k), EntryRest(d, k), <<>>, Gathered(d, d.version, k, 0))
<1>1. /\ EntryCount(d) \in Nat /\ DOMAIN d.metadata = 1 .. EntryCount(d) /\ k \in Nat
      /\ TensorCount(d) \in Nat /\ 0 \in 0 .. TensorCount(d)
  BY DocumentTypes
<1>2. PICK TP, TR : TP = TensorPlan(d, 0) /\ TR = TensorRest(d, 0)
  OBVIOUS
<1>3. TP \in Seq(Plans) /\ TR \in Seq(Fields)
  BY <1>1, <1>2, PartsTypes
<1>4. CASE k = EntryCount(d)
  <2>1. EntryCount(d) - k = 0
    BY <1>1, <1>4
  <2>2. <<>> \o TP = TP /\ <<>> \o TR = TR
    BY <1>3, ConcatEmptySeq
  <2>3. EntryPlan(d, k) = TP
    BY <1>2, <2>1, <2>2, RepeatNone DEF EntryPlan
  <2>4. EntryRest(d, k) = TR
    BY <1>1, <1>2, <1>4, <2>2, AfterEnd DEF EntryRest
  <2>5. Control(d, TP, TR, <<>>, Gathered(d, d.version, EntryCount(d), 0))
    BY <1>1, <1>2, TensorsFrom
  <2>6. QED
    BY <1>4, <2>3, <2>4, <2>5
<1>5. CASE k # EntryCount(d)
  <2>1. PICK m : m = k + 1
    OBVIOUS
  <2>2. /\ m \in 1 .. EntryCount(d) /\ k \in 0 .. EntryCount(d) - 1 /\ m - 1 = k /\ m \in 0 .. EntryCount(d)
        /\ EntryCount(d) - k \in Nat \ {0} /\ EntryCount(d) - k - 1 = EntryCount(d) - m
        /\ EntryCount(d) - m \in Nat
    BY <1>1, <1>5, <2>1
  <2>3. EntryPlan(d, k) = KeyValue \o EntryPlan(d, m)
    <3>1. PICK u, r : u = KeyValue /\ r = Repeat(KeyValue, EntryCount(d) - m)
      OBVIOUS
    <3>2. Repeat(KeyValue, EntryCount(d) - k) = KeyValue \o Repeat(KeyValue, EntryCount(d) - k - 1)
      BY <2>2, PlanUnits, RepeatStep
    <3>3. Joins(Plans, u, r, TP)
      BY <1>3, <2>2, <3>1, PlanUnits, RepeatTypes DEF Joins
    <3>4. (u \o r) \o TP = u \o (r \o TP)
      BY <3>3, Join
    <3>5. QED
      BY <1>2, <2>2, <3>1, <3>2, <3>4 DEF EntryPlan
  <2>4. EntryRest(d, k) = EntryFields(d.metadata[m]) \o EntryRest(d, m)
    <3>1. PICK F, n, a, b : F = EntryParts(d) /\ n = EntryCount(d) /\ a = F[m] /\ b = After(F, n, m)
      OBVIOUS
    <3>2. SeqsOf(Fields, F, n) /\ k \in 0 .. n - 1
      BY <2>2, <3>1, PartsTypes
    <3>3. After(F, n, k) = F[k + 1] \o After(F, n, k + 1)
      BY <3>2, AfterStep
    <3>4. a = EntryFields(d.metadata[m])
      BY <1>1, <2>2, <3>1 DEF EntryParts
    <3>5. a \in Seq(Fields) /\ b \in Seq(Fields)
      BY <2>2, <3>1, <3>2, PartIsSeq DEF SeqsOf
    <3>6. Joins(Fields, a, b, TR)
      BY <1>3, <3>5 DEF Joins
    <3>7. (a \o b) \o TR = a \o (b \o TR)
      BY <3>6, Join
    <3>8. QED
      BY <1>2, <2>1, <3>1, <3>3, <3>4, <3>7 DEF EntryRest
  <2>5. PICK e, tl, fl : e = d.metadata[m] /\ tl = EntryPlan(d, m) /\ fl = EntryRest(d, m)
    OBVIOUS
  <2>6. Around(e, tl, fl)
    BY <2>2, <2>5, AroundEach
  <2>7. InEntry(e, tl, fl, KeyValue \o tl, EntryFields(e) \o fl, <<>>)
    BY <2>6, EntryBegins
  <2>8. InEntry(d.metadata[m], EntryPlan(d, m), EntryRest(d, m), EntryPlan(d, k), EntryRest(d, k), <<>>)
    BY <2>3, <2>4, <2>5, <2>7
  <2>9. QED
    BY <2>2, <2>8 DEF Control, AtEntry
<1>6. QED
  BY <1>4, <1>5

-----------------------------------------------------------------------------
(* What is gathered.                                                       *)
LEMMA ContentType ==
  ASSUME NEW value \in MetadataValues
  PROVE  Content(value) \in Seq(FieldValues)
<1>1. Int \subseteq FieldValues /\ Texts \subseteq FieldValues
  BY DEF FieldValues
<1>2. PICK S : S = FieldValues
  OBVIOUS
<1>3. CASE value[1] = 9
  <2>1. PICK t, s, n : t = value[2] /\ s = value[3] /\ n = Len(s)
    OBVIOUS
  <2>2. t \in Nat /\ (s \in Seq(Int) \/ s \in Seq(Texts))
    <3>1. <<>> \in Seq(Int)
      BY EmptySeq
    <3>2. \/ value[1] \in Nat \ {8, 9}
          \/ value[1] = 8
          \/ t \in Nat /\ s = <<>>
          \/ t \in Valid \ {8, 9} /\ s \in Seq(Int)
          \/ t = 8 /\ s \in Seq(Texts)
      BY <2>1, MetadataCases
    <3>3. Valid \subseteq Nat
      BY DEF Valid
    <3>4. PICK SI, ST : SI = Seq(Int) /\ ST = Seq(Texts)
      OBVIOUS
    <3>5. /\ value[1] \notin Nat \ {8, 9} /\ value[1] # 8
          /\ 8 \in Nat /\ Valid \ {8, 9} \subseteq Nat
      BY <1>3, <3>3
    <3>6. t \in Nat
      BY <3>2, <3>5, Zenon
    <3>7. s \in SI \/ s \in ST
      BY <3>1, <3>2, <3>4, <3>5, Zenon
    <3>8. QED
      BY <3>4, <3>6, <3>7
  <2>3. n \in Nat /\ DOMAIN s = 1 .. n
    BY <2>1, <2>2, LenProperties
  <2>4. \A k \in 1 .. n : Meaning(t, s[k]) \in S
    <3> TAKE k \in 1 .. n
    <3>1. s[k] \in S
      BY <1>1, <1>2, <2>1, <2>2, <2>3, ElementOfSeq
    <3>2. 1 \in S
      BY <1>1, <1>2
    <3>3. QED
      BY <3>1, <3>2 DEF Meaning
  <2>5. [k \in 1 .. n |-> Meaning(t, s[k])] \in Seq(S)
    BY <2>3, <2>4
  <2>6. 9 \in S /\ t \in S
    BY <1>1, <1>2, <2>2
  <2>7. <<9, t>> \in Seq(S)
    BY <2>6
  <2>8. <<9, t>> \o [k \in 1 .. n |-> Meaning(t, s[k])] \in Seq(S)
    BY <2>5, <2>7, ConcatProperties
  <2>9. Content(value) = <<9, t>> \o [k \in 1 .. n |-> Meaning(t, s[k])]
    BY <1>3, <2>1, <2>3 DEF Content
  <2>10. QED
    BY <1>2, <2>8, <2>9
<1>4. CASE value[1] # 9
  <2>1. PICK t, v, m : t = value[1] /\ v = value[2] /\ m = Meaning(t, v)
    OBVIOUS
  <2>2. t \in S /\ v \in S /\ 1 \in S
    BY <1>1, <1>2, <1>4, <2>1, MetadataCases
  <2>3. m \in S
    BY <2>1, <2>2 DEF Meaning
  <2>4. <<t, m>> \in Seq(S)
    BY <2>2, <2>3
  <2>5. Content(value) = <<t, m>>
    BY <1>4, <2>1 DEF Content
  <2>6. QED
    BY <1>2, <2>4, <2>5
<1>5. QED
  BY <1>3, <1>4

LEMMA LatestStep ==
  ASSUME NEW d, NEW k \in Nat \ {0}
  PROVE  LatestUpto(d, k) =
           {i \in LatestUpto(d, k - 1) : d.metadata[i].key # d.metadata[k].key} \union {k}
<1>1. ASSUME NEW i \in LatestUpto(d, k)
      PROVE  i = k \/ (i \in LatestUpto(d, k - 1) /\ d.metadata[i].key # d.metadata[k].key)
  <2>1. i \in 1 .. k /\ \A n \in i + 1 .. k : d.metadata[n].key # d.metadata[i].key
    BY DEF LatestUpto
  <2>2. CASE i # k
    <3>1. i \in 1 .. k - 1 /\ k \in i + 1 .. k
      BY <2>1, <2>2
    <3>2. d.metadata[k].key # d.metadata[i].key
      BY <2>1, <3>1
    <3>3. \A n \in i + 1 .. k - 1 : d.metadata[n].key # d.metadata[i].key
      BY <2>1
    <3>4. QED
      BY <3>1, <3>2, <3>3 DEF LatestUpto
  <2>3. QED
    BY <2>2
<1>2. k \in LatestUpto(d, k)
  BY DEF LatestUpto
<1>3. ASSUME NEW i \in LatestUpto(d, k - 1), d.metadata[i].key # d.metadata[k].key
      PROVE  i \in LatestUpto(d, k)
  <2>1. i \in 1 .. k - 1 /\ \A n \in i + 1 .. k - 1 : d.metadata[n].key # d.metadata[i].key
    BY DEF LatestUpto
  <2>2. ASSUME NEW n \in i + 1 .. k  PROVE d.metadata[n].key # d.metadata[i].key
    <3>1. n = k \/ n \in i + 1 .. k - 1
      BY <2>1
    <3>2. QED
      BY <1>3, <2>1, <3>1
  <2>3. QED
    BY <2>1, <2>2 DEF LatestUpto
<1>4. QED
  BY <1>1, <1>2, <1>3

(* Insert.                                                                 *)
LEMMA PutStep ==
  ASSUME NEW d, NEW k \in Nat \ {0}
  PROVE  Put(MapUpto(d, k - 1), d.metadata[k].key, Content(d.metadata[k].value)) = MapUpto(d, k)
<1> DEFINE K(i) == d.metadata[i].key
           C(i) == Content(d.metadata[i].value)
           L == LatestUpto(d, k - 1)
           M == LatestUpto(d, k)
<1>1. M = {i \in L : K(i) # K(k)} \union {k}
  BY LatestStep
<1>2. MapUpto(d, k - 1) = {<<K(i), C(i)>> : i \in L} /\ MapUpto(d, k) = {<<K(i), C(i)>> : i \in M}
  BY DEF MapUpto
<1>3. Put(MapUpto(d, k - 1), K(k), C(k)) = {e \in MapUpto(d, k - 1) : e[1] # K(k)} \union {<<K(k), C(k)>>}
  BY DEF Put
<1> HIDE DEF K, C, L, M
<1>4. {e \in MapUpto(d, k - 1) : e[1] # K(k)} = {<<K(i), C(i)>> : i \in {j \in L : K(j) # K(k)}}
  BY <1>2
<1>5. {<<K(i), C(i)>> : i \in M} =
        {<<K(i), C(i)>> : i \in {j \in L : K(j) # K(k)}} \union {<<K(k), C(k)>>}
  BY <1>1
<1>6. Put(MapUpto(d, k - 1), K(k), C(k)) = MapUpto(d, k)
  BY <1>2, <1>3, <1>4, <1>5
<1>7. QED
  BY <1>6 DEF K, C

Inserted(g, vs) == [g EXCEPT !.metadata = Put(g.metadata, Head(vs), Tail(vs))]
Pushed(g, vs) == [g EXCEPT !.tensors = Append(g.tensors, vs)]

LEMMA GatherEntry ==
  ASSUME NEW d \in Document, NEW k \in 1 .. EntryCount(d), NEW g, g = Gathered(d, d.version, k - 1, 0),
         NEW vs, vs = <<d.metadata[k].key>> \o Content(d.metadata[k].value)
  PROVE  Inserted(g, vs) = Gathered(d, d.version, k, 0)
<1>1. d.metadata[k] \in Entries
  BY DocumentTypes
<1>2. d.metadata[k].key \in FieldValues /\ d.metadata[k].value \in MetadataValues
  BY <1>1, BeforeTypes
<1>3. PICK x, c : x = d.metadata[k].key /\ c = Content(d.metadata[k].value)
  OBVIOUS
<1>4. x \in FieldValues /\ c \in Seq(FieldValues)
  BY <1>2, <1>3, ContentType
<1>5. Head(vs) = x /\ Tail(vs) = c
  BY <1>3, <1>4, ConsOf
<1>6. k \in Nat \ {0}
  BY DocumentTypes
<1>7. Put(MapUpto(d, k - 1), x, c) = MapUpto(d, k)
  BY <1>3, <1>6, PutStep
<1>8. g.metadata = MapUpto(d, k - 1)
  BY DEF Gathered
<1>9. PICK p, q, r, z : p = MapUpto(d, k - 1) /\ q = MapUpto(d, k) /\ r = TensorsUpto(d, 0) /\ z = d.version
  OBVIOUS
<1>10. Put(g.metadata, Head(vs), Tail(vs)) = q
  BY <1>5, <1>7, <1>8, <1>9
<1>11. g = [version |-> z, metadata |-> p, tensors |-> r, data_offset |-> 0]
  BY <1>9 DEF Gathered
<1>12. [g EXCEPT !.metadata = q] = [version |-> z, metadata |-> q, tensors |-> r, data_offset |-> 0]
  BY <1>11
<1>13. Gathered(d, d.version, k, 0) = [version |-> z, metadata |-> q, tensors |-> r, data_offset |-> 0]
  BY <1>9 DEF Gathered
<1>14. QED
  BY <1>10, <1>12, <1>13 DEF Inserted

(* Push.                                                                   *)
LEMMA GatherTensor ==
  ASSUME NEW d \in Document, NEW k \in 1 .. TensorCount(d), NEW g,
         g = Gathered(d, d.version, EntryCount(d), k - 1), NEW vs, vs = Listed(d.tensors[k])
  PROVE  Pushed(g, vs) = Gathered(d, d.version, EntryCount(d), k)
<1> DEFINE TS(i) == Listed(d.tensors[i])
<1>1. k - 1 \in Nat /\ k \in Nat
  BY DocumentTypes
<1>2. PICK s, u, S : s = TensorsUpto(d, k - 1) /\ u = TensorsUpto(d, k) /\ S = {TS(i) : i \in 1 .. k}
  OBVIOUS
<1>3. s = [i \in 1 .. k - 1 |-> TS(i)] /\ u = [i \in 1 .. k |-> TS(i)] /\ vs = TS(k)
  BY <1>2 DEF TensorsUpto
<1> HIDE DEF TS
<1>4. /\ s \in Seq(S) /\ Len(s) = k - 1 /\ u \in Seq(S) /\ Len(u) = k /\ vs \in S
      /\ \A i \in 1 .. k - 1 : s[i] = TS(i)
      /\ \A i \in 1 .. k : u[i] = TS(i)
  BY <1>1, <1>2, <1>3
<1>5. PICK a : a = Append(s, vs)
  OBVIOUS
<1>6. /\ a \in Seq(S) /\ Len(a) = Len(s) + 1 /\ a[Len(s) + 1] = vs
      /\ \A i \in 1 .. Len(s) : a[i] = s[i]
  BY <1>4, <1>5, AppendProperties
<1>7. \A i \in 1 .. Len(a) : a[i] = u[i]
  <2> TAKE i \in 1 .. Len(a)
  <2>1. i = k \/ i \in 1 .. k - 1
    BY <1>1, <1>4, <1>6
  <2>2. QED
    BY <1>1, <1>3, <1>4, <1>6, <2>1
<1>8. a = u
  BY <1>1, <1>4, <1>6, <1>7, SeqEqual
<1>9. g.tensors = s
  BY <1>2 DEF Gathered
<1>10. PICK q, z : q = MapUpto(d, EntryCount(d)) /\ z = d.version
  OBVIOUS
<1>11. Append(g.tensors, vs) = u
  BY <1>5, <1>8, <1>9
<1>12. g = [version |-> z, metadata |-> q, tensors |-> s, data_offset |-> 0]
  BY <1>2, <1>10 DEF Gathered
<1>13. [g EXCEPT !.tensors = u] = [version |-> z, metadata |-> q, tensors |-> u, data_offset |-> 0]
  BY <1>12
<1>14. Gathered(d, d.version, EntryCount(d), k) = [version |-> z, metadata |-> q, tensors |-> u, data_offset |-> 0]
  BY <1>2, <1>10 DEF Gathered
<1>15. QED
  BY <1>11, <1>13, <1>14 DEF Pushed

-----------------------------------------------------------------------------
(* The steps of the parse of a document.                                   *)
Versioned(what, v, g) == IF what = "version" THEN [g EXCEPT !.version = v] ELSE g
Reads(d, td, rest, vs, g) ==
  \E what \in StepNames \ {"insert", "push"} : \E f, tl, fl :
    /\ ReadsAs(td, rest, what, f, tl, fl)
    /\ f.error = <<>> =>
         Control(d, Onward(what, f.value, tl, vs), fl, Kept(what, f.value, vs), Versioned(what, f.value, g))
Inserts(d, td, rest, vs, g) ==
  \E tl \in Seq(Plans) :
    /\ td = InsertStep \o tl
    /\ Control(d, tl, rest, <<>>, Inserted(g, vs))
Pushes(d, td, rest, vs, g) ==
  \E tl \in Seq(Plans) :
    /\ td = PushStep \o tl
    /\ Control(d, tl, rest, <<>>, Pushed(g, vs))
Moves(d, td, rest, vs, g) ==
  Reads(d, td, rest, vs, g) \/ Inserts(d, td, rest, vs, g) \/ Pushes(d, td, rest, vs, g)

LEMMA HeadTypes ==
  ASSUME NEW d \in Document
  PROVE  /\ KvCountRest(d) \in Seq(Fields) /\ TensorCountRest(d) \in Seq(Fields) /\ VersionRest(d) \in Seq(Fields)
         /\ MagicOwed(d) \in Fields /\ VersionOwed(d) \in Fields
         /\ Field(EntryCount(d), 8) \in Fields /\ Field(TensorCount(d), 8) \in Fields
         /\ EntryRest(d, 0) \in Seq(Fields) /\ TensorPlan(d, 0) \in Seq(Plans)
         /\ KvCountPlan \in Seq(Plans) /\ TensorCountPlan \in Seq(Plans) /\ VersionPlan \in Seq(Plans)
         /\ MagicPlan \in Seq(Plans)
<1>1. d.magic \in STRING /\ d.version \in Nat /\ EntryCount(d) \in Nat /\ TensorCount(d) \in Nat
  BY DocumentTypes
<1>2. 0 \in 0 .. EntryCount(d) /\ 0 \in 0 .. TensorCount(d)
  BY <1>1
<1>3. EntryRest(d, 0) \in Seq(Fields) /\ TensorPlan(d, 0) \in Seq(Plans)
  BY <1>2, PartsTypes
<1>4. Field(EntryCount(d), 8) \in Fields /\ Field(TensorCount(d), 8) \in Fields
  BY <1>1, FieldIsField
<1>5. MagicOwed(d) \in Fields
  <2>1. d.magic \in FieldValues /\ 4 \in Nat \ {0}
    BY <1>1 DEF FieldValues
  <2>2. (IF d.magic = "GGUF" THEN <<>> ELSE <<"InvalidMagic">>) \in FieldErrors
    BY DEF FieldErrors
  <2>3. QED
    BY <2>1, <2>2, OwedIsField DEF MagicOwed
<1>6. VersionOwed(d) \in Fields
  <2>1. d.version \in FieldValues /\ 4 \in Nat \ {0}
    BY <1>1 DEF FieldValues
  <2>2. (IF d.version \in {2, 3} THEN <<>> ELSE <<"UnsupportedVersion", d.version>>) \in FieldErrors
    BY <1>1 DEF FieldErrors
  <2>3. QED
    BY <2>1, <2>2, OwedIsField DEF VersionOwed
<1>7. KvCountRest(d) \in Seq(Fields)
  BY <1>3, <1>4, ConsOf DEF KvCountRest
<1>8. TensorCountRest(d) \in Seq(Fields)
  BY <1>4, <1>7, ConsOf DEF TensorCountRest
<1>9. VersionRest(d) \in Seq(Fields)
  BY <1>6, <1>8, ConsOf DEF VersionRest
<1>10. /\ <<"kv_count", 8>> \in Plans /\ <<"tensor_count", 8>> \in Plans /\ <<"version", 4>> \in Plans
       /\ <<"magic", 4>> \in Plans
  BY DEF Plans, StepNames
<1>11. KvCountPlan \in Seq(Plans)
  BY <1>10 DEF KvCountPlan
<1>12. TensorCountPlan \in Seq(Plans)
  BY <1>10, <1>11, ConsOf DEF TensorCountPlan
<1>13. VersionPlan \in Seq(Plans)
  BY <1>10, <1>12, ConsOf DEF VersionPlan
<1>14. MagicPlan \in Seq(Plans)
  BY <1>10, <1>13, ConsOf DEF MagicPlan
<1>15. QED
  BY <1>3, <1>4, <1>5, <1>6, <1>7, <1>8, <1>9, <1>11, <1>12, <1>13, <1>14

LEMMA MagicStep ==
  ASSUME NEW d \in Document, NEW td, NEW rest, NEW vs, NEW g, AtMagic(d, td, rest, vs, g)
  PROVE  Reads(d, td, rest, vs, g)
<1>1. PICK f, tl, fl : f = MagicOwed(d) /\ tl = VersionPlan /\ fl = VersionRest(d)
  OBVIOUS
<1>2. td = <<<<"magic", 4>>>> \o tl /\ rest = <<f>> \o fl /\ vs = <<>> /\ g = Gathered(d, 0, 0, 0)
  BY <1>1 DEF AtMagic, MagicPlan
<1>3. tl \in Seq(Plans) /\ fl \in Seq(Fields) /\ f \in Fields
  BY <1>1, HeadTypes
<1>4. f.value = d.magic /\ f.width = 4 /\ f.error = IF d.magic = "GGUF" THEN <<>> ELSE <<"InvalidMagic">>
  BY <1>1 DEF MagicOwed
<1>5. Owes("magic", f)
  <2>1. Rejects("magic", d.magic) = IF d.magic = "GGUF" THEN <<>> ELSE <<"InvalidMagic">>
    BY DEF Rejects
  <2>2. <<>> # <<"InvalidString">> /\ <<"InvalidMagic">> # <<"InvalidString">>
    OBVIOUS
  <2>3. QED
    BY <1>4, <2>1, <2>2 DEF Owes
<1>6. "magic" \in StepNames \ {"insert", "push"}
  BY DEF StepNames
<1>7. ReadsAs(td, rest, "magic", f, tl, fl)
  BY <1>2, <1>3, <1>4, <1>5, <1>6 DEF ReadsAs
<1>8. Onward("magic", f.value, tl, vs) = tl /\ Kept("magic", f.value, vs) = vs /\ Versioned("magic", f.value, g) = g
  BY DEF Onward, Kept, Versioned
<1>9. AtVersion(d, tl, fl, vs, g)
  BY <1>1, <1>2 DEF AtVersion
<1>10. QED
  BY <1>6, <1>7, <1>8, <1>9 DEF Reads, Control

LEMMA VersionStep ==
  ASSUME NEW d \in Document, NEW td, NEW rest, NEW vs, NEW g, AtVersion(d, td, rest, vs, g)
  PROVE  Reads(d, td, rest, vs, g)
<1>1. PICK f, tl, fl : f = VersionOwed(d) /\ tl = TensorCountPlan /\ fl = TensorCountRest(d)
  OBVIOUS
<1>2. td = <<<<"version", 4>>>> \o tl /\ rest = <<f>> \o fl /\ vs = <<>> /\ g = Gathered(d, 0, 0, 0)
  BY <1>1 DEF AtVersion, VersionPlan, VersionRest
<1>3. tl \in Seq(Plans) /\ fl \in Seq(Fields) /\ f \in Fields /\ d.version \in Nat
  BY <1>1, HeadTypes, DocumentTypes
<1>4. f.value = d.version /\ f.width = 4
      /\ f.error = IF d.version \in {2, 3} THEN <<>> ELSE <<"UnsupportedVersion", d.version>>
  BY <1>1 DEF VersionOwed
<1>5. Owes("version", f)
  <2>1. Rejects("version", d.version) = IF d.version \in {2, 3} THEN <<>> ELSE <<"UnsupportedVersion", d.version>>
    BY <1>3 DEF Rejects
  <2>2. <<>> # <<"InvalidString">> /\ <<"UnsupportedVersion", d.version>> # <<"InvalidString">>
    OBVIOUS
  <2>3. QED
    BY <1>4, <2>1, <2>2 DEF Owes
<1>6. "version" \in StepNames \ {"insert", "push"}
  BY DEF StepNames
<1>7. ReadsAs(td, rest, "version", f, tl, fl)
  BY <1>2, <1>3, <1>4, <1>5, <1>6 DEF ReadsAs
<1>8. Onward("version", f.value, tl, vs) = tl /\ Kept("version", f.value, vs) = vs
  BY DEF Onward, Kept
<1>9. Versioned("version", f.value, g) = Gathered(d, d.version, 0, 0)
  <2>1. PICK m, t, z : m = MapUpto(d, 0) /\ t = TensorsUpto(d, 0) /\ z = d.version
    OBVIOUS
  <2>2. g = [version |-> 0, metadata |-> m, tensors |-> t, data_offset |-> 0]
    BY <1>2, <2>1 DEF Gathered
  <2>3. [g EXCEPT !.version = z] = [version |-> z, metadata |-> m, tensors |-> t, data_offset |-> 0]
    BY <2>2
  <2>4. Gathered(d, d.version, 0, 0) = [version |-> z, metadata |-> m, tensors |-> t, data_offset |-> 0]
    BY <2>1 DEF Gathered
  <2>5. QED
    BY <1>4, <2>1, <2>3, <2>4 DEF Versioned
<1>10. AtTensorCount(d, tl, fl, vs, Gathered(d, d.version, 0, 0))
  BY <1>1, <1>2 DEF AtTensorCount
<1>11. QED
  BY <1>6, <1>7, <1>8, <1>9, <1>10 DEF Reads, Control

LEMMA TensorCountStep ==
  ASSUME NEW d \in Document, NEW td, NEW rest, NEW vs, NEW g, AtTensorCount(d, td, rest, vs, g)
  PROVE  Reads(d, td, rest, vs, g)
<1>1. PICK n, f, tl, fl :
        n = TensorCount(d) /\ f = Field(n, 8) /\ tl = KvCountPlan /\ fl = KvCountRest(d)
  OBVIOUS
<1>2. /\ td = <<<<"tensor_count", 8>>>> \o tl /\ rest = <<f>> \o fl /\ vs = <<>>
      /\ g = Gathered(d, d.version, 0, 0)
  BY <1>1 DEF AtTensorCount, TensorCountPlan, TensorCountRest
<1>3. tl \in Seq(Plans) /\ fl \in Seq(Fields) /\ n \in Nat
  BY <1>1, HeadTypes, DocumentTypes
<1>4. f \in Fields /\ f.value = n /\ f.width = 8 /\ f.error = <<>>
  BY <1>1, <1>3, FieldIsField
<1>5. Owes("tensor_count", f)
  BY <1>4, OwesNothing
<1>6. "tensor_count" \in StepNames \ {"insert", "push"}
  BY DEF StepNames
<1>7. ReadsAs(td, rest, "tensor_count", f, tl, fl)
  BY <1>2, <1>3, <1>4, <1>5, <1>6 DEF ReadsAs
<1>8. Kept("tensor_count", f.value, vs) = vs /\ Versioned("tensor_count", f.value, g) = g
  BY DEF Kept, Versioned
<1>9. Onward("tensor_count", f.value, tl, vs) = KvCountPlan \o TensorPlan(d, 0)
  <2>1. Onward("tensor_count", f.value, tl, vs) = tl \o Repeat(Tensor, n)
    BY <1>4 DEF Onward
  <2>2. TensorCount(d) - 0 = n
    BY <1>1, <1>3
  <2>3. QED
    BY <1>1, <2>1, <2>2 DEF TensorPlan
<1>10. AtKvCount(d, KvCountPlan \o TensorPlan(d, 0), fl, vs, g)
  BY <1>1, <1>2 DEF AtKvCount
<1>11. QED
  BY <1>6, <1>7, <1>8, <1>9, <1>10 DEF Reads, Control

LEMMA KvCountStep ==
  ASSUME NEW d \in Document, NEW td, NEW rest, NEW vs, NEW g, AtKvCount(d, td, rest, vs, g)
  PROVE  Reads(d, td, rest, vs, g)
<1>1. PICK n, f, tl, fl :
        n = EntryCount(d) /\ f = Field(n, 8) /\ tl = TensorPlan(d, 0) /\ fl = EntryRest(d, 0)
  OBVIOUS
<1>2. /\ td = <<<<"kv_count", 8>>>> \o tl /\ rest = <<f>> \o fl /\ vs = <<>>
      /\ g = Gathered(d, d.version, 0, 0)
  BY <1>1 DEF AtKvCount, KvCountPlan, KvCountRest
<1>3. tl \in Seq(Plans) /\ fl \in Seq(Fields) /\ n \in Nat
  BY <1>1, HeadTypes, DocumentTypes
<1>4. f \in Fields /\ f.value = n /\ f.width = 8 /\ f.error = <<>>
  BY <1>1, <1>3, FieldIsField
<1>5. Owes("kv_count", f)
  BY <1>4, OwesNothing
<1>6. "kv_count" \in StepNames \ {"insert", "push"}
  BY DEF StepNames
<1>7. ReadsAs(td, rest, "kv_count", f, tl, fl)
  BY <1>2, <1>3, <1>4, <1>5, <1>6 DEF ReadsAs
<1>8. Kept("kv_count", f.value, vs) = vs /\ Versioned("kv_count", f.value, g) = g
  BY DEF Kept, Versioned
<1>9. Onward("kv_count", f.value, tl, vs) = EntryPlan(d, 0)
  <2>1. Onward("kv_count", f.value, tl, vs) = Repeat(KeyValue, n) \o tl
    BY <1>4 DEF Onward
  <2>2. EntryCount(d) - 0 = n
    BY <1>1, <1>3
  <2>3. QED
    BY <1>1, <2>1, <2>2 DEF EntryPlan
<1>10. Control(d, EntryPlan(d, 0), fl, vs, g)
  <2>1. 0 \in 0 .. EntryCount(d)
    BY <1>1, <1>3
  <2>2. QED
    BY <1>1, <1>2, <2>1, EntriesFrom
<1>11. QED
  BY <1>6, <1>7, <1>8, <1>9, <1>10 DEF Reads

LEMMA ReadNames ==
  /\ EntryReads \subseteq StepNames \ {"insert", "push"} /\ "version" \notin EntryReads
  /\ TensorReads \subseteq StepNames \ {"insert", "push"} /\ "version" \notin TensorReads
  BY DEF EntryReads, TensorReads, JobReads, StepNames

(* Inside an entry, or at its end.                                         *)
LEMMA EntryMoves ==
  ASSUME NEW d \in Document, NEW td, NEW rest, NEW vs, NEW g, AtEntry(d, td, rest, vs, g)
  PROVE  Reads(d, td, rest, vs, g) \/ Inserts(d, td, rest, vs, g)
<1>1. PICK k \in 1 .. EntryCount(d) :
        /\ InEntry(d.metadata[k], EntryPlan(d, k), EntryRest(d, k), td, rest, vs)
        /\ g = Gathered(d, d.version, k - 1, 0)
  BY DEF AtEntry
<1>2. PICK e, tl, fl : e = d.metadata[k] /\ tl = EntryPlan(d, k) /\ fl = EntryRest(d, k)
  OBVIOUS
<1>3. Around(e, tl, fl) /\ InEntry(e, tl, fl, td, rest, vs)
  BY <1>1, <1>2, AroundEach
<1>4. EntryGoesOn(e, tl, fl, td, rest, vs) \/ EntryRead(e, tl, fl, td, rest, vs)
  BY <1>3, EntryStep
<1>5. ASSUME EntryGoesOn(e, tl, fl, td, rest, vs)  PROVE Reads(d, td, rest, vs, g)
  <2>1. PICK what \in EntryReads : \E f, tl1, fl1 :
          /\ ReadsAs(td, rest, what, f, tl1, fl1)
          /\ f.error = <<>> => InEntry(e, tl, fl, Onward(what, f.value, tl1, vs), fl1, Kept(what, f.value, vs))
    BY <1>5 DEF EntryGoesOn
  <2>2. PICK f, tl1, fl1 :
          /\ ReadsAs(td, rest, what, f, tl1, fl1)
          /\ f.error = <<>> => InEntry(e, tl, fl, Onward(what, f.value, tl1, vs), fl1, Kept(what, f.value, vs))
    BY <2>1
  <2>3. what \in StepNames \ {"insert", "push"} /\ what # "version"
    BY ReadNames
  <2>4. Versioned(what, f.value, g) = g
    BY <2>3 DEF Versioned
  <2>5. ASSUME f.error = <<>>
        PROVE  Control(d, Onward(what, f.value, tl1, vs), fl1, Kept(what, f.value, vs), g)
    <3>1. PICK td1, vs1 : td1 = Onward(what, f.value, tl1, vs) /\ vs1 = Kept(what, f.value, vs)
      OBVIOUS
    <3>2. InEntry(d.metadata[k], EntryPlan(d, k), EntryRest(d, k), td1, fl1, vs1)
      BY <1>2, <2>2, <2>5, <3>1
    <3>3. AtEntry(d, td1, fl1, vs1, g)
      BY <1>1, <3>2 DEF AtEntry
    <3>4. QED
      BY <3>1, <3>3 DEF Control
  <2>6. QED
    BY <2>2, <2>3, <2>4, <2>5 DEF Reads
<1>6. ASSUME EntryRead(e, tl, fl, td, rest, vs)  PROVE Inserts(d, td, rest, vs, g)
  <2>1. td = InsertStep \o tl /\ rest = fl /\ vs = <<e.key>> \o Content(e.value)
    BY <1>6 DEF EntryRead
  <2>2. tl \in Seq(Plans)
    BY <1>3 DEF Around
  <2>3. Inserted(g, vs) = Gathered(d, d.version, k, 0)
    BY <1>1, <1>2, <2>1, GatherEntry
  <2>4. k \in 0 .. EntryCount(d)
    BY DocumentTypes
  <2>5. Control(d, tl, rest, <<>>, Gathered(d, d.version, k, 0))
    BY <1>2, <2>1, <2>4, EntriesFrom
  <2>6. QED
    BY <2>1, <2>2, <2>3, <2>5 DEF Inserts
<1>7. QED
  BY <1>4, <1>5, <1>6

(* Inside a tensor of the list, or at its end.                             *)
LEMMA TensorMoves ==
  ASSUME NEW d \in Document, NEW td, NEW rest, NEW vs, NEW g, AtTensor(d, td, rest, vs, g)
  PROVE  Reads(d, td, rest, vs, g) \/ Pushes(d, td, rest, vs, g)
<1>1. PICK k \in 1 .. TensorCount(d) :
        /\ \/ InTensor(d.tensors[k], TensorPlan(d, k), TensorRest(d, k), td, rest, vs)
           \/ td = PushStep \o TensorPlan(d, k) /\ rest = TensorRest(d, k) /\ vs = Listed(d.tensors[k])
        /\ g = Gathered(d, d.version, EntryCount(d), k - 1)
  BY DEF AtTensor
<1>2. PICK t, tl, fl : t = d.tensors[k] /\ tl = TensorPlan(d, k) /\ fl = TensorRest(d, k)
  OBVIOUS
<1>3. AroundTensor(t, tl, fl)
  BY <1>2, AroundEach
<1>4. ASSUME InTensor(t, tl, fl, td, rest, vs)  PROVE Reads(d, td, rest, vs, g)
  <2>1. TensorGoesOn(t, tl, fl, td, rest, vs)
    BY <1>3, <1>4, TensorStep
  <2>2. PICK what \in TensorReads : \E f, tl1, fl1 :
          /\ ReadsAs(td, rest, what, f, tl1, fl1)
          /\ f.error = <<>> =>
               \/ InTensor(t, tl, fl, Onward(what, f.value, tl1, vs), fl1, Kept(what, f.value, vs))
               \/ /\ Onward(what, f.value, tl1, vs) = PushStep \o tl /\ fl1 = fl
                  /\ Kept(what, f.value, vs) = Listed(t)
    BY <2>1 DEF TensorGoesOn, Listed
  <2>3. PICK f, tl1, fl1 :
          /\ ReadsAs(td, rest, what, f, tl1, fl1)
          /\ f.error = <<>> =>
               \/ InTensor(t, tl, fl, Onward(what, f.value, tl1, vs), fl1, Kept(what, f.value, vs))
               \/ /\ Onward(what, f.value, tl1, vs) = PushStep \o tl /\ fl1 = fl
                  /\ Kept(what, f.value, vs) = Listed(t)
    BY <2>2
  <2>4. what \in StepNames \ {"insert", "push"} /\ what # "version"
    BY ReadNames
  <2>5. Versioned(what, f.value, g) = g
    BY <2>4 DEF Versioned
  <2>6. ASSUME f.error = <<>>
        PROVE  Control(d, Onward(what, f.value, tl1, vs), fl1, Kept(what, f.value, vs), g)
    <3>1. PICK td1, vs1 : td1 = Onward(what, f.value, tl1, vs) /\ vs1 = Kept(what, f.value, vs)
      OBVIOUS
    <3>2. \/ InTensor(d.tensors[k], TensorPlan(d, k), TensorRest(d, k), td1, fl1, vs1)
          \/ td1 = PushStep \o TensorPlan(d, k) /\ fl1 = TensorRest(d, k) /\ vs1 = Listed(d.tensors[k])
      BY <1>2, <2>3, <2>6, <3>1
    <3>3. AtTensor(d, td1, fl1, vs1, g)
      BY <1>1, <3>2 DEF AtTensor
    <3>4. QED
      BY <3>1, <3>3 DEF Control
  <2>7. QED
    BY <2>3, <2>4, <2>5, <2>6 DEF Reads
<1>5. ASSUME td = PushStep \o tl, rest = fl, vs = Listed(t)  PROVE Pushes(d, td, rest, vs, g)
  <2>1. tl \in Seq(Plans)
    BY <1>3 DEF AroundTensor
  <2>2. Pushed(g, vs) = Gathered(d, d.version, EntryCount(d), k)
    BY <1>1, <1>2, <1>5, GatherTensor
  <2>3. k \in 0 .. TensorCount(d)
    BY DocumentTypes
  <2>4. Control(d, tl, rest, <<>>, Gathered(d, d.version, EntryCount(d), k))
    BY <1>2, <1>5, <2>3, TensorsFrom
  <2>5. QED
    BY <1>5, <2>1, <2>2, <2>4 DEF Pushes
<1>6. QED
  BY <1>1, <1>2, <1>4, <1>5

(* What the parser expects is what the format has at that place.           *)
LEMMA DocumentStep ==
  ASSUME NEW d \in Document, NEW td, NEW rest, NEW vs, NEW g, Control(d, td, rest, vs, g)
  PROVE  Moves(d, td, rest, vs, g) \/ AtFinish(d, td, rest, vs, g)
<1>1. CASE AtMagic(d, td, rest, vs, g)
  BY <1>1, MagicStep DEF Moves
<1>2. CASE AtVersion(d, td, rest, vs, g)
  BY <1>2, VersionStep DEF Moves
<1>3. CASE AtTensorCount(d, td, rest, vs, g)
  BY <1>3, TensorCountStep DEF Moves
<1>4. CASE AtKvCount(d, td, rest, vs, g)
  BY <1>4, KvCountStep DEF Moves
<1>5. CASE AtEntry(d, td, rest, vs, g)
  BY <1>5, EntryMoves DEF Moves
<1>6. CASE AtTensor(d, td, rest, vs, g)
  BY <1>6, TensorMoves DEF Moves
<1>7. QED
  BY <1>1, <1>2, <1>3, <1>4, <1>5, <1>6 DEF Control

(* The header is the magic, the version and the counts, every entry and    *)
(* every tensor.                                                           *)
LEMMA WrittenShape ==
  ASSUME NEW d \in Document
  PROVE  Written(d) = <<MagicOwed(d)>> \o VersionRest(d) /\ Written(d) \in Seq(Fields)
<1>1. PICK a, b, c, e, E, TS :
        /\ a = MagicOwed(d) /\ b = VersionOwed(d) /\ c = Field(TensorCount(d), 8) /\ e = Field(EntryCount(d), 8)
        /\ E = After(EntryParts(d), EntryCount(d), 0) /\ TS = TensorRest(d, 0)
  OBVIOUS
<1>2. /\ EntryCount(d) \in Nat /\ TensorCount(d) \in Nat
      /\ DOMAIN d.metadata = 1 .. EntryCount(d) /\ DOMAIN d.tensors = 1 .. TensorCount(d)
  BY DocumentTypes
<1>3. a \in Fields /\ b \in Fields /\ c \in Fields /\ e \in Fields
  BY <1>1, HeadTypes
<1>4. E \in Seq(Fields) /\ TS \in Seq(Fields)
  <2>1. 0 \in 0 .. EntryCount(d) /\ 0 \in 0 .. TensorCount(d)
    BY <1>2
  <2>2. QED
    BY <1>1, <2>1, PartsTypes, PartIsSeq
<1>5. FlattenSeq([k \in DOMAIN d.metadata |-> EntryFields(d.metadata[k])]) = E
  <2>1. PICK F, n : F = EntryParts(d) /\ n = EntryCount(d)
    OBVIOUS
  <2>2. [k \in DOMAIN d.metadata |-> EntryFields(d.metadata[k])] = [k \in 1 .. n |-> F[k]]
    BY <1>2, <2>1 DEF EntryParts
  <2>3. QED
    BY <1>1, <1>2, <2>1, <2>2, AfterNone
<1>6. FlattenSeq([k \in DOMAIN d.tensors |-> TensorFields(d.tensors[k])]) = TS
  <2>1. PICK F, n : F = TensorParts(d) /\ n = TensorCount(d)
    OBVIOUS
  <2>2. [k \in DOMAIN d.tensors |-> TensorFields(d.tensors[k])] = [k \in 1 .. n |-> F[k]]
    BY <1>2, <2>1 DEF TensorParts
  <2>3. QED
    BY <1>1, <1>2, <2>1, <2>2, AfterNone DEF TensorRest
<1>7. PICK p, q, u, w, v, ET : p = <<a>> /\ q = <<b>> /\ u = <<c>> /\ w = <<e>> /\ v = <<a, b, c, e>> /\ ET = E \o TS
  OBVIOUS
<1>8. Written(d) = (v \o E) \o TS
  BY <1>1, <1>5, <1>6, <1>7 DEF Written, MagicOwed, VersionOwed, TensorCount, EntryCount
<1>9. v \in Seq(Fields) /\ ET \in Seq(Fields)
  BY <1>3, <1>4, <1>7, ConcatProperties
<1>10. Joins(Fields, v, E, TS) /\ FourJoins(Fields, p, q, u, w, v, ET)
  BY <1>3, <1>4, <1>7, <1>9 DEF Joins, FourJoins
<1>11. (v \o E) \o TS = v \o (E \o TS)
  BY <1>10, Join
<1>12. v \o ET = p \o (q \o (u \o (w \o ET)))
  <2>1. OpensWithFour(v \o ET, p, q, u, w, ET)
    BY <1>10, JoinFourOnes
  <2>2. QED
    BY <2>1 DEF OpensWithFour
<1>13. <<MagicOwed(d)>> \o VersionRest(d) = p \o (q \o (u \o (w \o ET)))
  BY <1>1, <1>7 DEF VersionRest, TensorCountRest, KvCountRest, EntryRest
<1>14. v \o ET \in Seq(Fields)
  BY <1>9, ConcatProperties
<1>15. QED
  BY <1>7, <1>8, <1>11, <1>12, <1>13, <1>14

-----------------------------------------------------------------------------
(* The file.                                                               *)
LEMMA Aligned ==
  ASSUME NEW n \in Nat
  PROVE  /\ AlignTo(n, ALIGNMENT) \in n .. n + ALIGNMENT - 1 /\ AlignTo(n, ALIGNMENT) % ALIGNMENT = 0
         /\ \A m \in n .. n + ALIGNMENT - 1 : m % ALIGNMENT = 0 => m = AlignTo(n, ALIGNMENT)
<1>1. PICK q : q = (n + 31) \div 32
  OBVIOUS
<1>2. q \in Int /\ 32 * q <= n + 31 /\ n + 31 < 32 * q + 32
  BY <1>1
<1>3. AlignTo(n, ALIGNMENT) = q * 32
  BY <1>1 DEF AlignTo, ALIGNMENT
<1>4. (q * 32) % 32 = 0
  BY <1>2
<1>5. ASSUME NEW m \in n .. n + 31, m % 32 = 0  PROVE m = q * 32
  BY <1>2, <1>5
<1>6. q * 32 \in n .. n + 31
  BY <1>2
<1>7. QED
  BY <1>3, <1>4, <1>5, <1>6 DEF ALIGNMENT

LEMMA DataStartIs ==
  ASSUME NEW d \in Document
  PROVE  /\ Header(d) \in Seq(FileBytes) /\ Len(Header(d)) \in Nat
         /\ DataStart(d) = AlignTo(Len(Header(d)), ALIGNMENT)
         /\ DataStart(d) - Len(Header(d)) \in Nat
<1>1. Header(d) \in Seq(FileBytes)
  BY WrittenShape, LaidType DEF Header
<1>2. PICK n, a : n = Len(Header(d)) /\ a = AlignTo(n, ALIGNMENT)
  OBVIOUS
<1>3. n \in Nat
  BY <1>1, <1>2, LenProperties
<1>4. /\ a \in n .. n + ALIGNMENT - 1 /\ a % ALIGNMENT = 0
      /\ \A m \in n .. n + ALIGNMENT - 1 : m % ALIGNMENT = 0 => m = a
  BY <1>2, <1>3, Aligned
<1>5. DataStart(d) = CHOOSE m \in n .. n + ALIGNMENT - 1 : m % ALIGNMENT = 0
  BY <1>2 DEF DataStart
<1>6. DataStart(d) = a
  BY <1>4, <1>5
<1>7. a - n \in Nat
  BY <1>3, <1>4 DEF ALIGNMENT
<1>8. QED
  BY <1>1, <1>2, <1>3, <1>6, <1>7

LEMMA FileShape ==
  ASSUME NEW d \in Document
  PROVE  \E z \in Seq(FileBytes) : File(d) = Header(d) \o z
<1>1. Header(d) \in Seq(FileBytes) /\ DataStart(d) - Len(Header(d)) \in Nat
  BY DataStartIs
<1>2. <<0, 1, 1>> \in FileBytes
  <2>1. 0 \in FieldValues
    BY DEF FieldValues
  <2>2. QED
    BY <2>1 DEF FileBytes
<1>3. PICK h, n, zero, x, y :
        /\ h = Header(d) /\ n = DataStart(d) - Len(Header(d)) /\ zero = <<0, 1, 1>>
        /\ x = [k \in 1 .. n |-> zero] /\ y = IF d.tensors = <<>> THEN <<>> ELSE <<zero>>
  OBVIOUS
<1>4. x \in Seq(FileBytes) /\ y \in Seq(FileBytes) /\ h \in Seq(FileBytes)
  <2>1. PICK S : S = FileBytes
    OBVIOUS
  <2>2. zero \in S /\ n \in Nat
    BY <1>1, <1>2, <1>3, <2>1
  <2>3. <<>> \in Seq(S) /\ <<zero>> \in Seq(S)
    BY <2>2
  <2>4. x \in Seq(S)
    <3>1. x = [k \in 1 .. n |-> zero]
      BY <1>3
    <3>2. [k \in 1 .. n |-> zero] \in [1 .. n -> S]
      BY <2>2
    <3>3. QED
      BY <2>2, <3>1, <3>2
  <2>5. y \in Seq(S)
    BY <1>3, <2>3
  <2>6. QED
    BY <1>1, <1>3, <2>1, <2>4, <2>5
<1>5. Joins(FileBytes, h, x, y)
  BY <1>4 DEF Joins
<1>6. (h \o x) \o y = h \o (x \o y)
  BY <1>5, Join
<1>7. File(d) = (h \o x) \o y
  BY <1>3 DEF File
<1>8. x \o y \in Seq(FileBytes)
  BY <1>4, ConcatProperties
<1>9. QED
  BY <1>3, <1>6, <1>7, <1>8

(* Where a field is: after what is written before it.                      *)
NextField(d, done, f, later) ==
  done \in Seq(Fields) /\ f \in Fields /\ later \in Seq(Fields) /\ Written(d) = done \o (<<f>> \o later)

LEMMA FieldAhead ==
  ASSUME NEW d \in Document, NEW done, NEW f, NEW later, NextField(d, done, f, later),
         NEW length \in 0 .. Len(File(d)), f.width > 0, Len(BytesOf(done)) + f.width <= length
  PROVE  SubSeq(File(d), 1, length)[Len(BytesOf(done)) + 1] = <<f.value, 1, f.width>>
<1>1. done \in Seq(Fields) /\ f \in Fields /\ later \in Seq(Fields) /\ Written(d) = done \o (<<f>> \o later)
  BY DEF NextField
<1>2. <<f>> \in Seq(Fields) /\ <<f>> \o later \in Seq(Fields)
  BY <1>1, ConsOf
<1>3. PICK z \in Seq(FileBytes) : File(d) = Header(d) \o z
  BY FileShape
<1>4. PICK a, b, c, h, p, F :
        a = BytesOf(done) /\ b = Bytes(f) /\ c = BytesOf(later) /\ h = Header(d) /\ p = Len(a) /\ F = File(d)
  OBVIOUS
<1>5. /\ a \in Seq(FileBytes) /\ b \in Seq(FileBytes) /\ c \in Seq(FileBytes)
      /\ Len(b) = f.width /\ f.width \in Nat /\ b[1] = <<f.value, 1, f.width>>
  BY <1>1, <1>4, BytesType, LaidType
<1>6. h = a \o (b \o c)
  <2>1. Header(d) = BytesOf(done \o (<<f>> \o later))
    BY <1>1 DEF Header
  <2>2. BytesOf(done \o (<<f>> \o later)) = BytesOf(done) \o BytesOf(<<f>> \o later)
    BY <1>1, <1>2, BytesOfJoin
  <2>3. BytesOf(<<f>> \o later) = BytesOf(<<f>>) \o BytesOf(later)
    BY <1>1, <1>2, BytesOfJoin
  <2>4. BytesOf(<<f>>) = Bytes(f)
    BY <1>1, BytesOfOne
  <2>5. QED
    BY <1>4, <2>1, <2>2, <2>3, <2>4
<1>7. PICK bc : bc = b \o c
  OBVIOUS
<1>8. bc \in Seq(FileBytes) /\ Len(bc) = Len(b) + Len(c) /\ bc[1] = b[1] /\ Len(b) \in Nat /\ Len(c) \in Nat
  <2>1. /\ b \o c \in Seq(FileBytes) /\ Len(b \o c) = Len(b) + Len(c) /\ Len(b) \in Nat /\ Len(c) \in Nat
        /\ \A i \in 1 .. Len(b) : (b \o c)[i] = b[i]
    BY <1>5, ConcatAt
  <2>2. 1 \in 1 .. Len(b)
    BY <1>5
  <2>3. QED
    BY <1>7, <2>1, <2>2
<1>9. h \in Seq(FileBytes) /\ Len(h) = p + Len(bc) /\ h[p + 1] = bc[1] /\ p \in Nat
  <2>1. /\ a \o bc \in Seq(FileBytes) /\ Len(a \o bc) = Len(a) + Len(bc) /\ Len(a) \in Nat
        /\ \A i \in 1 .. Len(bc) : (a \o bc)[Len(a) + i] = bc[i]
    BY <1>5, <1>8, ConcatAt
  <2>2. 1 \in 1 .. Len(bc)
    BY <1>5, <1>8
  <2>3. (a \o bc)[Len(a) + 1] = bc[1]
    BY <2>1, <2>2
  <2>4. h = a \o bc
    BY <1>6, <1>7
  <2>5. QED
    BY <1>4, <2>1, <2>3, <2>4
<1>10. F[p + 1] = h[p + 1]
  <2>1. \A i \in 1 .. Len(h) : (h \o z)[i] = h[i]
    BY <1>9, ConcatAt
  <2>2. p + 1 \in 1 .. Len(h)
    <3>1. Len(b) > 0 /\ Len(b) \in Nat /\ Len(c) \in Nat /\ p \in Nat /\ Len(h) = p + (Len(b) + Len(c))
      BY <1>5, <1>8, <1>9
    <3>2. QED
      BY <3>1
  <2>3. F = h \o z
    BY <1>3, <1>4
  <2>4. QED
    BY <2>1, <2>2, <2>3
<1>11. length \in Int /\ 1 <= p + 1 /\ p + 1 <= length
  BY <1>4, <1>5, <1>9
<1>12. SubSeq(F, 1, length)[p + 1] = F[p + 1]
  <2>1. SubSeq(F, 1, length) = [x \in 1 .. length - 1 + 1 |-> F[1 + x - 1]]
    BY <1>11, SubSeqIs
  <2>2. p + 1 \in 1 .. length - 1 + 1 /\ 1 + (p + 1) - 1 = p + 1
    BY <1>9, <1>11
  <2>3. QED
    BY <2>1, <2>2
<1>13. QED
  BY <1>4, <1>5, <1>8, <1>9, <1>10, <1>12

LEMMA FileLength ==
  ASSUME NEW d \in Document, NEW length \in 0 .. Len(File(d))
  PROVE  Len(SubSeq(File(d), 1, length)) = length /\ length \in Nat
<1>1. PICK z \in Seq(FileBytes) : File(d) = Header(d) \o z
  BY FileShape
<1>2. File(d) \in Seq(FileBytes)
  BY <1>1, DataStartIs, ConcatProperties
<1>3. Len(File(d)) \in Nat
  BY <1>2, LenProperties
<1>4. \A i \in 1 .. length : File(d)[i] \in FileBytes
  BY <1>2, <1>3, ElementOfSeq
<1>5. length \in Int /\ length >= 0
  BY <1>3
<1>6. Len(SubSeq(File(d), 1, length)) = IF 1 <= length THEN length - 1 + 1 ELSE 0
  BY <1>4, <1>5, SubSeqProperties
<1>7. QED
  BY <1>3, <1>5, <1>6

(* The error owed to a field, by what is written before it.                *)
FieldDefect(f, at, length) ==
  IF at + f.width > length THEN <<"UnexpectedEof", at>>
  ELSE IF f.error = <<"InvalidString">> THEN <<"InvalidString", at>>
  ELSE f.error
NoDefects(d, done, length) == \A k \in 1 .. Len(done) : Defect(Written(d), length, k) = <<>>

LEMMA DefectAt ==
  ASSUME NEW d \in Document, NEW done, NEW f, NEW later, NextField(d, done, f, later), NEW length
  PROVE  /\ Len(done) + 1 \in DOMAIN Written(d) /\ Len(done) \in Nat
         /\ Defect(Written(d), length, Len(done) + 1) = FieldDefect(f, Len(BytesOf(done)), length)
<1>1. done \in Seq(Fields) /\ f \in Fields /\ later \in Seq(Fields) /\ Written(d) = done \o (<<f>> \o later)
  BY DEF NextField
<1>2. PICK W, r, n : W = Written(d) /\ r = <<f>> \o later /\ n = Len(done)
  OBVIOUS
<1>3. r \in Seq(Fields) /\ Len(r) = Len(later) + 1 /\ r[1] = f
  BY <1>1, <1>2, ConsOf
<1>4. /\ W \in Seq(Fields) /\ Len(W) = n + Len(r) /\ n \in Nat /\ Len(r) \in Nat
      /\ \A i \in 1 .. n : W[i] = done[i]
      /\ \A i \in 1 .. Len(r) : W[n + i] = r[i]
  BY <1>1, <1>2, <1>3, ConcatAt
<1>5. 1 \in 1 .. Len(r) /\ n + 1 \in 1 .. Len(W)
  BY <1>1, <1>3, <1>4, LenProperties
<1>6. W[n + 1] = f
  BY <1>3, <1>4, <1>5
<1>7. SubSeq(W, 1, n) = done
  <2>1. CASE n = 0
    <3>1. done = <<>>
      BY <1>1, <1>2, <2>1, EmptySeq
    <3>2. SubSeq(W, 1, 0) = <<>>
      BY SubSeqEmpty
    <3>3. QED
      BY <2>1, <3>1, <3>2
  <2>2. CASE n # 0
    <3>1. 1 \in 1 .. Len(done) /\ n \in 1 .. Len(done)
      BY <1>2, <1>4, <2>2
    <3>2. SubSeq(done \o r, 1, n) = SubSeq(done, 1, n)
      BY <1>1, <1>3, <3>1, SubSeqOfConcat1
    <3>3. SubSeq(done, 1, Len(done)) = done
      BY <1>1, SubSeqFull
    <3>4. QED
      BY <1>1, <1>2, <3>2, <3>3
  <2>3. QED
    BY <2>1, <2>2
<1>8. Start(W, n + 1) = Len(BytesOf(done))
  <2>1. PICK m : m = n + 1
    OBVIOUS
  <2>2. m - 1 = n
    BY <1>4, <2>1
  <2>3. SubSeq(W, 1, m - 1) = done
    BY <1>7, <2>2
  <2>4. Start(W, m) = Len(BytesOf(SubSeq(W, 1, m - 1)))
    BY DEF Start
  <2>5. PICK s : s = SubSeq(W, 1, m - 1)
    OBVIOUS
  <2>6. s = done /\ Start(W, m) = Len(BytesOf(s))
    BY <2>3, <2>4, <2>5
  <2>7. Start(W, m) = Len(BytesOf(done))
    BY ONLY <2>6
  <2>8. QED
    BY <2>1, <2>7
<1>9. PICK at : at = Len(BytesOf(done))
  OBVIOUS
<1>10. Defect(W, length, n + 1) = FieldDefect(f, at, length)
  BY <1>6, <1>8, <1>9 DEF Defect, FieldDefect
<1>11. DOMAIN W = 1 .. Len(W)
  BY <1>4, LenProperties
<1>12. QED
  BY <1>2, <1>4, <1>5, <1>9, <1>10, <1>11

(* The first field with a defect decides.                                  *)
LEMMA FirstIs ==
  ASSUME NEW d \in Document, NEW done, NEW f, NEW later, NextField(d, done, f, later), NEW length,
         NoDefects(d, done, length), FieldDefect(f, Len(BytesOf(done)), length) # <<>>
  PROVE  FirstDefect(d, length) = FieldDefect(f, Len(BytesOf(done)), length)
<1>1. PICK n, k, W : n = Len(done) /\ k = n + 1 /\ W = Written(d)
  OBVIOUS
<1>2. /\ k \in DOMAIN W /\ n \in Nat /\ k \in Nat
      /\ Defect(W, length, k) = FieldDefect(f, Len(BytesOf(done)), length)
  BY <1>1, DefectAt
<1>3. DOMAIN W \subseteq Nat
  <2>1. W \in Seq(Fields)
    BY <1>1, WrittenShape
  <2>2. QED
    BY <2>1, LenProperties
<1>4. PICK bad : bad = {i \in DOMAIN W : Defect(W, length, i) # <<>>}
  OBVIOUS
<1>5. k \in bad /\ bad # {}
  BY <1>2, <1>4
<1>6. \A i \in bad : k <= i
  <2> SUFFICES ASSUME NEW i \in bad, ~(k <= i)  PROVE FALSE
    OBVIOUS
  <2>1. i \in DOMAIN W /\ Defect(W, length, i) # <<>> /\ i \in Nat
    BY <1>3, <1>4
  <2>2. i >= 1
    <3>1. W \in Seq(Fields)
      BY <1>1, WrittenShape
    <3>2. DOMAIN W = 1 .. Len(W)
      BY <3>1, LenProperties
    <3>3. QED
      BY <2>1, <3>2
  <2>3. i \in 1 .. n
    BY <1>1, <1>2, <2>1, <2>2
  <2>4. QED
    BY <1>1, <2>1, <2>3 DEF NoDefects
<1>7. \A i \in bad : (\A m \in bad : i <= m) => i = k
  <2> SUFFICES ASSUME NEW i \in bad, \A m \in bad : i <= m  PROVE i = k
    OBVIOUS
  <2>1. i \in Nat /\ i <= k /\ k <= i
    BY <1>3, <1>4, <1>5, <1>6
  <2>2. QED
    BY <1>2, <2>1
<1>8. (CHOOSE i \in bad : \A m \in bad : i <= m) = k
  BY <1>5, <1>6, <1>7
<1>9. FirstDefect(d, length) =
        IF bad = {} THEN <<"ok">> ELSE Defect(W, length, CHOOSE i \in bad : \A m \in bad : i <= m)
  BY <1>1, <1>4 DEF FirstDefect
<1>10. QED
  BY <1>2, <1>5, <1>8, <1>9

LEMMA NoneIs ==
  ASSUME NEW d \in Document, NEW length, NoDefects(d, Written(d), length)
  PROVE  FirstDefect(d, length) = <<"ok">>
<1>1. PICK W : W = Written(d)
  OBVIOUS
<1>2. W \in Seq(Fields)
  BY <1>1, WrittenShape
<1>3. DOMAIN W = 1 .. Len(W)
  BY <1>2, LenProperties
<1>4. {i \in DOMAIN W : Defect(W, length, i) # <<>>} = {}
  BY <1>1, <1>3 DEF NoDefects
<1>5. QED
  BY <1>1, <1>4 DEF FirstDefect

(* A field without a defect.                                               *)
LEMMA FieldPasses ==
  ASSUME NEW d \in Document, NEW done, NEW f, NEW later, NextField(d, done, f, later), NEW length,
         NoDefects(d, done, length), FieldDefect(f, Len(BytesOf(done)), length) = <<>>
  PROVE  /\ done \o <<f>> \in Seq(Fields) /\ Written(d) = (done \o <<f>>) \o later
         /\ Len(BytesOf(done \o <<f>>)) = Len(BytesOf(done)) + f.width
         /\ NoDefects(d, done \o <<f>>, length)
<1>1. done \in Seq(Fields) /\ f \in Fields /\ later \in Seq(Fields) /\ Written(d) = done \o (<<f>> \o later)
  BY DEF NextField
<1>2. PICK p, n : p = <<f>> /\ n = Len(done)
  OBVIOUS
<1>3. p \in Seq(Fields) /\ Len(p) = 1
  BY <1>1, <1>2
<1>4. Joins(Fields, done, p, later)
  BY <1>1, <1>3 DEF Joins
<1>5. (done \o p) \o later = done \o (p \o later)
  BY <1>4, Join
<1>6. done \o p \in Seq(Fields) /\ Len(done \o p) = n + Len(p) /\ n \in Nat
  BY <1>1, <1>2, <1>3, ConcatAt
<1>7. Len(BytesOf(done \o p)) = Len(BytesOf(done)) + f.width
  <2>1. BytesOf(done \o p) = BytesOf(done) \o BytesOf(p)
    BY <1>1, <1>3, BytesOfJoin
  <2>2. BytesOf(p) = Bytes(f) /\ Len(Bytes(f)) = f.width /\ Bytes(f) \in Seq(FileBytes)
    BY <1>1, <1>2, BytesOfOne, BytesType
  <2>3. BytesOf(done) \in Seq(FileBytes)
    BY <1>1, LaidType
  <2>4. PICK a, b : a = BytesOf(done) /\ b = Bytes(f)
    OBVIOUS
  <2>5. Len(a \o b) = Len(a) + Len(b)
    BY <2>2, <2>3, <2>4, ConcatAt
  <2>6. QED
    BY <2>1, <2>2, <2>4, <2>5
<1>8. NoDefects(d, done \o p, length)
  <2>1. ASSUME NEW k \in 1 .. Len(done \o p)  PROVE Defect(Written(d), length, k) = <<>>
    <3>1. k \in 1 .. n \/ k = n + 1
      BY <1>3, <1>6
    <3>2. Defect(Written(d), length, n + 1) = <<>>
      BY <1>2, DefectAt
    <3>3. QED
      BY <1>2, <3>1, <3>2 DEF NoDefects
  <2>2. QED
    BY <2>1 DEF NoDefects
<1>9. QED
  BY <1>1, <1>2, <1>5, <1>6, <1>7, <1>8

-----------------------------------------------------------------------------
(* The invariant.  While the parser goes on, what it has read is the       *)
(* beginning of what was written, without a defect, and what it expects    *)
(* and has gathered are what is written next and before.                   *)
Upto(done, rest) ==
  /\ done \in Seq(Fields) /\ rest \in Seq(Fields) /\ Written(document) = done \o rest
  /\ pos = Len(BytesOf(done)) /\ pos <= Len(data) /\ NoDefects(document, done, Len(data))
  /\ Control(document, plan, rest, vals, gguf)
IsFile == document \in Document /\ \E n \in 0 .. Len(File(document)) : data = SubSeq(File(document), 1, n)
ParseInv ==
  /\ IsFile
  /\ parsed = <<>> => \E done, rest : Upto(done, rest)
  /\ ParseInvertsWrite
  /\ FirstDefectDecides

LEMMA DataIs ==
  ASSUME IsFile
  PROVE  /\ document \in Document /\ Len(data) \in Nat /\ Len(data) \in 0 .. Len(File(document))
         /\ data = SubSeq(File(document), 1, Len(data))
<1>1. PICK n \in 0 .. Len(File(document)) : data = SubSeq(File(document), 1, n)
  BY DEF IsFile
<1>2. document \in Document
  BY DEF IsFile
<1>3. Len(data) = n /\ n \in Nat
  BY <1>1, <1>2, FileLength
<1>4. QED
  BY <1>1, <1>2, <1>3

LEMMA PlanHead ==
  ASSUME NEW tl \in Seq(Plans), NEW what \in StepNames, NEW n \in Nat, NEW td, td = <<<<what, n>>>> \o tl
  PROVE  td # <<>> /\ Head(td)[1] = what /\ Head(td)[2] = n /\ Tail(td) = tl
<1>1. PICK x : x = <<what, n>>
  OBVIOUS
<1>2. x \in Plans /\ td = <<x>> \o tl
  BY <1>1 DEF Plans
<1>3. td # <<>> /\ Head(td) = x /\ Tail(td) = tl
  BY <1>2, ConsOf
<1>4. QED
  BY <1>1, <1>3

(* The initial states.                                                     *)
LEMMA MagicPlanIs ==
  MagicPlan = <<<<"magic", 4>>, <<"version", 4>>, <<"tensor_count", 8>>, <<"kv_count", 8>>>>
<1>1. PICK a, b, c, e, p, q, u, w, v, z :
        /\ a = <<"magic", 4>> /\ b = <<"version", 4>> /\ c = <<"tensor_count", 8>> /\ e = <<"kv_count", 8>>
        /\ p = <<a>> /\ q = <<b>> /\ u = <<c>> /\ w = <<e>> /\ v = <<a, b, c, e>> /\ z = <<>>
  OBVIOUS
<1>2. a \in Plans /\ b \in Plans /\ c \in Plans /\ e \in Plans
  BY <1>1 DEF Plans, StepNames
<1>3. v \in Seq(Plans) /\ z \in Seq(Plans) /\ w \in Seq(Plans)
  BY <1>1, <1>2
<1>4. FourJoins(Plans, p, q, u, w, v, z)
  BY <1>1, <1>2, <1>3 DEF FourJoins
<1>5. v \o z = p \o (q \o (u \o (w \o z)))
  <2>1. OpensWithFour(v \o z, p, q, u, w, z)
    BY <1>4, JoinFourOnes
  <2>2. QED
    BY <2>1 DEF OpensWithFour
<1>6. v \o z = v /\ w \o z = w
  BY <1>1, <1>3, ConcatEmptySeq
<1>7. MagicPlan = p \o (q \o (u \o w))
  BY <1>1 DEF MagicPlan, VersionPlan, TensorCountPlan, KvCountPlan
<1>8. QED
  BY <1>1, <1>5, <1>6, <1>7

LEMMA StartsEmpty ==
  ASSUME NEW d
  PROVE  Gathered(d, 0, 0, 0) = [version |-> 0, metadata |-> {}, tensors |-> <<>>, data_offset |-> 0]
<1>1. LatestUpto(d, 0) = {}
  BY DEF LatestUpto
<1>2. MapUpto(d, 0) = {}
  BY <1>1 DEF MapUpto
<1>3. TensorsUpto(d, 0) = <<>>
  <2> DEFINE TS(i) == Listed(d.tensors[i])
  <2>1. TensorsUpto(d, 0) = [i \in 1 .. 0 |-> TS(i)]
    BY DEF TensorsUpto
  <2> HIDE DEF TS
  <2>2. [i \in 1 .. 0 |-> TS(i)] = <<>>
    OBVIOUS
  <2>3. QED
    BY <2>1, <2>2
<1>4. PICK m, t : m = MapUpto(d, 0) /\ t = TensorsUpto(d, 0)
  OBVIOUS
<1>5. Gathered(d, 0, 0, 0) = [version |-> 0, metadata |-> m, tensors |-> t, data_offset |-> 0]
  BY <1>4 DEF Gathered
<1>6. QED
  BY <1>2, <1>3, <1>4, <1>5

LEMMA ParseStarts == ParseInit => ParseInv
<1> SUFFICES ASSUME ParseInit  PROVE ParseInv
  OBVIOUS
<1>1. document \in Document /\ pos = 0 /\ vals = <<>> /\ parsed = <<>>
  BY DocumentsAssumption DEF ParseInit
<1>2. \E n \in 0 .. Len(File(document)) : data = SubSeq(File(document), 1, n)
  BY DEF ParseInit
<1>3. IsFile
  BY <1>1, <1>2 DEF IsFile
<1>4. Len(data) \in Nat
  BY <1>3, DataIs
<1>5. PICK rest : rest = <<MagicOwed(document)>> \o VersionRest(document)
  OBVIOUS
<1>6. rest = Written(document) /\ rest \in Seq(Fields)
  BY <1>1, <1>5, WrittenShape
<1>7. Control(document, plan, rest, vals, gguf)
  <2>1. plan = MagicPlan
    BY MagicPlanIs DEF ParseInit
  <2>2. gguf = Gathered(document, 0, 0, 0)
    BY StartsEmpty DEF ParseInit
  <2>3. AtMagic(document, plan, rest, vals, gguf)
    BY <1>1, <1>5, <2>1, <2>2 DEF AtMagic
  <2>4. QED
    BY <2>3 DEF Control
<1>8. <<>> \in Seq(Fields) /\ <<>> \o rest = rest
  BY <1>6, ConcatEmptySeq, EmptySeq
<1>9. Len(BytesOf(<<>>)) = 0
  <2>1. [k \in DOMAIN <<>> |-> Bytes(<<>>[k])] = <<>>
    OBVIOUS
  <2>2. BytesOf(<<>>) = FlattenSeq(<<>>)
    BY <2>1 DEF BytesOf
  <2>3. BytesOf(<<>>) = <<>>
    BY <2>2, FlattenEmpty
  <2>4. QED
    BY <2>3
<1>10. NoDefects(document, <<>>, Len(data))
  BY DEF NoDefects
<1>11. Upto(<<>>, rest)
  BY <1>1, <1>4, <1>6, <1>7, <1>8, <1>9, <1>10 DEF Upto
<1>12. ParseInvertsWrite /\ FirstDefectDecides
  BY <1>1 DEF ParseInvertsWrite, FirstDefectDecides
<1>13. QED
  BY <1>3, <1>11, <1>12 DEF ParseInv

(* What the plan begins with tells the actions apart.                      *)
LEMMA GatherTails ==
  ASSUME NEW td, NEW tl \in Seq(Plans)
  PROVE  /\ td = InsertStep \o tl => Head(td)[1] = "insert" /\ Tail(td) = tl
         /\ td = PushStep \o tl => Head(td)[1] = "push" /\ Tail(td) = tl
<1>1. "insert" \in StepNames /\ "push" \in StepNames /\ 0 \in Nat
  BY DEF StepNames
<1>2. ASSUME td = InsertStep \o tl  PROVE Head(td)[1] = "insert" /\ Tail(td) = tl
  <2>1. td = <<<<"insert", 0>>>> \o tl
    BY <1>2 DEF InsertStep
  <2>2. QED
    BY <1>1, <2>1, PlanHead
<1>3. ASSUME td = PushStep \o tl  PROVE Head(td)[1] = "push" /\ Tail(td) = tl
  <2>1. td = <<<<"push", 0>>>> \o tl
    BY <1>3 DEF PushStep
  <2>2. QED
    BY <1>1, <2>1, PlanHead
<1>4. QED
  BY <1>2, <1>3

LEMMA MoveHeads ==
  ASSUME NEW d, NEW td, NEW rest, NEW vs, NEW g
  PROVE  /\ Reads(d, td, rest, vs, g) => Head(td)[1] \notin {"insert", "push"}
         /\ Inserts(d, td, rest, vs, g) => Head(td)[1] = "insert"
         /\ Pushes(d, td, rest, vs, g) => Head(td)[1] = "push"
         /\ AtFinish(d, td, rest, vs, g) => td = <<>>
<1>1. ASSUME Inserts(d, td, rest, vs, g)  PROVE Head(td)[1] = "insert"
  <2>1. PICK tl \in Seq(Plans) : td = InsertStep \o tl
    BY <1>1 DEF Inserts
  <2>2. QED
    BY <2>1, GatherTails
<1>2. ASSUME Pushes(d, td, rest, vs, g)  PROVE Head(td)[1] = "push"
  <2>1. PICK tl \in Seq(Plans) : td = PushStep \o tl
    BY <1>2 DEF Pushes
  <2>2. QED
    BY <2>1, GatherTails
<1>3. ASSUME Reads(d, td, rest, vs, g)  PROVE Head(td)[1] \notin {"insert", "push"}
  <2>1. PICK what \in StepNames \ {"insert", "push"} : \E f, tl, fl : ReadsAs(td, rest, what, f, tl, fl)
    BY <1>3 DEF Reads
  <2>2. PICK f, tl, fl : ReadsAs(td, rest, what, f, tl, fl)
    BY <2>1
  <2>3. PICK n : n = f.width
    OBVIOUS
  <2>4. tl \in Seq(Plans) /\ td = <<<<what, n>>>> \o tl /\ n \in Nat
    BY <2>2, <2>3 DEF ReadsAs, Fields
  <2>5. Head(td)[1] = what
    BY <2>4, PlanHead
  <2>6. QED
    BY <2>5
<1>4. QED
  BY <1>1, <1>2, <1>3 DEF AtFinish

LEMMA MovesHasPlan ==
  ASSUME NEW d, NEW td, NEW rest, NEW vs, NEW g, Moves(d, td, rest, vs, g)
  PROVE  td # <<>>
<1>1. \E tl \in Seq(Plans), what \in StepNames, n \in Nat : td = <<<<what, n>>>> \o tl
  <2>1. CASE Reads(d, td, rest, vs, g)
    <3>1. PICK what \in StepNames \ {"insert", "push"} : \E f, tl, fl : ReadsAs(td, rest, what, f, tl, fl)
      BY <2>1 DEF Reads
    <3>2. PICK f, tl, fl : ReadsAs(td, rest, what, f, tl, fl)
      BY <3>1
    <3>3. PICK n : n = f.width
      OBVIOUS
    <3>4. tl \in Seq(Plans) /\ td = <<<<what, n>>>> \o tl /\ n \in Nat
      BY <3>2, <3>3 DEF ReadsAs, Fields
    <3>5. QED
      BY <3>4
  <2>2. CASE Inserts(d, td, rest, vs, g)
    BY <2>2 DEF Inserts, InsertStep, StepNames
  <2>3. CASE Pushes(d, td, rest, vs, g)
    BY <2>3 DEF Pushes, PushStep, StepNames
  <2>4. QED
    BY <2>1, <2>2, <2>3 DEF Moves
<1>2. QED
  BY <1>1, PlanHead

(* The next field, when the plan begins with a read.                       *)
ReadAhead(done, what, f, tl, fl) ==
  /\ NextField(document, done, f, fl) /\ what \in StepNames \ {"insert", "push"}
  /\ f \in Fields /\ Owes(what, f) /\ pos = Len(BytesOf(done)) /\ pos <= Len(data) /\ pos \in Nat
  /\ NoDefects(document, done, Len(data))
  /\ plan # <<>> /\ Head(plan)[1] = what /\ Head(plan)[2] = f.width /\ Tail(plan) = tl
  /\ f.error = <<>> =>
       Control(document, Onward(what, f.value, tl, vals), fl, Kept(what, f.value, vals),
               Versioned(what, f.value, gguf))

LEMMA ReadIsNext ==
  ASSUME NEW done, NEW rest, Upto(done, rest), document \in Document,
         plan # <<>>, Head(plan)[1] \notin {"insert", "push"}
  PROVE  \E what, f, tl, fl : ReadAhead(done, what, f, tl, fl)
<1>1. /\ done \in Seq(Fields) /\ rest \in Seq(Fields) /\ Written(document) = done \o rest
      /\ pos = Len(BytesOf(done)) /\ pos <= Len(data) /\ NoDefects(document, done, Len(data))
      /\ Control(document, plan, rest, vals, gguf)
  BY DEF Upto
<1>2. Moves(document, plan, rest, vals, gguf) \/ AtFinish(document, plan, rest, vals, gguf)
  BY <1>1, DocumentStep
<1>6. Reads(document, plan, rest, vals, gguf)
  BY <1>2, MoveHeads DEF Moves
<1>7. PICK what \in StepNames \ {"insert", "push"} : \E f, tl, fl :
        /\ ReadsAs(plan, rest, what, f, tl, fl)
        /\ f.error = <<>> =>
             Control(document, Onward(what, f.value, tl, vals), fl, Kept(what, f.value, vals),
                     Versioned(what, f.value, gguf))
  BY <1>6 DEF Reads
<1>8. PICK f, tl, fl :
        /\ ReadsAs(plan, rest, what, f, tl, fl)
        /\ f.error = <<>> =>
             Control(document, Onward(what, f.value, tl, vals), fl, Kept(what, f.value, vals),
                     Versioned(what, f.value, gguf))
  BY <1>7
<1>9. /\ tl \in Seq(Plans) /\ plan = <<<<what, f.width>>>> \o tl
      /\ f \in Fields /\ fl \in Seq(Fields) /\ rest = <<f>> \o fl /\ Owes(what, f)
  BY <1>8 DEF ReadsAs
<1>10. PICK n : n = f.width
  OBVIOUS
<1>11. n \in Nat
  BY <1>9, <1>10 DEF Fields
<1>12. plan # <<>> /\ Head(plan)[1] = what /\ Head(plan)[2] = n /\ Tail(plan) = tl
  BY <1>9, <1>10, <1>11, PlanHead
<1>13. NextField(document, done, f, fl)
  BY <1>1, <1>9 DEF NextField
<1>14. pos \in Nat
  BY <1>1, LaidType, LenProperties
<1>15. ReadAhead(done, what, f, tl, fl)
  BY <1>1, <1>8, <1>9, <1>10, <1>12, <1>13, <1>14 DEF ReadAhead
<1>16. QED
  BY <1>15

(* What the read returns.                                                  *)
LEMMA ReadReturns ==
  ASSUME IsFile, NEW done, NEW what, NEW f, NEW tl, NEW fl, ReadAhead(done, what, f, tl, fl),
         Fits(f.width)
  PROVE  InStep(f.width) /\ Ahead(f.width) = f.value
<1>1. /\ NextField(document, done, f, fl) /\ f \in Fields /\ pos = Len(BytesOf(done)) /\ pos \in Nat
  BY DEF ReadAhead
<1>2. PICK d, length, n : d = document /\ length = Len(data) /\ n = f.width
  OBVIOUS
<1>3. d \in Document /\ length \in Nat /\ length \in 0 .. Len(File(d)) /\ data = SubSeq(File(d), 1, length)
  BY <1>2, DataIs
<1>4. n \in Nat /\ (n = 0 => f.value = EmptyString)
  BY <1>1, <1>2 DEF Fields
<1>5. length - pos >= n
  BY <1>2 DEF Fits
<1>6. CASE n = 0
  BY <1>2, <1>4, <1>6 DEF InStep, Ahead
<1>7. CASE n # 0
  <2>1. f.width > 0 /\ Len(BytesOf(done)) + f.width <= length
    BY <1>1, <1>2, <1>3, <1>4, <1>5, <1>7
  <2>2. SubSeq(File(d), 1, length)[Len(BytesOf(done)) + 1] = <<f.value, 1, f.width>>
    BY <1>1, <1>2, <1>3, <2>1, FieldAhead
  <2>3. PICK b, v : b = data[pos + 1] /\ v = f.value
    OBVIOUS
  <2>4. b = <<v, 1, n>>
    BY <1>1, <1>2, <1>3, <2>2, <2>3
  <2>5. b[1] = v /\ b[2] = 1 /\ b[3] = n
    BY <2>4
  <2>6. InStep(n) /\ Ahead(n) = v
    BY <1>7, <2>3, <2>5 DEF InStep, Ahead
  <2>7. QED
    BY <1>2, <2>3, <2>6
<1>8. QED
  BY <1>6, <1>7

(* The error of the step is the one owed to the field.                     *)
LEMMA ErrorIsOwed ==
  ASSUME NEW done, NEW what, NEW f, NEW tl, NEW fl, ReadAhead(done, what, f, tl, fl), Len(data) \in Nat,
         Fits(f.width)
  PROVE  /\ Rejects(what, f.value) = FieldDefect(f, Len(BytesOf(done)), Len(data))
         /\ Rejects(what, f.value) # <<"ok">>
         /\ Rejects(what, f.value) = <<>> => f.error = <<>>
<1>1. PICK at, n, length, e, r : /\ at = Len(BytesOf(done)) /\ n = f.width /\ length = Len(data)
                                 /\ e = f.error /\ r = Rejects(what, f.value)
  OBVIOUS
<1>2. pos = at /\ at \in Nat /\ n \in Nat /\ length \in Nat /\ e \in FieldErrors
  BY <1>1 DEF ReadAhead, Fields
<1>3. length - at >= n
  BY <1>1, <1>2 DEF Fits
<1>4. ~(at + n > length)
  BY <1>2, <1>3
<1>5. FieldDefect(f, at, length) = IF e = <<"InvalidString">> THEN <<"InvalidString", at>> ELSE e
  BY <1>1, <1>4 DEF FieldDefect
<1>6. r = IF e = <<"InvalidString">> THEN <<"InvalidString", at>> ELSE e
  BY <1>1, <1>2 DEF ReadAhead, Owes
<1>7. e # <<"ok">>
  BY <1>2 DEF FieldErrors
<1>8. <<"InvalidString", at>> # <<"ok">> /\ <<"InvalidString", at>> # <<>>
  OBVIOUS
<1>9. QED
  BY <1>1, <1>5, <1>6, <1>7, <1>8

LEMMA SameDocument ==
  ASSUME IsFile, UNCHANGED <<document, data>>
  PROVE  IsFile'
  BY DEF IsFile

(* Read: one field more has been read, or its error is the one reported.   *)
LEMMA ReadKeeps ==
  ASSUME ParseInv, Read
  PROVE  ParseInv'
<1>1. IsFile /\ parsed = <<>> /\ plan # <<>> /\ Head(plan)[1] \notin {"insert", "push"}
      /\ document' = document /\ data' = data
  BY DEF ParseInv, Read
<1>2. PICK done, rest : Upto(done, rest)
  BY <1>1 DEF ParseInv
<1>3. document \in Document /\ Len(data) \in Nat
  BY <1>1, DataIs
<1>4. PICK what, f, tl, fl : ReadAhead(done, what, f, tl, fl)
  BY <1>1, <1>2, <1>3, ReadIsNext
<1>5. /\ NextField(document, done, f, fl) /\ pos = Len(BytesOf(done)) /\ pos \in Nat
      /\ NoDefects(document, done, Len(data))
      /\ Head(plan)[1] = what /\ Head(plan)[2] = f.width /\ Tail(plan) = tl
  BY <1>4 DEF ReadAhead
<1>6. PICK n, length, owed : n = f.width /\ length = Len(data) /\ owed = FieldDefect(f, Len(BytesOf(done)), length)
  OBVIOUS
<1>7. f.width \in Nat /\ f \in Fields
  BY <1>4 DEF ReadAhead, Fields
<1>8. IsFile'
  BY <1>1, SameDocument
<1>9. owed # <<>> => FirstDefect(document, length) = owed
  BY <1>3, <1>5, <1>6, FirstIs
<1>10. ASSUME parsed' = owed, owed # <<>>, owed # <<"ok">>
       PROVE  ParseInv'
  <2>1. parsed' # <<>> /\ parsed' # <<"ok">> /\ parsed' = FirstDefect(document, length)
    BY <1>9, <1>10
  <2>2. ParseInvertsWrite'
    BY <2>1 DEF ParseInvertsWrite
  <2>3. FirstDefect(document', Len(data')) = FirstDefect(document, length)
    BY <1>1, <1>6
  <2>4. FirstDefectDecides'
    BY <2>1, <2>3 DEF FirstDefectDecides
  <2>5. QED
    BY <1>8, <2>1, <2>2, <2>4 DEF ParseInv
<1>11. CASE ~Fits(n)
  <2>1. parsed' = <<"UnexpectedEof", pos>>
    BY <1>5, <1>6, <1>11 DEF Read
  <2>2. pos + n > length
    BY <1>3, <1>5, <1>6, <1>7, <1>11 DEF Fits
  <2>3. owed = <<"UnexpectedEof", pos>>
    BY <1>5, <1>6, <2>2 DEF FieldDefect
  <2>4. owed # <<>> /\ owed # <<"ok">>
    BY <2>3
  <2>5. QED
    BY <1>10, <2>1, <2>3, <2>4
<1>12. CASE Fits(n)
  <2>1. PICK v : v = f.value
    OBVIOUS
  <2>2. InStep(n) /\ Ahead(n) = v
    BY <1>1, <1>4, <1>6, <1>12, <2>1, ReadReturns
  <2>3. PICK r : r = Rejects(what, v)
    OBVIOUS
  <2>4. r = owed /\ r # <<"ok">> /\ (r = <<>> => f.error = <<>>)
    BY <1>3, <1>4, <1>6, <1>12, <2>1, <2>3, ErrorIsOwed
  <2>5. /\ pos' = pos + n /\ parsed' = r
        /\ plan' = IF r = <<>> THEN Then(what, v) ELSE plan
        /\ vals' = Kept(what, v, vals)
        /\ gguf' = Versioned(what, v, gguf)
    BY <1>5, <1>6, <1>12, <2>2, <2>3 DEF Read, Kept, Versioned
  <2>6. CASE r # <<>>
    BY <1>10, <2>4, <2>5, <2>6
  <2>7. CASE r = <<>>
    <3>1. f.error = <<>>
      BY <2>4, <2>7
    <3>2. plan' = Onward(what, v, tl, vals)
      BY <1>5, <2>5, <2>7 DEF Then, Onward
    <3>3. Control(document, Onward(what, v, tl, vals), fl, Kept(what, v, vals), Versioned(what, v, gguf))
      BY <1>4, <2>1, <3>1 DEF ReadAhead
    <3>4. Control(document', plan', fl, vals', gguf')
      BY <1>1, <2>5, <3>2, <3>3
    <3>5. PICK d1 : d1 = done \o <<f>>
      OBVIOUS
    <3>6. /\ d1 \in Seq(Fields) /\ Written(document) = d1 \o fl
          /\ Len(BytesOf(d1)) = Len(BytesOf(done)) + f.width
          /\ NoDefects(document, d1, length)
      <4>1. FieldDefect(f, Len(BytesOf(done)), length) = <<>>
        BY <1>6, <2>4, <2>7
      <4>2. NoDefects(document, done, length) /\ NextField(document, done, f, fl)
        BY <1>5, <1>6
      <4>3. /\ done \o <<f>> \in Seq(Fields) /\ Written(document) = (done \o <<f>>) \o fl
            /\ Len(BytesOf(done \o <<f>>)) = Len(BytesOf(done)) + f.width
            /\ NoDefects(document, done \o <<f>>, length)
        BY <1>3, <4>1, <4>2, FieldPasses
      <4>4. QED
        BY <3>5, <4>3
    <3>7. fl \in Seq(Fields)
      BY <1>5 DEF NextField
    <3>8. pos' = Len(BytesOf(d1)) /\ pos' <= length
      <4>1. pos' = Len(BytesOf(d1))
        BY <1>5, <1>6, <2>5, <3>6
      <4>2. length - pos >= n
        BY <1>6, <1>12 DEF Fits
      <4>3. QED
        BY <1>3, <1>5, <1>6, <1>7, <2>5, <4>1, <4>2
    <3>9. Upto(d1, fl)'
      <4>1. /\ Written(document') = d1 \o fl /\ pos' <= Len(data')
            /\ NoDefects(document', d1, Len(data'))
        BY <1>1, <1>6, <3>6, <3>8
      <4>2. QED
        BY <3>4, <3>6, <3>7, <3>8, <4>1 DEF Upto
    <3>10. ParseInvertsWrite' /\ FirstDefectDecides'
      BY <2>5, <2>7 DEF ParseInvertsWrite, FirstDefectDecides
    <3>11. QED
      BY <1>8, <3>9, <3>10 DEF ParseInv
  <2>8. QED
    BY <2>6, <2>7
<1>13. QED
  BY <1>11, <1>12

(* Insert and Push: nothing is read, and what is gathered grows.           *)
LEMMA GatherKeeps ==
  ASSUME ParseInv, NEW rest, NEW done, Upto(done, rest), UNCHANGED <<document, data, pos, parsed>>,
         parsed = <<>>, Control(document, plan', rest, vals', gguf')
  PROVE  ParseInv'
<1>1. Upto(done, rest)'
  <2>1. Control(document', plan', rest, vals', gguf')
    OBVIOUS
  <2>2. /\ done \in Seq(Fields) /\ rest \in Seq(Fields) /\ Written(document') = done \o rest
        /\ pos' = Len(BytesOf(done)) /\ pos' <= Len(data') /\ NoDefects(document', done, Len(data'))
    BY DEF Upto
  <2>3. QED
    BY <2>1, <2>2 DEF Upto
<1>2. ParseInvertsWrite' /\ FirstDefectDecides'
  BY DEF ParseInvertsWrite, FirstDefectDecides
<1>3. IsFile'
  BY SameDocument DEF ParseInv
<1>4. QED
  BY <1>1, <1>2, <1>3 DEF ParseInv

LEMMA InsertKeeps ==
  ASSUME ParseInv, Insert
  PROVE  ParseInv'
<1>1. /\ IsFile /\ parsed = <<>> /\ plan # <<>> /\ Head(plan)[1] = "insert"
      /\ gguf' = Inserted(gguf, vals) /\ vals' = <<>> /\ plan' = Tail(plan)
      /\ UNCHANGED <<document, data, pos, parsed>>
  BY DEF ParseInv, Insert, Inserted
<1>2. PICK done, rest : Upto(done, rest)
  BY <1>1 DEF ParseInv
<1>3. document \in Document
  BY <1>1, DataIs
<1>4. Control(document, plan, rest, vals, gguf)
  BY <1>2 DEF Upto
<1>5. Moves(document, plan, rest, vals, gguf) \/ AtFinish(document, plan, rest, vals, gguf)
  BY <1>3, <1>4, DocumentStep
<1>9. Inserts(document, plan, rest, vals, gguf)
  BY <1>1, <1>5, MoveHeads DEF Moves
<1>10. PICK tl \in Seq(Plans) :
         plan = InsertStep \o tl /\ Control(document, tl, rest, <<>>, Inserted(gguf, vals))
  BY <1>9 DEF Inserts
<1>11. Tail(plan) = tl
  BY <1>10, GatherTails
<1>12. Control(document, plan', rest, vals', gguf')
  BY <1>1, <1>10, <1>11
<1>13. QED
  BY <1>1, <1>2, <1>12, GatherKeeps

LEMMA PushKeeps ==
  ASSUME ParseInv, Push
  PROVE  ParseInv'
<1>1. /\ IsFile /\ parsed = <<>> /\ plan # <<>> /\ Head(plan)[1] = "push"
      /\ gguf' = Pushed(gguf, vals) /\ vals' = <<>> /\ plan' = Tail(plan)
      /\ UNCHANGED <<document, data, pos, parsed>>
  BY DEF ParseInv, Push, Pushed
<1>2. PICK done, rest : Upto(done, rest)
  BY <1>1 DEF ParseInv
<1>3. document \in Document
  BY <1>1, DataIs
<1>4. Control(document, plan, rest, vals, gguf)
  BY <1>2 DEF Upto
<1>5. Moves(document, plan, rest, vals, gguf) \/ AtFinish(document, plan, rest, vals, gguf)
  BY <1>3, <1>4, DocumentStep
<1>9. Pushes(document, plan, rest, vals, gguf)
  BY <1>1, <1>5, MoveHeads DEF Moves
<1>10. PICK tl \in Seq(Plans) :
         plan = PushStep \o tl /\ Control(document, tl, rest, <<>>, Pushed(gguf, vals))
  BY <1>9 DEF Pushes
<1>11. Tail(plan) = tl
  BY <1>10, GatherTails
<1>12. Control(document, plan', rest, vals', gguf')
  BY <1>1, <1>10, <1>11
<1>13. QED
  BY <1>1, <1>2, <1>12, GatherKeeps

(* Finish: everything has been read, and nothing is missing.               *)
LEMMA AllGathered ==
  ASSUME NEW d \in Document, NEW g, g = Gathered(d, d.version, EntryCount(d), TensorCount(d)), NEW h,
         h = [g EXCEPT !.data_offset = DataStart(d)]
  PROVE  /\ h.version = d.version
         /\ h.metadata = {<<d.metadata[k].key, Content(d.metadata[k].value)>> : k \in Latest(d)}
         /\ h.tensors = [k \in DOMAIN d.tensors |->
                           LET t == d.tensors[k]
                           IN  <<t.name, Len(t.dims)>> \o t.dims \o <<t.type, t.offset>>]
         /\ h.data_offset = DataStart(d)
<1>1. PICK m, t, z, o : /\ m = MapUpto(d, EntryCount(d)) /\ t = TensorsUpto(d, TensorCount(d))
                        /\ z = d.version /\ o = DataStart(d)
  OBVIOUS
<1>2. g = [version |-> z, metadata |-> m, tensors |-> t, data_offset |-> 0]
  BY <1>1 DEF Gathered
<1>3. h = [version |-> z, metadata |-> m, tensors |-> t, data_offset |-> o]
  BY <1>1, <1>2
<1>4. h.version = z /\ h.metadata = m /\ h.tensors = t /\ h.data_offset = o
  BY <1>3
<1>5. DOMAIN d.metadata = 1 .. EntryCount(d) /\ DOMAIN d.tensors = 1 .. TensorCount(d)
  BY DocumentTypes
<1>6. LatestUpto(d, EntryCount(d)) = Latest(d)
  BY <1>5 DEF LatestUpto, Latest, EntryCount
<1>7. m = {<<d.metadata[k].key, Content(d.metadata[k].value)>> : k \in Latest(d)}
  BY <1>1, <1>6 DEF MapUpto
<1>8. t = [k \in DOMAIN d.tensors |-> Listed(d.tensors[k])]
  BY <1>1, <1>5 DEF TensorsUpto
<1>9. [k \in DOMAIN d.tensors |-> Listed(d.tensors[k])] =
        [k \in DOMAIN d.tensors |->
           LET x == d.tensors[k] IN  <<x.name, Len(x.dims)>> \o x.dims \o <<x.type, x.offset>>]
  BY DEF Listed
<1>10. QED
  BY <1>1, <1>4, <1>7, <1>8, <1>9

LEMMA FinishKeeps ==
  ASSUME ParseInv, Finish
  PROVE  ParseInv'
<1>1. /\ IsFile /\ parsed = <<>> /\ plan = <<>>
      /\ gguf' = [gguf EXCEPT !.data_offset = AlignTo(pos, ALIGNMENT)] /\ parsed' = <<"ok">>
      /\ document' = document /\ data' = data
  BY DEF ParseInv, Finish
<1>2. PICK done, rest : Upto(done, rest)
  BY <1>1 DEF ParseInv
<1>3. document \in Document
  BY <1>1, DataIs
<1>4. /\ done \in Seq(Fields) /\ rest \in Seq(Fields) /\ Written(document) = done \o rest
      /\ pos = Len(BytesOf(done)) /\ NoDefects(document, done, Len(data))
      /\ Control(document, plan, rest, vals, gguf)
  BY <1>2 DEF Upto
<1>5. AtFinish(document, plan, rest, vals, gguf)
  <2>1. Moves(document, plan, rest, vals, gguf) \/ AtFinish(document, plan, rest, vals, gguf)
    BY <1>3, <1>4, DocumentStep
  <2>2. ~Moves(document, plan, rest, vals, gguf)
    BY <1>1, MovesHasPlan
  <2>3. QED
    BY <2>1, <2>2
<1>6. rest = <<>> /\ gguf = Gathered(document, document.version, EntryCount(document), TensorCount(document))
  BY <1>5 DEF AtFinish
<1>7. Written(document) = done
  BY <1>4, <1>6, ConcatEmptySeq
<1>8. AlignTo(pos, ALIGNMENT) = DataStart(document)
  <2>1. Header(document) = BytesOf(done)
    BY <1>7 DEF Header
  <2>2. Len(Header(document)) = pos
    BY <1>4, <2>1
  <2>3. QED
    BY <1>3, <2>2, DataStartIs
<1>9. PICK d, g, h : d = document /\ g = gguf /\ h = gguf'
  OBVIOUS
<1>10. /\ h.version = d.version
       /\ h.metadata = {<<d.metadata[k].key, Content(d.metadata[k].value)>> : k \in Latest(d)}
       /\ h.tensors = [k \in DOMAIN d.tensors |->
                         LET t == d.tensors[k]
                         IN  <<t.name, Len(t.dims)>> \o t.dims \o <<t.type, t.offset>>]
       /\ h.data_offset = DataStart(d)
  <2>1. d \in Document /\ g = Gathered(d, d.version, EntryCount(d), TensorCount(d))
    BY <1>3, <1>6, <1>9
  <2>2. h = [g EXCEPT !.data_offset = DataStart(d)]
    BY <1>1, <1>8, <1>9
  <2>3. QED
    BY <2>1, <2>2, AllGathered
<1>11. ParseInvertsWrite'
  <2>1. document' = d /\ gguf' = h
    BY <1>1, <1>9
  <2>2. QED
    BY <1>10, <2>1 DEF ParseInvertsWrite
<1>12. FirstDefect(document, Len(data)) = <<"ok">>
  BY <1>3, <1>4, <1>7, NoneIs
<1>13. FirstDefectDecides'
  BY <1>1, <1>12 DEF FirstDefectDecides
<1>14. IsFile'
  BY <1>1, SameDocument
<1>15. parsed' # <<>>
  BY <1>1
<1>16. QED
  BY <1>11, <1>13, <1>14, <1>15 DEF ParseInv

LEMMA ParseKeeps == ParseInv /\ [ParseNext]_parseVars => ParseInv'
<1> SUFFICES ASSUME ParseInv, [ParseNext]_parseVars  PROVE ParseInv'
  OBVIOUS
<1>1. CASE Read
  BY <1>1, ReadKeeps
<1>2. CASE Insert
  BY <1>2, InsertKeeps
<1>3. CASE Push
  BY <1>3, PushKeeps
<1>4. CASE Finish
  BY <1>4, FinishKeeps
<1>5. CASE UNCHANGED parseVars
  BY <1>5 DEF parseVars, ParseInv, IsFile, Upto, ParseInvertsWrite, FirstDefectDecides
<1>6. QED
  BY <1>1, <1>2, <1>3, <1>4, <1>5 DEF ParseNext

(* What the parser has read is the beginning of what was written, without  *)
(* a defect, and what it expects next is what was written next, whatever   *)
(* the document and wherever the file is cut off.                          *)
THEOREM ParseInductive == ParseSpec => []ParseInv
<1>1. ParseInit => ParseInv
  BY ParseStarts
<1>2. ParseInv /\ [ParseNext]_parseVars => ParseInv'
  BY ParseKeeps
<1>3. QED
  BY <1>1, <1>2, PTL DEF ParseSpec

(* A successful parse returns what was written: the entries, the last of a *)
(* repeated key, the tensors in their order and the offset of their data.  *)
THEOREM ParseReturnsTheDocument == ParseSpec => []ParseInvertsWrite
<1>1. ParseInv => ParseInvertsWrite
  BY DEF ParseInv
<1>2. QED
  BY <1>1, ParseInductive, PTL

(* A file that is cut off or has something the reader does not support is  *)
(* refused for the first such field, at its offset, and no other is.       *)
THEOREM ParseRefusesTheFirstDefect == ParseSpec => []FirstDefectDecides
<1>1. ParseInv => FirstDefectDecides
  BY DEF ParseInv
<1>2. QED
  BY <1>1, ParseInductive, PTL
=============================================================================
