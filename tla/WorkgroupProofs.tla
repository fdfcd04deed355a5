--------------------------- MODULE WorkgroupProofs ---------------------------
(***************************************************************************)
(* Proofs about Workgroup, for every number of lanes that is a power of    *)
(* two, every slice and every number of rounds.                            *)
(***************************************************************************)
EXTENDS WorkgroupInv, TLAPS

-----------------------------------------------------------------------------
(* Residues.                                                               *)

LEMMA ModRange ==
  ASSUME NEW d \in Nat, NEW m \in Nat \ {0}
  PROVE  /\ d % m \in 0..(m - 1) /\ d \div m \in Nat
         /\ d = m * (d \div m) + (d % m)
  OBVIOUS

LEMMA Multiples ==
  ASSUME NEW m \in Nat \ {0}, NEW k \in Int, NEW q \in Int, k < q
  PROVE  m * k + m <= m * q
<1>1. k + 1 <= q
  OBVIOUS
<1>2. m * (k + 1) <= m * q
  BY <1>1
<1>3. QED
  BY <1>2

LEMMA ModUnique ==
  ASSUME NEW m \in Nat \ {0}, NEW q \in Nat, NEW r \in 0..(m - 1)
  PROVE  (m * q + r) % m = r
<1> DEFINE d == m * q + r
           k == d \div m
           s == d % m
<1>1. d \in Nat
  OBVIOUS
<1>2. k \in Nat /\ s \in 0..(m - 1) /\ d = m * k + s
  BY <1>1, ModRange
<1>3. k < q => m * k + m <= m * q
  BY <1>2, Multiples
<1>4. q < k => m * q + m <= m * k
  BY <1>2, Multiples
<1>5. m * q + r = m * k + s
  BY <1>2
<1> HIDE DEF d, k, s
<1>6. m * k \in Int /\ m * q \in Int
  BY <1>2
<1>7. k = q
  BY <1>2, <1>3, <1>4, <1>5, <1>6
<1>8. r = s
  BY <1>2, <1>5, <1>6, <1>7
<1>9. QED
  BY <1>8 DEF s, d

(* What a step of a reduction at stride s combines.                        *)
LEMMA ModHalves ==
  ASSUME NEW d \in Nat, NEW s \in Nat \ {0}, NEW l \in 0..(s - 1)
  PROVE  d % s = l <=> d % (2 * s) = l \/ d % (2 * s) = l + s
<1> DEFINE k == d \div (2 * s)
           r == d % (2 * s)
<1>0. 2 * s \in Nat \ {0}
  OBVIOUS
<1>1. k \in Nat /\ r \in 0..(2 * s - 1) /\ d = (2 * s) * k + r
  BY <1>0, ModRange
<1>2. (2 * s) * k = s * (2 * k) /\ s * (2 * k + 1) = s * (2 * k) + s
  BY <1>1
<1> HIDE DEF k, r
<1>3. CASE r < s
  <2>1. d = s * (2 * k) + r /\ r \in 0..(s - 1) /\ 2 * k \in Nat
    BY <1>1, <1>2, <1>3
  <2>2. d % s = r
    BY <2>1, ModUnique
  <2>3. QED
    BY <1>1, <1>3, <2>2 DEF r
<1>4. CASE r >= s
  <2>1. d = s * (2 * k + 1) + (r - s) /\ r - s \in 0..(s - 1) /\ 2 * k + 1 \in Nat
    BY <1>1, <1>2, <1>4
  <2>2. d % s = r - s
    BY <2>1, ModUnique
  <2>3. QED
    BY <1>1, <1>4, <2>2 DEF r
<1>5. QED
  BY <1>1, <1>3, <1>4

-----------------------------------------------------------------------------
(* The workgroup: lanes, strides and slices.                               *)

LEMMA LaneFacts ==
  ASSUME Launch
  PROVE  /\ nlanes \in Nat /\ nlanes > 2 /\ n \in Nat /\ rounds \in Nat \ {0}
         /\ Strides \in SUBSET (1..nlanes) /\ nlanes \in Strides /\ Chain(Strides)
         /\ Half \in Nat /\ 2 * Half <= n /\ (kernel # "norm_rope" => Half = 0)
         /\ LastStride \in {1, 2} /\ Lane \subseteq Nat /\ Elem \subseteq Nat
         /\ 0 \in Lane /\ 1 \in Lane
<1>1. /\ nlanes \in Nat /\ nlanes > 2
      /\ \E S \in SUBSET (1..nlanes) : nlanes \in S /\ Chain(S)
  BY LanesAssumption DEF Launch
<1>2. Strides \in SUBSET (1..nlanes) /\ nlanes \in Strides /\ Chain(Strides)
  BY <1>1 DEF Strides
<1>3. n \in Nat /\ rounds \in Nat \ {0} /\ n_rot \in Nat /\ n_rot <= n
  BY SizesAssumption DEF Launch
<1>4. Half \in Nat /\ 2 * Half <= n_rot
  BY <1>3 DEF Half
<1>5. kernel # "norm_rope" => Half = 0
  BY DEF Launch, Half
<1>6. LastStride \in {1, 2}
  BY DEF LastStride
<1>7. QED
  BY <1>1, <1>2, <1>3, <1>4, <1>5, <1>6 DEF Lane, Elem

(* The stride before the last is twice a stride, the first is half of all. *)
LEMMA StrideHalves ==
  ASSUME Launch, NEW s \in Strides, s >= 2
  PROVE  s \div 2 \in Strides /\ s = 2 * (s \div 2)
<1>1. s \in Nat /\ \A h \in Strides : h \in Nat
  BY LaneFacts
<1>2. PICK h \in Strides : s = 2 * h
  BY <1>1, LaneFacts DEF Chain
<1>3. s \div 2 = h
  BY <1>1, <1>2
<1>4. QED
  BY <1>2, <1>3

LEMMA FirstStride ==
  ASSUME Launch
  PROVE  /\ nlanes \div 2 \in Strides /\ nlanes = 2 * (nlanes \div 2)
         /\ nlanes \div 2 >= 2 /\ nlanes \div 2 \in 0..nlanes
<1>1. nlanes \div 2 \in Strides /\ nlanes = 2 * (nlanes \div 2)
  BY LaneFacts, StrideHalves
<1>2. QED
  BY <1>1, LaneFacts

(* Every element is in the slice of one lane, be it strided or blocked.    *)
LEMMA SliceOf ==
  ASSUME Launch, NEW d \in Elem
  PROVE  /\ d % nlanes \in Lane /\ d \in Strided(d % nlanes)
         /\ (d \div Block) % nlanes \in Lane /\ d \in Blocked((d \div Block) % nlanes)
<1>1. d \in Nat /\ nlanes \in Nat \ {0}
  BY LaneFacts
<1>2. d \div Block \in Nat
  BY <1>1, SizesAssumption, ModRange
<1>3. d % nlanes \in Lane /\ (d \div Block) % nlanes \in Lane
  BY <1>1, <1>2, ModRange DEF Lane
<1>4. QED
  BY <1>3 DEF Strided, Blocked

(* The elements rotated by a lane are its pairs and their partners.        *)
LEMMA RotatedSlices ==
  ASSUME Launch, NEW l \in Lane
  PROVE  /\ Rotated(l) = {d \in 0..(2 * Half - 1) : (d % Half) % nlanes = l}
         /\ Rotated(l) \subseteq Elem
         /\ \A d \in Rotated(l) :
              LET p == d % Half
              IN p \in Rotated(l) /\ p + Half \in Rotated(l)
<1>1. Half \in Nat /\ 2 * Half <= n /\ n \in Nat
  BY LaneFacts
<1>2. CASE Half = 0
  BY <1>1, <1>2 DEF Rotated, Pairs, Elem
<1>3. CASE Half # 0
  <2>1. ASSUME NEW p \in 0..(Half - 1)
        PROVE  p % Half = p /\ (p + Half) % Half = p
    <3>1. Half * 0 + p = p /\ Half * 1 + p = p + Half
      BY <1>1
    <3>2. (Half * 0 + p) % Half = p /\ (Half * 1 + p) % Half = p
      BY <1>1, <1>3, ModUnique
    <3>3. QED
      BY <3>1, <3>2
  <2>2. ASSUME NEW d \in 0..(2 * Half - 1)
        PROVE  \/ d \in 0..(Half - 1) /\ d % Half = d
               \/ d - Half \in 0..(Half - 1) /\ d % Half = d - Half
    <3>1. CASE d < Half
      BY <1>1, <2>1, <3>1
    <3>2. CASE d >= Half
      <4>1. d - Half \in 0..(Half - 1) /\ (d - Half) + Half = d
        BY <1>1, <3>2
      <4>2. QED
        BY <2>1, <4>1
    <3>3. QED
      BY <1>1, <3>1, <3>2
  <2>3. Rotated(l) = {d \in 0..(2 * Half - 1) : (d % Half) % nlanes = l}
    <3>1. ASSUME NEW d \in Rotated(l)
          PROVE  d \in 0..(2 * Half - 1) /\ (d % Half) % nlanes = l
      <4>1. PICK p \in 0..(Half - 1) : p % nlanes = l /\ (d = p \/ d = p + Half)
        BY DEF Rotated, Pairs
      <4>2. QED
        BY <1>1, <2>1, <4>1
    <3>2. ASSUME NEW d \in 0..(2 * Half - 1), (d % Half) % nlanes = l
          PROVE  d \in Rotated(l)
      <4>1. CASE d \in 0..(Half - 1) /\ d % Half = d
        BY <3>2, <4>1 DEF Rotated, Pairs
      <4>2. CASE d - Half \in 0..(Half - 1) /\ d % Half = d - Half
        <5>1. d - Half \in Pairs(l) /\ d = (d - Half) + Half
          BY <1>1, <3>2, <4>2 DEF Pairs
        <5>2. QED
          BY <5>1 DEF Rotated
      <4>3. QED
        BY <2>2, <4>1, <4>2
    <3>3. QED
      BY <3>1, <3>2
  <2>4. ASSUME NEW d \in Rotated(l), NEW p, p = d % Half
        PROVE  p \in Rotated(l) /\ p + Half \in Rotated(l)
    <3>1. d \in 0..(2 * Half - 1) /\ p % nlanes = l
      BY <2>3, <2>4
    <3>2. p \in 0..(Half - 1)
      BY <2>2, <2>4, <3>1
    <3>3. p \in Pairs(l)
      BY <3>1, <3>2 DEF Pairs
    <3>4. QED
      BY <3>3 DEF Rotated
  <2>5. 0..(2 * Half - 1) \subseteq Elem
    BY <1>1 DEF Elem
  <2>6. QED
    BY <2>3, <2>4, <2>5
<1>4. QED
  BY <1>2, <1>3

LEMMA PairOf ==
  ASSUME Launch, NEW d \in 0..(2 * Half - 1)
  PROVE  (d % Half) % nlanes \in Lane /\ d \in Rotated((d % Half) % nlanes)
<1>1. Half \in Nat \ {0} /\ d \in Nat /\ nlanes \in Nat \ {0}
  BY LaneFacts
<1>2. d % Half \in Nat
  BY <1>1, ModRange
<1>3. (d % Half) % nlanes \in Lane
  BY <1>1, <1>2, ModRange DEF Lane
<1>4. QED
  BY <1>3, RotatedSlices

(* The lanes whose bytes a word packs are lanes.                           *)
LEMMA WordLanes ==
  ASSUME Launch, NEW l \in 0..(nlanes \div Pack - 1)
  PROVE  Word(l) \subseteq Lane /\ Word(l) # {} /\ l \in Lane
<1> DEFINE w == nlanes \div Pack
<1>1. nlanes \in Nat /\ Pack \in Nat \ {0}
  BY LaneFacts, BatchAssumption
<1>2. w \in Nat /\ nlanes = Pack * w + (nlanes % Pack) /\ nlanes % Pack \in Nat
  BY <1>1, ModRange
<1>3. l \in Int /\ l >= 0 /\ l < w
  BY <1>1, <1>2
<1>4. Pack * l + Pack <= Pack * w /\ Pack * l \in Nat /\ Pack * w \in Nat
  BY <1>1, <1>2, <1>3, Multiples
<1>5. l * Pack = Pack * l
  BY <1>1, <1>3
<1>6. l <= Pack * l
  BY <1>1, <1>3
<1> HIDE DEF w
<1>7. \A i \in 0..(Pack - 1) : l * Pack + i \in Lane
  BY <1>1, <1>2, <1>4, <1>5 DEF Lane
<1>8. l * Pack + 0 \in Word(l)
  BY <1>1 DEF Word
<1>9. l \in Lane
  BY <1>1, <1>2, <1>3, <1>4, <1>6 DEF Lane
<1>10. QED
  BY <1>7, <1>8, <1>9 DEF Word

-----------------------------------------------------------------------------
(* The segments of a kernel, in order.                                     *)

LEMMA BodyOf ==
  ASSUME Launch, NEW r
  PROVE  LET body == Body(r) IN
         /\ kernel = "norm" =>
              /\ Len(body) = 4
              /\ body[1] = "fill" /\ body[2] = "reduce" /\ body[3] = "total"
              /\ body[4] = "write"
         /\ kernel = "norm_rope" =>
              /\ Len(body) = 5
              /\ body[1] = "fill" /\ body[2] = "reduce" /\ body[3] = "total"
              /\ body[4] = "write" /\ body[5] = "rope"
         /\ kernel = "softmax" /\ r = 1 =>
              /\ Len(body) = 3
              /\ body[1] = "fill" /\ body[2] = "reduce" /\ body[3] = "total"
         /\ kernel = "softmax" /\ r # 1 =>
              /\ Len(body) = 3
              /\ body[1] = "fill" /\ body[2] = "reduce" /\ body[3] = "result"
         /\ kernel = "kv_write" =>
              /\ Len(body) = 5
              /\ body[1] = "fill" /\ body[2] = "reduce" /\ body[3] = "total"
              /\ body[4] = "stage" /\ body[5] = "pack"
         /\ kernel = "matmul" =>
              /\ Len(body) = 3
              /\ body[1] = "fill" /\ body[2] = "reduce" /\ body[3] = "result"
         /\ kernel = "coop" /\ r = 1 =>
              /\ Len(body) = 4
              /\ body[1] = "prepare" /\ body[2] = "fill" /\ body[3] = "reduce"
              /\ body[4] = "result"
         /\ kernel = "coop" /\ r # 1 =>
              /\ Len(body) = 3
              /\ body[1] = "fill" /\ body[2] = "reduce" /\ body[3] = "result"
  BY DEF Body

(* Which segments a lane of which kernel can be in.                        *)
LEMMA Segments ==
  ASSUME Launch, NEW a \in Place
  PROVE  /\ Phase(a) = "prepare" => kernel = "coop" /\ a.round = 1 /\ a.seg = 1
         /\ Phase(a) = "total" => kernel \in {"norm", "norm_rope", "softmax", "kv_write"}
                                  /\ a.seg = 3 /\ (kernel = "softmax" => a.round = 1)
         /\ Phase(a) = "write" => kernel \in {"norm", "norm_rope"} /\ a.seg = 4
         /\ Phase(a) = "rope"  => kernel = "norm_rope" /\ a.seg = 5
         /\ Phase(a) = "stage" => kernel = "kv_write" /\ a.seg = 4
         /\ Phase(a) = "pack"  => kernel = "kv_write" /\ a.seg = 5
         /\ Phase(a) = "result" => \/ kernel = "softmax" /\ a.round = 2
                                   \/ Matmul
         /\ Phase(a) \in {"prepare", "fill", "reduce", "total", "write", "rope",
                          "stage", "pack", "result", "done"}
         /\ a.round \in 1..rounds /\ a.seg \in 0..5 /\ a.stride \in 0..nlanes
         /\ (Phase(a) = "done" <=> a.seg = 0)
<1>1. /\ a.round \in 1..rounds /\ a.seg \in 0..5 /\ a.stride \in 0..nlanes
      /\ a.seg <= Len(Body(a.round))
  BY DEF Place
<1>2. /\ kernel \in Kernels /\ rounds \in Nat /\ (kernel = "softmax" => rounds = 2)
  BY DEF Launch
<1>3. CASE kernel \in {"norm", "norm_rope", "kv_write"}
  BY <1>1, <1>3, BodyOf DEF Phase, Matmul
<1>4. CASE kernel = "softmax"
  BY <1>1, <1>2, <1>4, BodyOf DEF Phase, Matmul
<1>5. CASE kernel \in {"matmul", "coop"}
  BY <1>1, <1>2, <1>5, BodyOf DEF Phase, Matmul
<1>6. QED
  BY <1>2, <1>3, <1>4, <1>5 DEF Kernels

(* The last segment before the reduction is over, and the one behind it.   *)
Reduced(a) == a.stride \div 2 < LastStride

LEMMA AfterReduce ==
  ASSUME Launch, NEW a \in Place, Phase(a) = "reduce"
  PROVE  /\ a.stride \in Strides /\ a.stride \in Nat \ {0}
         /\ a.stride >= LastStride /\ 2 * a.stride <= nlanes
         /\ ~Reduced(a) => /\ After(a) = [a EXCEPT !.stride = @ \div 2]
                           /\ Phase(After(a)) = "reduce" /\ After(a) \in Place
                           /\ After(a).round = a.round
                           /\ a.stride = 2 * After(a).stride
         /\ Reduced(a)  => /\ a.stride = LastStride
                           /\ After(a) = [a EXCEPT !.seg = @ + 1, !.stride = nlanes \div 2]
<1>1. /\ a \in [seg : 0..5, round : 1..rounds, stride : 0..nlanes]
      /\ a.stride \in Strides /\ a.stride >= LastStride /\ 2 * a.stride <= nlanes
      /\ a.seg <= Len(Body(a.round))
  BY DEF Place
<1>2. nlanes \in Nat /\ Strides \in SUBSET (1..nlanes) /\ LastStride \in {1, 2}
  BY LaneFacts
<1>3. a.stride \in Nat \ {0}
  BY <1>1, <1>2
<1>4. a.stride >= 2 => a.stride \div 2 \in Strides /\ a.stride = 2 * (a.stride \div 2)
  BY <1>1, StrideHalves
<1>5. ASSUME ~Reduced(a)
      PROVE  /\ After(a) = [a EXCEPT !.stride = @ \div 2]
             /\ Phase(After(a)) = "reduce" /\ After(a) \in Place
             /\ After(a).round = a.round /\ a.stride = 2 * After(a).stride
  <2>1. a.stride \div 2 >= LastStride /\ a.stride >= 2
    BY <1>2, <1>3, <1>5 DEF Reduced
  <2>2. After(a) = [a EXCEPT !.stride = @ \div 2]
    BY <2>1 DEF After
  <2> DEFINE b == After(a)
  <2>3. b.seg = a.seg /\ b.round = a.round /\ b.stride = a.stride \div 2
    BY <1>1, <2>2
  <2>4. Phase(b) = "reduce"
    BY <2>3 DEF Phase
  <2> HIDE DEF b
  <2>5. b.stride \in Strides /\ a.stride = 2 * b.stride /\ b.stride \in 0..nlanes
    <3>1. b.stride \in Strides /\ a.stride = 2 * b.stride
      BY <1>4, <2>1, <2>3
    <3>2. b.stride \in 1..nlanes
      BY <1>2, <3>1
    <3>3. QED
      BY <1>2, <3>1, <3>2
  <2>6. b \in [seg : 0..5, round : 1..rounds, stride : 0..nlanes]
    BY <1>1, <2>2, <2>3, <2>5 DEF b
  <2>7. b \in Place
    BY <1>1, <1>2, <1>3, <2>1, <2>3, <2>4, <2>5, <2>6 DEF Place
  <2>8. QED
    BY <2>2, <2>3, <2>4, <2>5, <2>7 DEF b
<1>6. ASSUME Reduced(a)
      PROVE  /\ a.stride = LastStride
             /\ After(a) = [a EXCEPT !.seg = @ + 1, !.stride = nlanes \div 2]
  <2>1. a.stride = LastStride
    BY <1>1, <1>2, <1>3, <1>4, <1>6 DEF Reduced
  <2>2. a.seg < Len(Body(a.round))
    <3>1. kernel \in Kernels /\ (kernel = "softmax" => rounds = 2)
      BY DEF Launch
    <3>2. QED
      BY <1>1, <3>1, BodyOf DEF Phase, Kernels
  <2>3. ~(a.stride \div 2 >= LastStride)
    BY <1>2, <1>3, <1>6 DEF Reduced
  <2>4. QED
    BY <2>1, <2>2, <2>3 DEF After
<1>7. QED
  BY <1>1, <1>3, <1>5, <1>6

LEMMA AfterSegment ==
  ASSUME Launch, NEW a \in Place, Phase(a) # "done", Phase(a) = "reduce" => Reduced(a)
  PROVE  LET b == After(a) IN
         /\ b \in Place
         /\ Phase(a) = "prepare" => Phase(b) = "fill" /\ b.round = a.round
         /\ Phase(a) = "fill" => /\ Phase(b) = "reduce" /\ b.round = a.round
                                 /\ b.stride = nlanes \div 2
         /\ Phase(a) = "reduce" => /\ Phase(b) = IF Matmul \/ (kernel = "softmax" /\ a.round = 2)
                                                 THEN "result" ELSE "total"
                                   /\ b.round = a.round
         /\ Phase(a) = "total" =>
              /\ kernel \in {"norm", "norm_rope"} => Phase(b) = "write" /\ b.round = a.round
              /\ kernel = "softmax"  => Phase(b) = "fill" /\ b.round = 2
              /\ kernel = "kv_write" => Phase(b) = "stage" /\ b.round = a.round
         /\ Phase(a) = "write" => /\ Phase(b) = (IF kernel = "norm" THEN "done" ELSE "rope")
                                  /\ b.round = a.round
         /\ Phase(a) = "rope"  => Phase(b) = "done" /\ b.round = a.round
         /\ Phase(a) = "stage" => Phase(b) = "pack" /\ b.round = a.round
         /\ Phase(a) \in {"pack", "result"} =>
              IF a.round < rounds
              THEN Phase(b) = "fill" /\ b.round = a.round + 1
              ELSE Phase(b) = "done" /\ b.round = a.round
<1> DEFINE b == After(a)
<1>1. /\ a \in [seg : 0..5, round : 1..rounds, stride : 0..nlanes]
      /\ a.seg <= Len(Body(a.round)) /\ a.seg \in 1..5 /\ a.round \in 1..rounds
      /\ (Phase(a) = "done" => a.round = rounds)
  BY Segments DEF Place
<1>2. /\ kernel \in Kernels /\ rounds \in Nat /\ (kernel = "softmax" => rounds = 2)
      /\ (kernel = "kv_write" => rounds = 2)
      /\ (kernel \in {"norm", "norm_rope"} => rounds = 1)
  BY DEF Launch
<1>3. /\ nlanes \div 2 \in Strides /\ nlanes = 2 * (nlanes \div 2)
      /\ nlanes \div 2 >= 2 /\ nlanes \div 2 \in 0..nlanes /\ LastStride \in {1, 2}
  BY FirstStride, LaneFacts
<1>4. b = IF a.seg < Len(Body(a.round))
          THEN [a EXCEPT !.seg = @ + 1, !.stride = nlanes \div 2]
          ELSE IF a.round < rounds
          THEN [seg |-> 1, round |-> a.round + 1, stride |-> nlanes \div 2]
          ELSE [seg |-> 0, round |-> a.round, stride |-> 0]
  <2>1. ~(Phase(a) = "reduce" /\ a.stride \div 2 >= LastStride)
    <3>1. CASE Phase(a) = "reduce"
      <4>1. a.stride \in Nat /\ Reduced(a)
        BY <3>1, AfterReduce
      <4>2. QED
        BY <1>3, <4>1 DEF Reduced
    <3>2. QED
      BY <3>1
  <2>2. QED
    BY <2>1 DEF After
<1> DEFINE q == Len(Body(a.round))
<1>5. q \in 3..5 /\ Body(a.round)[q] # "reduce" /\ Body(a.round)[q] # "fill"
  BY <1>2, BodyOf DEF Kernels
<1>6. /\ b \in [seg : Int, round : Int, stride : Int]
      /\ b.seg    = IF a.seg < q THEN a.seg + 1 ELSE IF a.round < rounds THEN 1 ELSE 0
      /\ b.round  = IF ~(a.seg < q) /\ a.round < rounds THEN a.round + 1 ELSE a.round
      /\ b.stride = IF b.seg = 0 THEN 0 ELSE nlanes \div 2
  <2>1. /\ a \in [seg : Int, round : Int, stride : Int]
        /\ nlanes \div 2 \in Int /\ rounds \in Int
    BY <1>1, <1>2, <1>3, LaneFacts
  <2> HIDE DEF b, q
  <2>2. CASE a.seg < q
    <3>1. b = [a EXCEPT !.seg = @ + 1, !.stride = nlanes \div 2]
      BY <1>4, <2>2 DEF q
    <3>2. b.seg = a.seg + 1 /\ b.round = a.round /\ b.stride = nlanes \div 2
      BY <2>1, <3>1
    <3>3. b.seg # 0
      BY <1>1, <3>2
    <3>4. b \in [seg : Int, round : Int, stride : Int]
      <4>1. a = [seg |-> a.seg, round |-> a.round, stride |-> a.stride]
            /\ a.seg + 1 \in Int /\ a.round \in Int
        BY <2>1
      <4>2. b = [seg |-> a.seg + 1, round |-> a.round, stride |-> nlanes \div 2]
        BY <3>1, <4>1
      <4>3. QED
        BY <2>1, <4>1, <4>2
    <3>5. QED
      BY <2>2, <3>2, <3>3, <3>4
  <2>3. CASE ~(a.seg < q) /\ a.round < rounds
    BY <1>4, <2>1, <2>3 DEF q
  <2>4. CASE ~(a.seg < q) /\ ~(a.round < rounds)
    BY <1>4, <2>1, <2>4 DEF q
  <2>5. QED
    BY <2>2, <2>3, <2>4
<1> HIDE DEF b
<1>7. /\ b.seg \in 0..5 /\ b.round \in 1..rounds /\ b.stride \in 0..nlanes
      /\ b.seg = 0 => b.round = rounds
  <2> HIDE DEF q
  <2> QED  BY <1>1, <1>2, <1>3, <1>5, <1>6
<1>8. /\ Phase(a) = Body(a.round)[a.seg] /\ a.seg <= q
      /\ Phase(b) = IF b.seg = 0 THEN "done" ELSE Body(b.round)[b.seg]
  BY <1>1 DEF Phase
<1> DEFINE Moved ==
         /\ b.seg <= Len(Body(b.round)) /\ (Phase(b) = "done" => b.seg = 0)
         /\ Phase(a) = "prepare" => Phase(b) = "fill" /\ b.round = a.round
         /\ Phase(a) = "fill" => Phase(b) = "reduce" /\ b.round = a.round
         /\ Phase(b) = "reduce" => b.seg # 0
         /\ Phase(a) = "reduce" => /\ Phase(b) = IF Matmul \/ (kernel = "softmax" /\ a.round = 2)
                                                 THEN "result" ELSE "total"
                                   /\ b.round = a.round
         /\ Phase(a) = "total" =>
              /\ kernel \in {"norm", "norm_rope"} => Phase(b) = "write" /\ b.round = a.round
              /\ kernel = "softmax"  => Phase(b) = "fill" /\ b.round = 2
              /\ kernel = "kv_write" => Phase(b) = "stage" /\ b.round = a.round
         /\ Phase(a) = "write" => /\ Phase(b) = (IF kernel = "norm" THEN "done" ELSE "rope")
                                  /\ b.round = a.round
         /\ Phase(a) = "rope"  => Phase(b) = "done" /\ b.round = a.round
         /\ Phase(a) = "stage" => Phase(b) = "pack" /\ b.round = a.round
         /\ Phase(a) \in {"pack", "result"} =>
              IF a.round < rounds
              THEN Phase(b) = "fill" /\ b.round = a.round + 1
              ELSE Phase(b) = "done" /\ b.round = a.round
<1>9. Moved
  <2>1. /\ a.seg \in 1..5 /\ a.round \in Nat \ {0} /\ rounds \in Nat /\ a.round <= rounds
    BY <1>1, <1>2
  <2>2. CASE kernel = "norm"
    BY <1>2, <1>6, <1>8, <2>1, <2>2, BodyOf DEF Matmul
  <2>3. CASE kernel = "norm_rope"
    BY <1>2, <1>6, <1>8, <2>1, <2>3, BodyOf, SMTT(60) DEF Matmul
  <2>4. CASE kernel = "softmax"
    BY <1>2, <1>6, <1>8, <2>1, <2>4, BodyOf DEF Matmul
  <2>5. CASE kernel = "kv_write"
    BY <1>2, <1>6, <1>8, <2>1, <2>5, BodyOf DEF Matmul
  <2>6. CASE kernel = "matmul"
    BY <1>2, <1>6, <1>8, <2>1, <2>6, BodyOf DEF Matmul
  <2>7. CASE kernel = "coop"
    BY <1>2, <1>6, <1>8, <2>1, <2>7, BodyOf, SMTT(60) DEF Matmul
  <2>8. QED
    BY <1>2, <2>2, <2>3, <2>4, <2>5, <2>6, <2>7 DEF Kernels
<1>10. b \in Place
  <2>1. b \in [seg : 0..5, round : 1..rounds, stride : 0..nlanes]
    BY <1>6, <1>7
  <2>2. nlanes \in Nat
    BY LaneFacts
  <2>3. QED
    BY <1>3, <1>6, <1>7, <1>9, <2>1, <2>2 DEF Place
<1>11. QED
  BY <1>6, <1>9, <1>10 DEF b

-----------------------------------------------------------------------------
(* No step changes the launch, so what a place means stays the same.       *)

LEMMA SamePlaces ==
  ASSUME UNCHANGED launch
  PROVE  /\ \A a : /\ Phase(a)' = Phase(a) /\ After(a)' = After(a)
                   /\ Sync(a)' <=> Sync(a)
                   /\ Within(a)' = Within(a)
         /\ Place' = Place
<1>1. ASSUME NEW a  PROVE  Phase(a)' = Phase(a)
  BY DEF launch, Phase, Body
<1>2. ASSUME NEW r  PROVE  Body(r)' = Body(r)
  BY DEF launch, Body
<1>3. LastStride' = LastStride /\ Strides' = Strides
  BY DEF launch, LastStride, Matmul, Strides
<1>4. kernel' = kernel /\ nlanes' = nlanes /\ rounds' = rounds
  BY DEF launch
<1>5. ASSUME NEW a  PROVE  After(a)' = After(a)
  BY <1>1, <1>2, <1>3, <1>4 DEF After
<1>6. ASSUME NEW a  PROVE  Sync(a)' <=> Sync(a)
  BY <1>1, <1>4, Zenon DEF Sync, Matmul
<1>7. ASSUME NEW a  PROVE  Within(a)' = Within(a)
  BY <1>1, <1>5, <1>6 DEF Within, Ends
<1>8. Place' = Place
  <2> DEFINE P(a) ==
        /\ a \in [seg : 0..5, round : 1..rounds, stride : 0..nlanes]
        /\ a.seg <= Len(Body(a.round))
        /\ Phase(a) = "done"   => a.round = rounds
        /\ Phase(a) = "reduce" => /\ a.stride \in Strides /\ a.stride >= LastStride
                                  /\ 2 * a.stride <= nlanes
  <2>1. ASSUME NEW a  PROVE  (a \in Place <=> P(a)) /\ (a \in Place' <=> P(a)')
    BY DEF Place
  <2>2. ASSUME NEW a  PROVE  P(a)' <=> P(a)
    BY <1>1, <1>2, <1>3, <1>4, Zenon
  <2> HIDE DEF P
  <2>3. QED
    BY <2>1, <2>2
<1>9. QED
  BY <1>1, <1>5, <1>6, <1>7, <1>8

LEMMA SameSlices ==
  ASSUME UNCHANGED launch
  PROVE  /\ kernel' = kernel /\ nlanes' = nlanes /\ n' = n /\ rounds' = rounds
         /\ (Matmul' <=> Matmul) /\ LastStride' = LastStride
         /\ Lane' = Lane /\ Elem' = Elem /\ Half' = Half /\ Value' = Value
         /\ (Launch' <=> Launch)
         /\ \A l : /\ Strided(l)' = Strided(l) /\ Blocked(l)' = Blocked(l)
                   /\ Rotated(l)' = Rotated(l)
         /\ \A r : All(r)' = All(r)
         /\ \A r, m, l : Fold(r, m, l)' = Fold(r, m, l)
<1>1. kernel' = kernel /\ nlanes' = nlanes /\ n' = n /\ n_rot' = n_rot /\ rounds' = rounds
  BY DEF launch
<1>2. Lane' = Lane /\ Elem' = Elem /\ Half' = Half /\ Value' = Value
      /\ LastStride' = LastStride
  BY <1>1 DEF Lane, Elem, Half, Value, Partial, LastStride, Matmul
<1>3. ASSUME NEW l
      PROVE  /\ Strided(l)' = Strided(l) /\ Blocked(l)' = Blocked(l)
             /\ Rotated(l)' = Rotated(l)
  BY <1>1, <1>2 DEF Strided, Blocked, Rotated, Pairs
<1>4. ASSUME NEW r, NEW m, NEW l  PROVE  Fold(r, m, l)' = Fold(r, m, l)
  BY <1>2 DEF Fold
<1>5. ASSUME NEW r  PROVE  All(r)' = All(r)
  BY <1>2 DEF All
<1>6. (Matmul' <=> Matmul) /\ (Launch' <=> Launch)
  BY <1>1, Zenon DEF Matmul, Launch
<1>7. QED
  BY <1>1, <1>2, <1>3, <1>4, <1>5, <1>6

-----------------------------------------------------------------------------
(* The intervals between barriers.  Most hold one segment.                 *)

LEMMA IntervalOf ==
  ASSUME Launch, NEW c \in Place, Phase(c) # "write"
  PROVE  /\ Ends(c) => Within(c) = {c}
         /\ ~Ends(c) /\ Phase(c) = "total" =>
              /\ kernel \in {"norm", "norm_rope"} /\ After(c) \in Place
              /\ Phase(After(c)) = "write" /\ After(c).round = c.round
         /\ ~Ends(c) /\ Phase(c) = "total" /\ kernel = "norm" =>
              /\ Within(c) = {c, After(c), After(After(c))}
              /\ After(After(c)) \in Place /\ After(After(c)).round = c.round
              /\ Phase(After(After(c))) = "done"
         /\ ~Ends(c) /\ Phase(c) = "total" /\ kernel = "norm_rope" =>
              Within(c) = {c, After(c)} /\ Sync(After(c))
         /\ ~Ends(c) /\ Phase(c) # "total" =>
              /\ \/ Phase(c) = "rope"
                 \/ Phase(c) = "result" /\ kernel = "softmax"
                 \/ Phase(c) = "pack" /\ c.round = rounds
              /\ Within(c) = {c, After(c)} /\ After(c) \in Place
              /\ Phase(After(c)) = "done" /\ After(c).round = c.round
<1>1. CASE Ends(c)
  BY <1>1 DEF Within
<1>2. CASE ~Ends(c) /\ Phase(c) = "total"
  <2>1. kernel \in {"norm", "norm_rope"}
    BY <1>2, Segments DEF Ends, Sync
  <2>2. After(c) \in Place /\ Phase(After(c)) = "write" /\ After(c).round = c.round
    BY <1>2, <2>1, AfterSegment
  <2>3. CASE kernel = "norm"
    <3>1. ~Ends(After(c))
      BY <2>2, <2>3 DEF Ends, Sync
    <3>2. Within(c) = {c, After(c), After(After(c))}
      BY <1>2, <3>1 DEF Within
    <3>3. /\ After(After(c)) \in Place /\ After(After(c)).round = c.round
          /\ Phase(After(After(c))) = "done"
      BY <2>2, <2>3, AfterSegment
    <3>4. QED
      BY <1>2, <2>1, <2>2, <2>3, <3>2, <3>3
  <2>4. CASE kernel = "norm_rope"
    <3>1. Sync(After(c))
      BY <2>2, <2>4 DEF Sync
    <3>2. Within(c) = {c, After(c)}
      BY <1>2, <3>1 DEF Within, Ends
    <3>3. QED
      BY <1>2, <2>1, <2>2, <2>4, <3>1, <3>2
  <2>5. QED
    BY <2>1, <2>3, <2>4
<1>3. CASE ~Ends(c) /\ Phase(c) # "total"
  <2>1. \/ Phase(c) = "rope"
        \/ Phase(c) = "result" /\ kernel = "softmax" /\ c.round = rounds
        \/ Phase(c) = "pack" /\ c.round = rounds
    <3>1. /\ kernel \in {"softmax", "kv_write"} => rounds = 2
          /\ c.round \in 1..rounds
      BY Segments DEF Launch
    <3>2. QED
      BY <1>3, <3>1, Segments DEF Ends, Sync
  <2>2. After(c) \in Place /\ Phase(After(c)) = "done" /\ After(c).round = c.round
    <3>1. rounds \in Nat
      BY LaneFacts
    <3>2. QED
      BY <2>1, <3>1, AfterSegment
  <2>3. Within(c) = {c, After(c)}
    BY <1>3, <2>2 DEF Within, Ends
  <2>4. QED
    BY <1>3, <2>1, <2>2, <2>3
<1>4. QED
  BY <1>1, <1>2, <1>3

(* Where a lane is, given where its interval begins.                       *)
LEMMA Where ==
  ASSUME TypeOK, NEW c, Interval(c), NEW l \in Lane
  PROVE  /\ at[l] \in Place /\ at[l].round = c.round
         /\ Phase(at[l]) \notin {"write", "done"} => at[l] = c
         /\ Phase(at[l]) = "write" =>
              /\ Phase(c) = "total" /\ kernel \in {"norm", "norm_rope"}
              /\ at[l] = After(c) /\ at[l] # c
         /\ Phase(at[l]) = "done" =>
              \/ Phase(c) = "done" /\ Matmul /\ at[l] = c
              \/ /\ at[l] # c
                 /\ \/ Phase(c) = "total" /\ kernel = "norm"
                    \/ Phase(c) = "rope" /\ kernel = "norm_rope"
                    \/ Phase(c) = "result" /\ kernel = "softmax"
                    \/ Phase(c) = "pack" /\ kernel = "kv_write" /\ c.round = rounds
         /\ at[l] \in Within(c)
<1>1. Launch /\ c \in Place /\ Phase(c) # "write" /\ (Phase(c) = "done" => Matmul)
      /\ at[l] \in Within(c) /\ at[l] \in Place
  BY DEF TypeOK, Interval
<1>2. CASE Ends(c)
  BY <1>1, <1>2, IntervalOf DEF Ends
<1>3. CASE ~Ends(c) /\ Phase(c) = "total"
  BY <1>1, <1>3, IntervalOf DEF Ends
<1>4. CASE ~Ends(c) /\ Phase(c) # "total"
  BY <1>1, <1>4, IntervalOf, Segments DEF Ends
<1>5. QED
  BY <1>2, <1>3, <1>4

(* A lane that leaves a segment stays in the interval, and has done the    *)
(* segment it was in.                                                      *)
LEMMA Moves ==
  ASSUME TypeOK, NEW c, Interval(c), UNCHANGED launch,
         NEW l \in Lane, l \notin waiting, Phase(at[l]) # "done", Leave(l)
  PROVE  /\ at' \in [Lane -> Place] /\ waiting' \subseteq Lane /\ Interval(c)'
         /\ Did(l, c)'
         /\ \A m \in Lane : m # l => /\ Did(m, c)' <=> Did(m, c)
                                     /\ DidWrite(m)' <=> DidWrite(m)
         /\ Phase(at[l]) = "write" => DidWrite(l)'
         /\ Phase(at[l]) # "write" => at[l] = c /\ ~Did(l, c)
         /\ Phase(at[l]) = "total" /\ kernel \in {"norm", "norm_rope"} => ~DidWrite(l)'
<1> DEFINE a == at[l]
<1>1. /\ Launch /\ c \in Place /\ Phase(c) # "write" /\ (Phase(c) = "done" => Matmul)
      /\ at \in [Lane -> Place] /\ waiting \subseteq Lane
      /\ \A m \in Lane : at[m] \in Within(c) /\ (m \in waiting => Sync(at[m]))
  BY DEF TypeOK, Interval
<1>2. /\ a \in Place /\ a \in Within(c)
      /\ Phase(a) # "write" => a = c
      /\ Phase(a) = "write" => Phase(c) = "total" /\ a = After(c) /\ a # c
  BY Where
<1>3. /\ Lane' = Lane /\ kernel' = kernel /\ (Matmul' <=> Matmul)
      /\ Place' = Place
      /\ \A b : /\ Phase(b)' = Phase(b) /\ (Sync(b)' <=> Sync(b))
                /\ Within(b)' = Within(b)
  BY SamePlaces, SameSlices
<1>4. ASSUME Sync(a)
      PROVE  at' = at /\ waiting' = waiting \cup {l}
  BY <1>4 DEF Leave
<1>5. ASSUME ~Sync(a)
      PROVE  /\ at' = [at EXCEPT ![l] = After(a)] /\ waiting' = waiting
             /\ After(a) \in Place /\ After(a) \in Within(c) /\ After(a) # c
             /\ Phase(a) = "total" => Phase(After(a)) = "write"
             /\ Phase(a) = "write" => Phase(After(a)) = "done"
  <2>1. at' = [at EXCEPT ![l] = After(a)] /\ waiting' = waiting
    BY <1>5 DEF Leave
  <2>2. CASE a = c
    <3>1. ~Ends(c)
      BY <1>5, <2>2 DEF Ends
    <3>2. QED
      BY <1>1, <2>1, <2>2, <3>1, IntervalOf
  <2>3. CASE Phase(a) = "write"
    <3>1. Phase(c) = "total" /\ a = After(c) /\ a # c /\ ~Ends(c)
      BY <1>1, <1>2, <2>3, IntervalOf
    <3>2. kernel = "norm"
      BY <1>1, <1>5, <3>1, IntervalOf
    <3>3. QED
      BY <1>1, <2>1, <2>3, <3>1, <3>2, IntervalOf
  <2>4. QED
    BY <1>2, <2>2, <2>3
<1>6. at' \in [Lane -> Place] /\ waiting' \subseteq Lane
  BY <1>1, <1>4, <1>5
<1>7. ASSUME NEW m \in Lane
      PROVE  at'[m] \in Within(c) /\ (m \in waiting' => Sync(at'[m]))
  BY <1>1, <1>4, <1>5
<1>8. Interval(c)'
  BY <1>1, <1>3, <1>7 DEF Interval
<1>9. Did(l, c)'
  BY <1>1, <1>4, <1>5 DEF Did
<1>10. ASSUME NEW m \in Lane, m # l
       PROVE  (Did(m, c)' <=> Did(m, c)) /\ (DidWrite(m)' <=> DidWrite(m))
  <2>1. at'[m] = at[m] /\ (m \in waiting' <=> m \in waiting)
    BY <1>1, <1>4, <1>5, <1>10
  <2>2. QED
    BY <1>3, <2>1 DEF Did, DidWrite
<1>11. ASSUME Phase(a) = "write"  PROVE  DidWrite(l)'
  BY <1>1, <1>3, <1>4, <1>5, <1>11 DEF DidWrite
<1>12. ASSUME Phase(a) # "write"  PROVE  a = c /\ ~Did(l, c)
  BY <1>2, <1>12 DEF Did
<1>13. ASSUME Phase(a) = "total", kernel \in {"norm", "norm_rope"}
       PROVE  ~DidWrite(l)'
  <2>1. ~Sync(a)
    BY <1>13 DEF Sync
  <2>2. Phase(at'[l]) = "write" /\ l \notin waiting'
    BY <1>1, <1>5, <1>13, <2>1
  <2>3. QED
    BY <1>3, <2>2 DEF DidWrite
<1>14. QED
  BY <1>6, <1>8, <1>9, <1>10, <1>11, <1>12, <1>13

(* Behind a barrier every lane is at the head of the next interval.        *)
LEMMA Releases ==
  ASSUME TypeOK, NEW c, Interval(c), Release
  PROVE  \E a, b \in Place :
           /\ \A m \in Lane : at[m] = a
           /\ \/ a = c /\ \A m \in Lane : Did(m, c)
              \/ /\ kernel = "norm_rope" /\ Phase(c) = "total" /\ Phase(a) = "write"
                 /\ \A m \in Lane : Did(m, c) /\ DidWrite(m)
           /\ Sync(a) /\ a.round = c.round
           /\ b = After(a) /\ Interval(b)'
           /\ at' \in [Lane -> Place] /\ waiting' = {}
           /\ \A m \in Lane : ~Did(m, b)' /\ at'[m] = b
<1>1. /\ Launch /\ c \in Place /\ Phase(c) # "write" /\ (Phase(c) = "done" => Matmul)
      /\ at \in [Lane -> Place] /\ waiting \subseteq Lane
      /\ \A m \in Lane : at[m] \in Within(c) /\ (m \in waiting => Sync(at[m]))
  BY DEF TypeOK, Interval
<1>2. /\ waiting = Lane /\ at' = [m \in Lane |-> After(at[m])] /\ waiting' = {}
      /\ UNCHANGED launch
  BY DEF Release
<1>3. /\ Lane' = Lane /\ kernel' = kernel /\ (Matmul' <=> Matmul)
      /\ Place' = Place
      /\ \A b : /\ Phase(b)' = Phase(b) /\ (Sync(b)' <=> Sync(b))
                /\ Within(b)' = Within(b)
  BY <1>2, SamePlaces, SameSlices
<1>4. 0 \in Lane
  BY <1>1, LaneFacts
<1> PICK a \in Place : a = at[0]
  BY <1>1, <1>4
<1>5. a = at[0] /\ Sync(a) /\ a.round = c.round /\ \A m \in Lane : Sync(at[m])
  BY <1>1, <1>2, <1>4, Where
<1>6. ASSUME NEW m \in Lane  PROVE  at[m] = a
  <2>1. at[m] \in Within(c) /\ Sync(at[m]) /\ a \in Within(c)
    BY <1>1, <1>4, <1>5
  <2>2. Phase(a) # "done" /\ Phase(at[m]) # "done"
    BY <1>5 DEF Sync
  <2>3. CASE Ends(c)
    BY <1>1, <2>1, <2>3, IntervalOf
  <2>4. CASE ~Ends(c)
    <3>1. ~Sync(c)
      BY <2>4 DEF Ends
    <3>2. QED
      BY <1>1, <1>5, <2>1, <2>2, <2>4, <3>1, IntervalOf
  <2>5. QED
    BY <2>3, <2>4
<1>7. \/ a = c /\ \A m \in Lane : Did(m, c)
      \/ /\ kernel = "norm_rope" /\ Phase(c) = "total" /\ Phase(a) = "write"
         /\ \A m \in Lane : Did(m, c) /\ DidWrite(m)
  <2>1. \A m \in Lane : Did(m, c)
    BY <1>2 DEF Did
  <2>2. CASE a = c
    BY <2>1, <2>2
  <2>3. CASE a # c
    <3>1. Phase(a) = "write" /\ Phase(c) = "total"
      BY <1>4, <1>5, <2>3, Where DEF Sync
    <3>2. kernel = "norm_rope"
      BY <1>5, <3>1 DEF Sync
    <3>3. \A m \in Lane : DidWrite(m)
      BY <1>2, <1>6, <3>1 DEF DidWrite
    <3>4. QED
      BY <2>1, <3>1, <3>2, <3>3
  <2>4. QED
    BY <2>2, <2>3
<1> PICK b : b = After(a)
  OBVIOUS
<1>8. b \in Place /\ b = After(a) /\ Phase(b) # "write" /\ (Phase(b) = "done" => Matmul)
  <2>1. CASE Phase(a) = "reduce" /\ ~Reduced(a)
    BY <1>1, <1>5, <2>1, AfterReduce
  <2>2. CASE Phase(a) = "reduce" => Reduced(a)
    <3>1. kernel = "kv_write" => rounds = 2
      BY <1>1 DEF Launch
    <3>2. a.round \in 1..rounds
      BY <1>1, <1>5, Segments
    <3>3. QED
      BY <1>1, <1>5, <2>2, <3>1, <3>2, AfterSegment, Segments DEF Sync
  <2>3. QED
    BY <2>1, <2>2
<1>9. at' = [m \in Lane |-> b]
  BY <1>2, <1>6
<1>10. at' \in [Lane -> Place] /\ \A m \in Lane : at'[m] = b
  BY <1>8, <1>9
<1>11. b \in Within(b)
  BY DEF Within
<1>12. Interval(b)'
  BY <1>2, <1>3, <1>8, <1>10, <1>11 DEF Interval
<1>13. \A m \in Lane : ~Did(m, b)'
  BY <1>2, <1>10 DEF Did
<1>14. QED
  BY <1>2, <1>5, <1>6, <1>7, <1>8, <1>10, <1>12, <1>13

-----------------------------------------------------------------------------
(* What is folded.                                                         *)

LEMMA FoldFacts ==
  ASSUME Launch, NEW r \in 1..rounds
  PROVE  /\ \A m, l : Fold(r, m, l) \in Partial /\ Fold(r, m, l) \notin {Garbage, Unset}
         /\ Fold(r, 1, 0) = All(r) /\ All(r) \in Partial /\ All(r) \notin {Garbage, Unset}
         /\ \A l : Fold(r, nlanes, l) = [round |-> r, elems |-> Strided(l)]
<1>1. rounds \in Nat /\ Elem \subseteq Nat
  BY LaneFacts
<1>2. ASSUME NEW p \in Partial  PROVE  p \in [round : Nat, elems : SUBSET Nat]
  <2>1. p = [round |-> p.round, elems |-> p.elems] /\ p.round \in 1..rounds
        /\ p.elems \subseteq Elem
    BY DEF Partial
  <2>2. p.round \in Nat /\ p.elems \in SUBSET Nat
    BY <1>1, <2>1
  <2>3. QED
    BY <2>1, <2>2
<1>3. \A p \in Partial : p \notin {Garbage, Unset}
  BY <1>2, GarbageAssumption
<1>4. \A m, l : Fold(r, m, l) \in Partial
  BY DEF Fold, Partial
<1>5. Fold(r, 1, 0) = All(r)
  <2>1. \A d \in Elem : (d % 1) = 0
    BY <1>1, ModRange
  <2>2. QED
    BY <2>1 DEF Fold, All
<1>6. \A l : Fold(r, nlanes, l) = [round |-> r, elems |-> Strided(l)]
  BY DEF Fold, Strided
<1>7. All(r) \in Partial
  BY DEF All, Partial
<1>8. QED
  BY <1>3, <1>4, <1>5, <1>6, <1>7

(* One step of the tree: two residues modulo 2s make one modulo s.         *)
LEMMA CombineFolds ==
  ASSUME Launch, NEW r \in 1..rounds, NEW s \in Nat \ {0}, NEW l \in 0..(s - 1)
  PROVE  Combine(Fold(r, 2 * s, l), Fold(r, 2 * s, l + s)) = Fold(r, s, l)
<1> DEFINE A == {d \in Elem : d % (2 * s) = l}
           B == {d \in Elem : d % (2 * s) = l + s}
<1>1. ASSUME NEW d \in Elem
      PROVE  /\ d % s = l => d % (2 * s) = l \/ d % (2 * s) = l + s
             /\ d % (2 * s) = l => d % s = l
             /\ d % (2 * s) = l + s => d % s = l
  <2>1. d \in Nat
    BY LaneFacts
  <2>2. d % s = l => d % (2 * s) = l \/ d % (2 * s) = l + s
    BY <2>1, ModHalves
  <2>3. d % (2 * s) = l => d % s = l
    BY <2>1, ModHalves
  <2>4. d % (2 * s) = l + s => d % s = l
    BY <2>1, ModHalves
  <2>5. QED
    BY <2>2, <2>3, <2>4
<1>2. A \cap B = {}
  BY s # 0
<1>3. A \cup B = {d \in Elem : d % s = l}
  BY <1>1
<1>4. {Fold(r, 2 * s, l), Fold(r, 2 * s, l + s)} \cap {Garbage, Unset} = {}
  BY FoldFacts
<1>5. Fold(r, 2 * s, l) = [round |-> r, elems |-> A]
      /\ Fold(r, 2 * s, l + s) = [round |-> r, elems |-> B]
  BY DEF Fold
<1> HIDE DEF A, B
<1>6. Combine(Fold(r, 2 * s, l), Fold(r, 2 * s, l + s)) = [round |-> r, elems |-> A \cup B]
  BY <1>2, <1>4, <1>5 DEF Combine
<1>7. QED
  BY <1>3, <1>6 DEF Fold

LEMMA CombineType ==
  ASSUME Launch, NEW a \in Value, NEW b \in Value
  PROVE  Combine(a, b) \in Value
<1>1. CASE {a, b} \cap {Garbage, Unset} = {} /\ a.round = b.round /\ a.elems \cap b.elems = {}
  <2>1. a \in Partial /\ b \in Partial
    BY <1>1 DEF Value
  <2>2. [round |-> a.round, elems |-> a.elems \cup b.elems] \in Partial
    BY <2>1 DEF Partial
  <2>3. QED
    BY <1>1, <2>2 DEF Combine, Value
<1>2. CASE ~({a, b} \cap {Garbage, Unset} = {} /\ a.round = b.round /\ a.elems \cap b.elems = {})
  BY <1>2 DEF Combine, Value
<1>3. QED
  BY <1>1, <1>2

-----------------------------------------------------------------------------
(* A step of one lane.                                                     *)

LEMMA SegmentMoves ==
  ASSUME TypeOK, NEW c, Interval(c), NEW l \in Lane, Segment(l)
  PROVE  /\ UNCHANGED launch /\ l \notin waiting /\ Phase(at[l]) # "done" /\ Leave(l)
         /\ at' \in [Lane -> Place] /\ waiting' \subseteq Lane /\ Interval(c)'
         /\ Did(l, c)'
         /\ \A m \in Lane : m # l => /\ Did(m, c)' <=> Did(m, c)
                                     /\ DidWrite(m)' <=> DidWrite(m)
         /\ Phase(at[l]) = "write" => DidWrite(l)' /\ Phase(c) = "total" /\ Did(l, c)
         /\ Phase(at[l]) # "write" => at[l] = c /\ ~Did(l, c)
         /\ Phase(at[l]) = "total" /\ kernel \in {"norm", "norm_rope"} => ~DidWrite(l)'
<1>1. UNCHANGED launch /\ l \notin waiting /\ Phase(at[l]) # "done" /\ Leave(l)
  BY DEF Segment, Prepare, Fill, Reduce, Total, Write, Rope, Stage, Pack4, Result, At
<1>2. Phase(at[l]) = "write" => Phase(c) = "total" /\ Did(l, c)
  BY Where DEF Did
<1>3. QED
  BY <1>1, <1>2, Moves

LEMMA SegmentType ==
  ASSUME TypeOK, NEW c, Interval(c), NEW l \in Lane, Segment(l)
  PROVE  TypeOK'
<1>1. /\ Launch /\ at[l] \in Place /\ Round(l) \in 1..rounds
      /\ smem \in [Lane -> Value] /\ total \in [Lane -> Value] /\ staged \in [Lane -> Value]
      /\ row \in [Elem -> {Unset, "dequantized"}]
      /\ x \in [Elem -> {"raw", "normed", "rotated", "weight", Garbage}]
      /\ result \in [1..rounds -> Value]
      /\ words \in [1..rounds -> [0..(nlanes \div Pack - 1) -> {Unset} \cup SUBSET Value]]
  BY Segments DEF TypeOK, Round
<1>2. /\ Launch' /\ at' \in [Lane' -> Place'] /\ waiting' \subseteq Lane'
      /\ Lane' = Lane /\ Elem' = Elem /\ Value' = Value /\ rounds' = rounds
      /\ nlanes' = nlanes
  BY <1>1, SegmentMoves, SamePlaces, SameSlices
<1>3. Lane \subseteq Nat /\ 0 \in Lane /\ 1 \in Lane /\ nlanes \in Nat
  BY <1>1, LaneFacts
<1>4. smem' \in [Lane -> Value]
  <2>1. CASE Fill(l)
    <3>1. [round |-> Round(l), elems |-> Strided(l)] \in Value
      BY <1>1 DEF Value, Partial, Strided
    <3>2. Garbage \in Value
      BY DEF Value
    <3>3. QED
      BY <1>1, <2>1, <3>1, <3>2 DEF Fill
  <2>2. CASE Reduce(l)
    <3>1. CASE l < at[l].stride
      <4>1. /\ 2 * at[l].stride <= nlanes /\ at[l].stride \in Nat
        BY <1>1, <2>2, AfterReduce DEF Reduce, At
      <4>2. l + at[l].stride \in Lane
        BY <1>3, <3>1, <4>1 DEF Lane
      <4>3. Combine(smem[l], smem[l + at[l].stride]) \in Value
        BY <1>1, <4>2, CombineType
      <4>4. QED
        BY <1>1, <2>2, <3>1, <4>3 DEF Reduce
    <3>2. CASE ~(l < at[l].stride)
      BY <1>1, <2>2, <3>2 DEF Reduce
    <3>3. QED
      BY <3>1, <3>2
  <2>3. CASE smem' = smem
    BY <1>1, <2>3
  <2>4. QED
    BY <2>1, <2>2, <2>3 DEF Segment, Prepare, Total, Write, Rope, Stage, Pack4, Result
<1>5. total' \in [Lane -> Value]
  BY <1>1, <1>3 DEF Segment, Prepare, Fill, Reduce, Total, Write, Rope, Stage, Pack4, Result
<1>6. staged' \in [Lane -> Value]
  BY <1>1 DEF Segment, Prepare, Fill, Reduce, Total, Write, Rope, Stage, Pack4, Result
<1>7. row' \in [Elem -> {Unset, "dequantized"}]
  BY <1>1 DEF Segment, Prepare, Fill, Reduce, Total, Write, Rope, Stage, Pack4, Result
<1>8. x' \in [Elem -> {"raw", "normed", "rotated", "weight", Garbage}]
  <2>1. CASE Fill(l)
    BY <1>1, <2>1 DEF Fill
  <2>2. CASE Write(l)
    BY <1>1, <2>2 DEF Write
  <2>3. CASE Rope(l)
    BY <1>1, <2>3 DEF Rope
  <2>4. CASE x' = x
    BY <1>1, <2>4
  <2>5. QED
    BY <2>1, <2>2, <2>3, <2>4 DEF Segment, Prepare, Reduce, Total, Stage, Pack4, Result
<1>9. result' \in [1..rounds -> Value]
  <2>1. CASE Pack4(l)
    BY <1>1, <2>1 DEF Pack4
  <2>2. CASE Result(l)
    <3>1. Combine(smem[0], smem[1]) \in Value /\ smem[0] \in Value
      BY <1>1, <1>3, CombineType
    <3>2. QED
      BY <1>1, <2>2, <3>1 DEF Result
  <2>3. CASE result' = result
    BY <1>1, <2>3
  <2>4. QED
    BY <2>1, <2>2, <2>3 DEF Segment, Prepare, Fill, Reduce, Total, Write, Rope, Stage
<1>10. words' \in [1..rounds -> [0..(nlanes \div Pack - 1) -> {Unset} \cup SUBSET Value]]
  <2>1. CASE Pack4(l) /\ l < nlanes \div Pack
    <3>1. nlanes \div Pack \in Int
      BY <1>3, BatchAssumption
    <3>2. l \in 0..(nlanes \div Pack - 1)
      BY <1>3, <2>1, <3>1
    <3>3. {staged[m] : m \in Word(l)} \in SUBSET Value
      BY <1>1, <3>2, WordLanes
    <3>4. words' = [words EXCEPT ![Round(l)][l] = {staged[m] : m \in Word(l)}]
      BY <2>1 DEF Pack4
    <3>5. QED
      BY <1>1, <3>2, <3>3, <3>4
  <2>2. CASE words' = words
    BY <1>1, <2>2
  <2>3. QED
    BY <2>1, <2>2 DEF Segment, Prepare, Fill, Reduce, Total, Write, Rope, Stage, Pack4, Result
<1>11. QED
  BY <1>2, <1>4, <1>5, <1>6, <1>7, <1>8, <1>9, <1>10 DEF TypeOK

LEMMA SegmentRow ==
  ASSUME TypeOK, NEW c, Interval(c), Memory(c), NEW l \in Lane, Segment(l)
  PROVE  RowReady(c)'
<1>1. /\ (kernel' = kernel) /\ Lane' = Lane /\ Phase(c)' = Phase(c)
      /\ \A m : Blocked(m)' = Blocked(m)
  BY SegmentMoves, SamePlaces, SameSlices
<1>2. RowReady(c)
  BY DEF Memory
<1>3. CASE Prepare(l)
  <2>1. Phase(c) = "prepare" /\ Phase(c) # "write"
    BY <1>3, SegmentMoves DEF Prepare, At
  <2>2. \A d \in Elem : row'[d] = IF d \in Blocked(l) THEN "dequantized" ELSE row[d]
    BY <1>3 DEF Prepare
  <2>3. ASSUME kernel = "coop", NEW m \in Lane, Did(m, c)', NEW d \in Blocked(m)
        PROVE  row'[d] = "dequantized"
    <3>1. d \in Elem
      BY DEF Blocked
    <3>2. CASE m = l
      BY <2>2, <3>1, <3>2, <2>3
    <3>3. CASE m # l
      <4>1. row[d] = "dequantized"
        BY <1>2, <2>3, <3>3, SegmentMoves DEF RowReady
      <4>2. QED
        BY <2>2, <3>1, <4>1
    <3>4. QED
      BY <3>2, <3>3
  <2>4. QED
    BY <1>1, <2>1, <2>3 DEF RowReady
<1>4. CASE row' = row /\ Phase(at[l]) # "prepare"
  <2>1. Phase(c) # "prepare"
    BY <1>4, SegmentMoves
  <2>2. QED
    BY <1>1, <1>2, <1>4, <2>1 DEF RowReady
<1>5. QED
  BY <1>3, <1>4 DEF Segment, Fill, Reduce, Total, Write, Rope, Stage, Pack4, Result, At

(* The input of a slice is there, and has not been touched.                *)
LEMMA SliceReady ==
  ASSUME TypeOK, NEW c, Interval(c), Memory(c), NEW l \in Lane,
         at[l] = c, ~Did(l, c), Phase(c) = "fill"
  PROVE  IF kernel = "softmax" /\ c.round = 2 THEN total[l] = All(1)
         ELSE \A d \in Strided(l) :
                (IF kernel = "coop" THEN row ELSE x)[d]
                  = (IF kernel = "coop" THEN "dequantized" ELSE "raw")
<1>1. Launch /\ c \in Place /\ RowReady(c) /\ Totals(c) /\ Slices(c)
  BY DEF TypeOK, Interval, Memory
<1>2. CASE kernel = "softmax" /\ c.round = 2
  BY <1>1, <1>2 DEF Totals
<1>3. CASE kernel = "coop"
  <2>1. ASSUME NEW d \in Strided(l)  PROVE  row[d] = "dequantized"
    <3>1. d \in Elem
      BY DEF Strided
    <3>2. (d \div Block) % nlanes \in Lane /\ d \in Blocked((d \div Block) % nlanes)
      BY <1>1, <3>1, SliceOf
    <3>3. QED
      BY <1>1, <1>3, <3>2 DEF RowReady
  <2>2. QED
    BY <1>3, <2>1
<1>4. CASE kernel # "coop" /\ ~(kernel = "softmax" /\ c.round = 2)
  <2>1. kernel \in Kernels /\ (kernel = "softmax" => c.round = 1)
    <3>1. c.round \in 1..rounds /\ (kernel = "softmax" => rounds = 2)
      BY <1>1, Segments DEF Launch
    <3>2. QED
      BY <1>1, <1>4, <3>1 DEF Launch
  <2>2. ASSUME NEW d \in Strided(l)  PROVE  x[d] = "raw"
    <3>1. d \in Elem
      BY DEF Strided
    <3>2. CASE kernel \in {"norm", "norm_rope"}
      BY <1>1, <3>2 DEF Slices
    <3>3. CASE kernel \in {"softmax", "kv_write", "matmul"}
      BY <1>1, <2>1, <3>1, <3>3 DEF Slices
    <3>4. QED
      BY <1>4, <2>1, <3>2, <3>3 DEF Kernels
  <2>3. QED
    BY <1>4, <2>2
<1>5. QED
  BY <1>2, <1>3, <1>4

LEMMA SegmentPartials ==
  ASSUME TypeOK, NEW c, Interval(c), Memory(c), NEW l \in Lane, Segment(l)
  PROVE  Partials(c)'
<1>1. /\ Lane' = Lane /\ nlanes' = nlanes /\ LastStride' = LastStride
      /\ Phase(c)' = Phase(c) /\ \A r, m, k : Fold(r, m, k)' = Fold(r, m, k)
  BY SegmentMoves, SamePlaces, SameSlices
<1>2. Partials(c)
  BY DEF Memory
<1>3. Launch /\ c \in Place /\ smem \in [Lane -> Value] /\ c.round \in 1..rounds
  BY Segments DEF TypeOK, Interval
<1>4. CASE Fill(l)
  <2>1. Phase(c) = "fill" /\ at[l] = c /\ ~Did(l, c)
    BY <1>4, SegmentMoves DEF Fill, At
  <2>2. smem' = [smem EXCEPT ![l] = [round |-> c.round, elems |-> Strided(l)]]
    BY <1>4, <2>1, SliceReady, Zenon DEF Fill, Round
  <2>3. [round |-> c.round, elems |-> Strided(l)] = Fold(c.round, nlanes, l)
    BY <1>3, FoldFacts
  <2>4. ASSUME NEW m \in Lane, Did(m, c)'  PROVE  smem'[m] = Fold(c.round, nlanes, m)
    <3>1. CASE m = l
      BY <1>3, <2>2, <2>3, <3>1
    <3>2. CASE m # l
      BY <1>2, <1>3, <2>1, <2>2, <2>4, <3>2, SegmentMoves DEF Partials
    <3>3. QED
      BY <3>1, <3>2
  <2>5. QED
    BY <1>1, <2>1, <2>4 DEF Partials
<1>5. CASE Reduce(l)
  <2> DEFINE s == c.stride
  <2>1. Phase(c) = "reduce" /\ at[l] = c /\ ~Did(l, c)
    BY <1>5, SegmentMoves DEF Reduce, At
  <2>2. s \in Nat \ {0} /\ 2 * s <= nlanes /\ nlanes \in Nat /\ Lane \subseteq Nat
    BY <1>3, <2>1, AfterReduce, LaneFacts
  <2>3. ASSUME NEW m \in Lane, m < 2 * s
        PROVE  smem[m] = Fold(c.round, IF m < s /\ Did(m, c) THEN s ELSE 2 * s, m)
    BY <1>2, <2>1, <2>3 DEF Partials
  <2> HIDE DEF s
  <2>4. smem' = IF l < s THEN [smem EXCEPT ![l] = Combine(smem[l], smem[l + s])] ELSE smem
    BY <1>5, <2>1 DEF Reduce, s
  <2>5. ASSUME l < s  PROVE  Combine(smem[l], smem[l + s]) = Fold(c.round, s, l)
    <3>1. l \in Nat /\ l < 2 * s /\ l \in 0..(s - 1)
      BY <2>2, <2>5
    <3>2. smem[l] = Fold(c.round, 2 * s, l)
      BY <2>1, <2>3, <3>1
    <3>3. l + s \in Lane /\ l + s < 2 * s /\ ~(l + s < s)
      BY <2>2, <2>5, <3>1 DEF Lane
    <3>4. smem[l + s] = Fold(c.round, 2 * s, l + s)
      BY <2>3, <3>3
    <3>5. QED
      BY <1>3, <2>2, <3>1, <3>2, <3>4, CombineFolds
  <2>6. ASSUME NEW m \in Lane, m < 2 * s
        PROVE  smem'[m] = Fold(c.round, IF m < s /\ Did(m, c)' THEN s ELSE 2 * s, m)
    <3>1. CASE m = l /\ l < s
      BY <1>3, <2>4, <2>5, <3>1, SegmentMoves
    <3>2. CASE m = l /\ ~(l < s)
      BY <2>3, <2>4, <2>6, <3>2
    <3>3. CASE m # l
      <4>1. smem'[m] = smem[m] /\ (Did(m, c)' <=> Did(m, c))
        BY <1>3, <2>4, <3>3, SegmentMoves
      <4>2. QED
        BY <2>3, <2>6, <4>1
    <3>4. QED
      BY <3>1, <3>2, <3>3
  <2>7. QED
    BY <1>1, <2>1, <2>6 DEF Partials, s
<1>6. CASE smem' = smem /\ Phase(at[l]) \notin {"fill", "reduce"}
  <2>1. Phase(c) \notin {"fill", "reduce"}
    BY <1>6, SegmentMoves
  <2>2. QED
    BY <1>1, <1>2, <1>6, <2>1 DEF Partials
<1>7. QED
  BY <1>4, <1>5, <1>6 DEF Segment, Prepare, Total, Write, Rope, Stage, Pack4, Result, At

LEMMA SegmentTotals ==
  ASSUME TypeOK, NEW c, Interval(c), Memory(c), NEW l \in Lane, Segment(l)
  PROVE  Totals(c)'
<1>1. /\ Lane' = Lane /\ kernel' = kernel /\ rounds' = rounds /\ Phase(c)' = Phase(c)
      /\ \A r : All(r)' = All(r)
  BY SegmentMoves, SamePlaces, SameSlices
<1>2. Totals(c) /\ Partials(c)
  BY DEF Memory
<1>3. Launch /\ c \in Place /\ total \in [Lane -> Value] /\ c.round \in 1..rounds
      /\ 0 \in Lane
  BY Segments, LaneFacts DEF TypeOK, Interval
<1>4. CASE Total(l)
  <2>1. Phase(c) = "total" /\ at[l] = c
    BY <1>4, SegmentMoves DEF Total, At
  <2>2. kernel \in {"norm", "norm_rope", "softmax", "kv_write"}
        /\ ~(kernel = "softmax" /\ c.round = 2)
    BY <1>3, <2>1, Segments
  <2>3. smem[0] = Fold(c.round, 1, 0)
    <3>1. LastStride = 1 /\ 0 \in 0..(LastStride - 1)
      BY <2>2 DEF LastStride, Matmul
    <3>2. QED
      BY <1>2, <2>1, <3>1 DEF Partials
  <2>4. total' = [total EXCEPT ![l] = All(c.round)]
    BY <1>3, <1>4, <2>3, FoldFacts DEF Total
  <2>5. ASSUME NEW m \in Lane
        PROVE  /\ total'[m] \in {Unset} \cup {All(r) : r \in 1..rounds}
               /\ Did(m, c)' => total'[m] = All(c.round)
    <3>1. CASE m = l
      BY <1>3, <2>4, <3>1
    <3>2. CASE m # l
      BY <1>2, <1>3, <2>1, <2>4, <3>2, SegmentMoves DEF Totals
    <3>3. QED
      BY <3>1, <3>2
  <2>6. QED
    BY <1>1, <2>1, <2>2, <2>5 DEF Totals
<1>5. CASE total' = total /\ Phase(at[l]) # "total"
  <2>1. Phase(c) = "total" => Did(l, c)
    BY <1>5, SegmentMoves
  <2>2. ASSUME NEW m \in Lane, Phase(c) = "total", Did(m, c)'
        PROVE  Did(m, c)
    BY <2>1, <2>2, SegmentMoves
  <2>3. QED
    BY <1>1, <1>2, <1>5, <2>2 DEF Totals
<1>6. QED
  BY <1>4, <1>5 DEF Segment, Prepare, Fill, Reduce, Write, Rope, Stage, Pack4, Result, At

(* A strided element belongs to one lane.                                  *)
LEMMA OwnSlice ==
  ASSUME NEW l, NEW m, l # m
  PROVE  /\ Strided(l) \cap Strided(m) = {} /\ Blocked(l) \cap Blocked(m) = {}
         /\ Launch /\ l \in Lane /\ m \in Lane => Rotated(l) \cap Rotated(m) = {}
<1>1. Strided(l) \cap Strided(m) = {} /\ Blocked(l) \cap Blocked(m) = {}
  BY DEF Strided, Blocked
<1>2. ASSUME Launch, l \in Lane, m \in Lane
      PROVE  Rotated(l) \cap Rotated(m) = {}
  BY <1>2, RotatedSlices
<1>3. QED
  BY <1>1, <1>2

LEMMA SegmentSlices ==
  ASSUME TypeOK, NEW c, Interval(c), Memory(c), NEW l \in Lane, Segment(l)
  PROVE  Slices(c)'
<1>1. /\ Lane' = Lane /\ kernel' = kernel /\ Phase(c)' = Phase(c) /\ Elem' = Elem
      /\ Half' = Half
      /\ \A m : Strided(m)' = Strided(m) /\ Rotated(m)' = Rotated(m)
  BY SegmentMoves, SamePlaces, SameSlices
<1>2. Slices(c) /\ Totals(c)
  BY DEF Memory
<1>3. /\ Launch /\ c \in Place /\ c.round \in 1..rounds
      /\ x \in [Elem -> {"raw", "normed", "rotated", "weight", Garbage}]
  BY Segments DEF TypeOK, Interval
<1>4. CASE Fill(l)
  <2>1. Phase(c) = "fill" /\ at[l] = c /\ ~Did(l, c)
    BY <1>4, SegmentMoves DEF Fill, At
  <2>2. CASE kernel = "softmax" /\ c.round = 2
    <3>1. \A d \in Elem : x'[d] = IF d \in Strided(l) THEN "weight" ELSE x[d]
      BY <1>4, <2>1, <2>2, SliceReady DEF Fill, Round
    <3>2. ASSUME NEW m \in Lane, Did(m, c)', NEW d \in Strided(m)
          PROVE  x'[d] = "weight"
      <4>1. d \in Elem
        BY DEF Strided
      <4>2. CASE m = l
        BY <3>1, <3>2, <4>1, <4>2
      <4>3. CASE m # l
        <5>1. x[d] = "weight"
          BY <1>2, <2>2, <3>2, <4>3, SegmentMoves DEF Slices
        <5>2. QED
          BY <3>1, <4>1, <5>1
      <4>4. QED
        BY <4>2, <4>3
    <3>3. QED
      BY <1>1, <2>1, <2>2, <3>2 DEF Slices
  <2>3. CASE ~(kernel = "softmax" /\ c.round = 2)
    <3>1. \A d \in Elem : x'[d] = x[d]
      BY <1>3, <1>4, <2>1, <2>3 DEF Fill, Round
    <3>2. kernel = "softmax" => c.round = 1
      BY <1>3, <2>3 DEF Launch
    <3>3. \A m \in Lane : Strided(m) \subseteq Elem
      BY DEF Strided
    <3>4. QED
      BY <1>1, <1>2, <2>1, <3>1, <3>2, <3>3 DEF Slices
  <2>4. QED
    BY <2>2, <2>3
<1>5. CASE Write(l)
  <2>1. Phase(at[l]) = "write" /\ Phase(c) = "total" /\ kernel \in {"norm", "norm_rope"}
        /\ Did(l, c) /\ DidWrite(l)' /\ l \notin waiting
    BY <1>5, SegmentMoves, Where DEF Write, At
  <2>2. c.round = 1 /\ total[l] = All(c.round) /\ ~DidWrite(l)
    BY <1>2, <1>3, <2>1 DEF Launch, Totals, DidWrite
  <2>3. \A d \in Elem : x'[d] = IF d \notin Strided(l) THEN x[d]
                                ELSE IF x[d] = "raw" THEN "normed" ELSE Garbage
    BY <1>5, <2>2 DEF Write
  <2>4. ASSUME NEW m \in Lane, NEW d \in Strided(m)
        PROVE  x'[d] = IF DidWrite(m)' THEN "normed" ELSE "raw"
    <3>1. d \in Elem
      BY DEF Strided
    <3>2. x[d] = IF DidWrite(m) THEN "normed" ELSE "raw"
      BY <1>2, <2>1 DEF Slices
    <3>3. CASE m = l
      BY <2>1, <2>2, <2>3, <3>1, <3>2, <3>3
    <3>4. CASE m # l
      BY <2>3, <3>1, <3>2, <3>4, SegmentMoves, OwnSlice
    <3>5. QED
      BY <3>3, <3>4
  <2>5. QED
    BY <1>1, <2>1, <2>4 DEF Slices
<1>6. CASE Rope(l)
  <2>1. Phase(c) = "rope" /\ at[l] = c /\ ~Did(l, c) /\ kernel = "norm_rope"
    BY <1>3, <1>6, SegmentMoves, Segments DEF Rope, At
  <2>2. ASSUME NEW m \in Lane, NEW d \in Rotated(m)
        PROVE  x[d] = IF Did(m, c) THEN "rotated" ELSE "normed"
    BY <1>2, <2>1 DEF Slices
  <2>3. ASSUME NEW d \in Elem
        PROVE  x'[d] = IF d \in Rotated(l) THEN "rotated" ELSE x[d]
    <3>1. CASE d \in Rotated(l)
      <4>1. d % Half \in Rotated(l) /\ (d % Half) + Half \in Rotated(l)
        BY <1>3, <3>1, RotatedSlices
      <4>2. x[d % Half] = "normed" /\ x[(d % Half) + Half] = "normed"
        BY <2>1, <2>2, <4>1
      <4>3. QED
        BY <1>6, <3>1, <4>2 DEF Rope
    <3>2. CASE d \notin Rotated(l)
      BY <1>6, <3>2 DEF Rope
    <3>3. QED
      BY <3>1, <3>2
  <2>4. ASSUME NEW m \in Lane, NEW d \in Rotated(m)
        PROVE  x'[d] = IF Did(m, c)' THEN "rotated" ELSE "normed"
    <3>1. d \in Elem
      BY <1>3, RotatedSlices
    <3>2. CASE m = l
      BY <2>3, <2>4, <3>1, <3>2, SegmentMoves
    <3>3. CASE m # l
      BY <1>3, <2>2, <2>3, <2>4, <3>1, <3>3, SegmentMoves, OwnSlice
    <3>4. QED
      BY <3>2, <3>3
  <2>5. ASSUME NEW d \in Elem, d >= 2 * Half  PROVE  x'[d] = "normed"
    <3>1. d \notin Rotated(l)
      <4>1. Rotated(l) \subseteq 0..(2 * Half - 1) /\ Half \in Nat /\ d \in Nat
        BY <1>3, RotatedSlices, LaneFacts
      <4>2. QED
        BY <2>5, <4>1
    <3>2. QED
      BY <1>2, <2>1, <2>3, <2>5, <3>1 DEF Slices
  <2>6. QED
    BY <1>1, <2>1, <2>4, <2>5 DEF Slices
<1>7. CASE x' = x /\ Phase(at[l]) \notin {"fill", "write", "rope"}
  <2>1. Phase(c) \notin {"fill", "rope"}
    <3>1. Phase(at[l]) # "write" /\ at[l] = c
      BY <1>7, SegmentMoves
    <3>2. QED
      BY <1>7, <3>1
  <2>2. ASSUME Phase(c) = "total", kernel \in {"norm", "norm_rope"}, NEW m \in Lane
        PROVE  DidWrite(m)' <=> DidWrite(m)
    <3>1. CASE m = l
      <4>1. at[l] = c /\ Phase(at[l]) = "total"
        BY <1>7, <2>2, SegmentMoves
      <4>2. ~DidWrite(l) /\ ~DidWrite(l)'
        BY <2>2, <4>1, SegmentMoves DEF DidWrite
      <4>3. QED
        BY <3>1, <4>2
    <3>2. CASE m # l
      BY <3>2, SegmentMoves
    <3>3. QED
      BY <3>1, <3>2
  <2>3. QED
    BY <1>1, <1>2, <1>7, <2>1, <2>2 DEF Slices
<1>8. QED
  BY <1>4, <1>5, <1>6, <1>7 DEF Segment, Prepare, Reduce, Total, Stage, Pack4, Result, At

LEMMA SegmentStaged ==
  ASSUME TypeOK, NEW c, Interval(c), Memory(c), NEW l \in Lane, Segment(l)
  PROVE  StagedBytes(c)'
<1>1. Lane' = Lane /\ Phase(c)' = Phase(c) /\ \A r : All(r)' = All(r)
  BY SegmentMoves, SamePlaces, SameSlices
<1>2. StagedBytes(c) /\ Totals(c)
  BY DEF Memory
<1>3. CASE Stage(l)
  <2>1. Phase(c) = "stage" /\ at[l] = c
    BY <1>3, SegmentMoves DEF Stage, At
  <2>2. staged' = [staged EXCEPT ![l] = All(c.round)] /\ staged \in [Lane -> Value]
    BY <1>2, <1>3, <2>1 DEF Stage, Totals, TypeOK
  <2>3. ASSUME NEW m \in Lane, Did(m, c)'  PROVE  staged'[m] = All(c.round)
    <3>1. CASE m = l
      BY <2>2, <3>1
    <3>2. CASE m # l
      BY <1>2, <2>1, <2>2, <2>3, <3>2, SegmentMoves DEF StagedBytes
    <3>3. QED
      BY <3>1, <3>2
  <2>4. QED
    BY <1>1, <2>1, <2>3 DEF StagedBytes
<1>4. CASE staged' = staged /\ Phase(at[l]) # "stage"
  <2>1. Phase(c) # "stage"
    <3>1. Phase(at[l]) = "write" => Phase(c) = "total"
      BY SegmentMoves
    <3>2. Phase(at[l]) # "write" => at[l] = c
      BY SegmentMoves
    <3>3. QED
      BY <1>4, <3>1, <3>2
  <2>2. QED
    BY <1>1, <1>2, <1>4, <2>1 DEF StagedBytes
<1>5. QED
  BY <1>3, <1>4 DEF Segment, Prepare, Fill, Reduce, Total, Write, Rope, Pack4, Result, At

LEMMA SegmentResults ==
  ASSUME TypeOK, NEW c, Interval(c), Memory(c), NEW l \in Lane, Segment(l)
  PROVE  Results(c)'
<1>1. /\ kernel' = kernel /\ rounds' = rounds /\ nlanes' = nlanes
      /\ Phase(c)' = Phase(c) /\ \A r : All(r)' = All(r)
  BY SegmentMoves, SamePlaces, SameSlices
<1>2. Results(c) /\ Totals(c) /\ StagedBytes(c) /\ Partials(c)
  BY DEF Memory
<1>3. /\ Launch /\ c \in Place /\ c.round \in 1..rounds /\ result \in [1..rounds -> Value]
      /\ words \in [1..rounds -> [0..(nlanes \div Pack - 1) -> {Unset} \cup SUBSET Value]]
  BY Segments DEF TypeOK, Interval
<1>4. /\ nlanes \in Nat /\ 0 \in Lane /\ rounds \in Nat /\ nlanes \div Pack \in Int
      /\ Lane \subseteq Nat
  BY <1>3, LaneFacts, BatchAssumption
<1>5. \A w \in 0..(nlanes \div Pack - 1) : w \in Lane
  BY <1>3, WordLanes
<1> DEFINE Before(r, w) == r < c.round \/ Phase(c) = "done"
           Now(r, w)    == r = c.round /\ Phase(c) \in {"result", "pack"} /\ Did(w, c)'
<1>6. \A r, w : /\ Stored(c, r, w)' <=> Before(r, w) \/ Now(r, w)
                /\ Before(r, w) => Stored(c, r, w)
  BY <1>1, Zenon DEF Stored
<1>7. CASE Phase(at[l]) \in {"result", "pack"}
  <2>1. Phase(c) = Phase(at[l]) /\ at[l] = c
    BY <1>7, SegmentMoves
  <2>2. /\ Phase(c) = "result" => Result(l)
        /\ Phase(c) = "pack" => Pack4(l) /\ kernel = "kv_write"
    BY <1>3, <2>1, Segments
       DEF Segment, Prepare, Fill, Reduce, Total, Write, Rope, Stage, Pack4, Result, At
  <2>3. kernel = "softmax" => c.round = 2
    <3>1. Phase(c) = "result" => \/ kernel = "softmax" /\ c.round = 2
                                 \/ Matmul
      BY <1>3, Segments
    <3>2. QED
      BY <1>7, <2>1, <2>2, <3>1 DEF Matmul
  <2>4. ASSUME l = 0  PROVE  result' = [result EXCEPT ![c.round] = All(c.round)]
    <3>1. CASE Phase(c) = "pack"
      <4>1. total[l] = All(c.round)
        BY <1>2, <3>1 DEF Totals
      <4>2. QED
        BY <2>1, <2>2, <2>4, <3>1, <4>1 DEF Pack4, Round
    <3>2. CASE Phase(c) = "result"
      <4>1. \A m \in 0..(LastStride - 1) : smem[m] = Fold(c.round, LastStride, m)
        BY <1>2, <3>2 DEF Partials
      <4>2. (IF Matmul THEN Combine(smem[0], smem[1]) ELSE smem[0]) = All(c.round)
        <5>1. CASE Matmul
          <6>1. smem[0] = Fold(c.round, 2, 0) /\ smem[1] = Fold(c.round, 2, 1)
            BY <4>1, <5>1 DEF LastStride
          <6>2. Combine(Fold(c.round, 2 * 1, 0), Fold(c.round, 2 * 1, 0 + 1)) = Fold(c.round, 1, 0)
            BY <1>3, CombineFolds
          <6>3. Combine(smem[0], smem[1]) = Fold(c.round, 1, 0)
            BY <6>1, <6>2
          <6>4. QED
            BY <1>3, <5>1, <6>3, FoldFacts
        <5>2. CASE ~Matmul
          <6>1. smem[0] = Fold(c.round, 1, 0)
            BY <4>1, <5>2 DEF LastStride
          <6>2. QED
            BY <1>3, <5>2, <6>1, FoldFacts
        <5>3. QED
          BY <5>1, <5>2
      <4>3. QED
        BY <2>1, <2>2, <2>4, <3>2, <4>2 DEF Result, Round
    <3>3. QED
      BY <1>7, <2>1, <3>1, <3>2
  <2>5. l # 0 => result' = result
    BY <1>7, <2>1, <2>2 DEF Pack4, Result
  <2>6. ASSUME NEW r \in 1..rounds
        PROVE  /\ r # c.round \/ l # 0 => result'[r] = result[r]
               /\ r = c.round /\ l = 0 => result'[r] = All(r)
    BY <1>3, <2>4, <2>5
  <2>7. kernel = "softmax" => result'[1] = Unset
    BY <1>2, <1>3, <1>4, <2>3, <2>6 DEF Results, Launch
  <2>8. ASSUME NEW r \in 1..rounds
        PROVE  /\ result'[r] \in {Unset, All(r)}
               /\ Stored(c, r, 0)' => (kernel = "softmax" /\ r = 1) \/ result'[r] = All(r)
    <3>1. /\ result[r] \in {Unset, All(r)}
          /\ Stored(c, r, 0) => (kernel = "softmax" /\ r = 1) \/ result[r] = All(r)
      BY <1>2 DEF Results
    <3>2. CASE r = c.round /\ l = 0
      BY <2>6, <3>2
    <3>3. CASE ~(r = c.round /\ l = 0)
      <4>1. Stored(c, r, 0)' => Stored(c, r, 0)
        <5>1. Now(r, 0) => Stored(c, r, 0)
          BY <1>4, <3>3, SegmentMoves DEF Stored
        <5>2. QED
          BY <1>6, <5>1
      <4>2. QED
        BY <2>6, <3>1, <3>3, <4>1
    <3>4. QED
      BY <3>2, <3>3
  <2>9. ASSUME kernel = "kv_write", NEW r \in 1..rounds, NEW w \in 0..(nlanes \div Pack - 1),
               Stored(c, r, w)'
        PROVE  words'[r][w] = {All(r)}
    <3>1. Phase(c) = "pack" /\ Pack4(l)
      BY <1>3, <1>7, <2>1, <2>2, <2>9, Segments DEF Matmul
    <3>2. Stored(c, r, w) => words[r][w] = {All(r)}
      BY <1>2, <2>9 DEF Results
    <3>3. CASE r = c.round /\ w = l
      <4>1. Word(l) \subseteq Lane /\ Word(l) # {} /\ l < nlanes \div Pack
        BY <1>3, <1>4, <3>3, WordLanes
      <4>2. {staged[m] : m \in Word(l)} = {All(r)}
        BY <1>2, <3>1, <3>3, <4>1 DEF StagedBytes
      <4>3. words' = [words EXCEPT ![r][l] = {All(r)}]
        BY <2>1, <3>1, <3>3, <4>1, <4>2 DEF Pack4, Round
      <4>4. QED
        BY <1>3, <3>3, <4>3
    <3>4. CASE ~(r = c.round /\ w = l)
      <4>1. Stored(c, r, w)
        <5>1. Now(r, w) => Stored(c, r, w)
          BY <1>5, <3>4, SegmentMoves DEF Stored
        <5>2. QED
          BY <1>6, <2>9, <5>1
      <4>2. words'[r][w] = words[r][w]
        <5>1. CASE l < nlanes \div Pack
          <6>1. words' = [words EXCEPT ![c.round][l] = {staged[m] : m \in Word(l)}]
            BY <2>1, <3>1, <5>1 DEF Pack4, Round
          <6>2. QED
            BY <1>3, <3>4, <6>1
        <5>2. CASE ~(l < nlanes \div Pack)
          BY <3>1, <5>2 DEF Pack4
        <5>3. QED
          BY <5>1, <5>2
      <4>3. QED
        BY <3>2, <4>1, <4>2
    <3>5. QED
      BY <3>3, <3>4
  <2>10. QED
    BY <1>1, <2>7, <2>8, <2>9 DEF Results
<1>8. CASE result' = result /\ words' = words /\ Phase(at[l]) \notin {"result", "pack"}
  <2>1. Phase(c) \notin {"result", "pack"}
    <3>1. Phase(at[l]) = "write" => Phase(c) = "total"
      BY SegmentMoves
    <3>2. Phase(at[l]) # "write" => at[l] = c
      BY SegmentMoves
    <3>3. QED
      BY <1>8, <3>1, <3>2
  <2>2. \A r, w : Stored(c, r, w)' => Stored(c, r, w)
    BY <1>6, <2>1
  <2>3. QED
    BY <1>1, <1>2, <1>8, <2>2 DEF Results
<1>9. QED
  BY <1>7, <1>8 DEF Segment, Prepare, Fill, Reduce, Total, Write, Rope, Stage, Pack4, Result, At

(* A step of one lane stays in the interval and keeps its memory.          *)
LEMMA SegmentKeeps ==
  ASSUME IInv, NEW l \in Lane, Segment(l)
  PROVE  IInv'
<1> PICK c \in Place : TypeOK /\ Interval(c) /\ Memory(c)
  BY DEF IInv
<1>1. TypeOK' /\ Interval(c)' /\ Place' = Place
  BY SegmentType, SegmentMoves, SamePlaces
<1>2. Memory(c)'
  BY SegmentRow, SegmentPartials, SegmentTotals, SegmentSlices, SegmentStaged,
     SegmentResults DEF Memory
<1>3. QED
  BY <1>1, <1>2 DEF IInv

-----------------------------------------------------------------------------
(* A barrier opens: what the interval promised is what the next one needs. *)

LEMMA ReleaseKeeps ==
  ASSUME IInv, Release
  PROVE  IInv'
<1> PICK c \in Place : TypeOK /\ Interval(c) /\ Memory(c)
  BY DEF IInv
<1> PICK a \in Place, b \in Place :
      /\ \A m \in Lane : at[m] = a
      /\ \/ a = c /\ \A m \in Lane : Did(m, c)
         \/ /\ kernel = "norm_rope" /\ Phase(c) = "total" /\ Phase(a) = "write"
            /\ \A m \in Lane : Did(m, c) /\ DidWrite(m)
      /\ Sync(a) /\ a.round = c.round
      /\ b = After(a) /\ Interval(b)'
      /\ at' \in [Lane -> Place] /\ waiting' = {}
      /\ \A m \in Lane : ~Did(m, b)' /\ at'[m] = b
  BY Releases
<1>1. UNCHANGED <<launch, smem, row, staged, x, total, result, words>>
  BY DEF Release
<1>2. /\ Lane' = Lane /\ Elem' = Elem /\ Value' = Value /\ Half' = Half /\ Place' = Place
      /\ kernel' = kernel /\ nlanes' = nlanes /\ rounds' = rounds
      /\ LastStride' = LastStride
      /\ (Matmul' <=> Matmul) /\ (Launch' <=> Launch) /\ Phase(b)' = Phase(b)
      /\ \A m : /\ Strided(m)' = Strided(m) /\ Blocked(m)' = Blocked(m)
                /\ Rotated(m)' = Rotated(m)
      /\ \A r : All(r)' = All(r)
      /\ \A r, m, k : Fold(r, m, k)' = Fold(r, m, k)
  BY <1>1, SamePlaces, SameSlices
<1>3. /\ Launch /\ c.round \in 1..rounds /\ rounds \in Nat /\ nlanes \in Nat
      /\ Lane \subseteq Nat /\ 0 \in Lane
      /\ RowReady(c) /\ Partials(c) /\ Totals(c) /\ Slices(c) /\ StagedBytes(c) /\ Results(c)
  BY Segments, LaneFacts DEF TypeOK, Memory
<1>4. /\ \A m \in Lane : Did(m, c)
      /\ a = c \/ (kernel = "norm_rope" /\ Phase(c) = "total" /\ Phase(a) = "write")
  OBVIOUS
<1>5. \/ /\ Phase(a) = "prepare" /\ a = c /\ kernel = "coop"
         /\ Phase(b) = "fill" /\ b.round = c.round
      \/ /\ Phase(a) = "fill" /\ a = c
         /\ Phase(b) = "reduce" /\ b.round = c.round /\ b.stride = nlanes \div 2
      \/ /\ Phase(a) = "reduce" /\ a = c /\ ~Reduced(a)
         /\ Phase(b) = "reduce" /\ b.round = c.round /\ c.stride = 2 * b.stride
      \/ /\ Phase(a) = "reduce" /\ a = c /\ Reduced(a) /\ c.stride = LastStride
         /\ Phase(b) \in {"total", "result"} /\ b.round = c.round
      \/ /\ Phase(a) = "total" /\ a = c /\ kernel = "softmax" /\ c.round = 1
         /\ Phase(b) = "fill" /\ b.round = 2
      \/ /\ Phase(a) = "total" /\ a = c /\ kernel = "kv_write"
         /\ Phase(b) = "stage" /\ b.round = c.round
      \/ /\ Phase(a) = "stage" /\ a = c /\ kernel = "kv_write"
         /\ Phase(b) = "pack" /\ b.round = c.round
      \/ /\ Phase(a) = "write" /\ kernel = "norm_rope" /\ Phase(c) = "total"
         /\ Phase(b) = "rope" /\ b.round = c.round
      \/ /\ Phase(a) = "pack" /\ a = c /\ kernel = "kv_write"
         /\ Phase(b) = "fill" /\ b.round = c.round + 1
      \/ /\ Phase(a) = "result" /\ a = c /\ Matmul
         /\ IF c.round < rounds THEN Phase(b) = "fill" /\ b.round = c.round + 1
                                ELSE Phase(b) = "done" /\ b.round = c.round
  <2>1. CASE Phase(a) = "reduce"
    BY <1>3, <1>4, <2>1, AfterReduce, AfterSegment
  <2>2. CASE Phase(a) # "reduce"
    <3>1. Phase(a) # "done"
      BY DEF Sync
    <3>2. CASE Phase(a) \in {"prepare", "fill", "stage"}
      BY <1>3, <1>4, <2>2, <3>1, <3>2, AfterSegment, Segments
    <3>3. CASE Phase(a) = "total"
      BY <1>3, <1>4, <2>2, <3>1, <3>3, AfterSegment, Segments DEF Sync
    <3>4. CASE Phase(a) = "write"
      BY <1>3, <1>4, <2>2, <3>1, <3>4, AfterSegment DEF Sync, Interval
    <3>5. CASE Phase(a) = "pack"
      <4>1. a.round = 1 /\ kernel = "kv_write" /\ rounds = 2
        BY <1>3, <3>5, Segments DEF Sync, Launch
      <4>2. QED
        BY <1>3, <1>4, <2>2, <3>1, <3>5, <4>1, AfterSegment
    <3>6. CASE Phase(a) = "result"
      BY <1>3, <1>4, <2>2, <3>1, <3>6, AfterSegment DEF Sync
    <3>7. Phase(a) \in {"prepare", "fill", "stage", "total", "write", "pack", "result"}
      BY <2>2 DEF Sync
    <3>8. QED
      BY <3>2, <3>3, <3>4, <3>5, <3>6, <3>7
  <2>3. QED
    BY <2>1, <2>2
<1>6. TypeOK'
  BY <1>1, <1>2 DEF TypeOK
<1>7. RowReady(b)'
  <2>1. kernel = "coop" => \A m \in Lane : \A d \in Blocked(m) : row[d] = "dequantized"
    BY <1>3, <1>4 DEF RowReady
  <2>2. QED
    BY <1>1, <1>2, <2>1 DEF RowReady
<1>8. Partials(b)'
  <2>1. ASSUME Phase(b) = "reduce", NEW l \in Lane, l < 2 * b.stride
        PROVE  smem[l] = Fold(b.round, 2 * b.stride, l)
    <3>1. CASE Phase(c) = "fill"
      <4>1. nlanes = 2 * b.stride /\ b.round = c.round
        BY <1>3, <1>5, <2>1, <3>1, FirstStride
      <4>2. QED
        BY <1>3, <1>4, <3>1, <4>1 DEF Partials
    <3>2. CASE Phase(c) = "reduce"
      <4>1. b.round = c.round /\ c.stride = 2 * b.stride /\ c.stride \in Nat
        BY <1>3, <1>5, <2>1, <3>2, AfterReduce
      <4>2. l \in Nat /\ l < c.stride /\ l < 2 * c.stride
        BY <1>3, <2>1, <4>1
      <4>3. QED
        BY <1>3, <1>4, <3>2, <4>1, <4>2 DEF Partials
    <3>3. QED
      BY <1>5, <2>1, <3>1, <3>2
  <2>2. ASSUME Phase(b) \in {"total", "result"}, NEW l \in 0..(LastStride - 1)
        PROVE  smem[l] = Fold(b.round, LastStride, l)
    <3>1. Phase(c) = "reduce" /\ c.stride = LastStride /\ b.round = c.round
      BY <1>5, <2>2
    <3>2. LastStride \in {1, 2} /\ nlanes > 2
      BY <1>3, LaneFacts
    <3>3. l \in Lane /\ l < LastStride /\ l < 2 * LastStride
      BY <1>3, <2>2, <3>2 DEF Lane
    <3>4. QED
      BY <1>3, <1>4, <3>1, <3>3 DEF Partials
  <2>3. QED
    BY <1>1, <1>2, <2>1, <2>2 DEF Partials
<1>9. Totals(b)'
  <2>1. Phase(b) \in {"stage", "pack", "rope"} => \A m \in Lane : total[m] = All(b.round)
    BY <1>3, <1>4, <1>5 DEF Totals
  <2>2. kernel = "softmax" /\ b.round = 2 => \A m \in Lane : total[m] = All(1)
    <3>1. CASE kernel = "softmax" /\ b.round = 2 /\ c.round # 2
      <4>1. Phase(c) = "total" /\ c.round = 1
        BY <1>3, <1>5, <3>1 DEF Matmul
      <4>2. QED
        BY <1>3, <1>4, <4>1 DEF Totals
    <3>2. CASE kernel = "softmax" /\ c.round = 2
      BY <1>3, <3>2 DEF Totals
    <3>3. QED
      BY <3>1, <3>2
  <2>3. QED
    BY <1>1, <1>2, <1>3, <2>1, <2>2 DEF Totals
<1>10. Slices(b)'
  <2>1. ASSUME kernel \in {"norm", "norm_rope"}, Phase(b) # "rope",
               NEW l \in Lane, NEW d \in Strided(l)
        PROVE  x[d] = IF Phase(b) = "total" /\ DidWrite(l)' THEN "normed" ELSE "raw"
    <3>1. Phase(c) \in {"fill", "reduce"}
      BY <1>5, <2>1 DEF Matmul
    <3>2. x[d] = "raw"
      BY <1>3, <2>1, <3>1 DEF Slices
    <3>3. ~(Phase(b) = "total" /\ DidWrite(l)')
      BY <1>2 DEF DidWrite
    <3>4. QED
      BY <3>2, <3>3
  <2>2. ASSUME Phase(b) = "rope", NEW d \in Elem  PROVE  x[d] = "normed"
    <3>1. /\ kernel = "norm_rope" /\ Phase(c) = "total" /\ Phase(a) = "write"
          /\ \A m \in Lane : DidWrite(m)
      BY <1>5, <2>2
    <3>2. d % nlanes \in Lane /\ d \in Strided(d % nlanes)
      BY <1>3, SliceOf
    <3>3. QED
      BY <1>3, <3>1, <3>2 DEF Slices
  <2>3. \A l \in Lane : Rotated(l) \subseteq Elem
    BY <1>3, RotatedSlices
  <2>4. ASSUME kernel = "softmax", b.round # 1, Phase(b) # "fill"
        PROVE  \A l \in Lane : \A d \in Strided(l) : x[d] = "weight"
    <3>1. c.round = b.round
      BY <1>5, <2>4 DEF Matmul
    <3>2. QED
      BY <1>3, <1>4, <2>4, <3>1 DEF Slices
  <2>5. kernel = "softmax" /\ b.round = 1 => \A d \in Elem : x[d] = "raw"
    <3>1. kernel = "softmax" /\ b.round = 1 => c.round = 1
      BY <1>3, <1>5 DEF Matmul
    <3>2. QED
      BY <1>3, <3>1 DEF Slices
  <2>6. kernel \in {"kv_write", "matmul", "coop"} => \A d \in Elem : x[d] = "raw"
    BY <1>3 DEF Slices
  <2>7. QED
    BY <1>1, <1>2, <2>1, <2>2, <2>3, <2>4, <2>5, <2>6 DEF Slices
<1>11. StagedBytes(b)'
  <2>1. Phase(b) = "pack" => \A m \in Lane : staged[m] = All(b.round)
    BY <1>3, <1>4, <1>5 DEF StagedBytes
  <2>2. QED
    BY <1>1, <1>2, <2>1 DEF StagedBytes
<1>12. Results(b)'
  <2>1. \A w \in 0..(nlanes \div Pack - 1) : w \in Lane
    BY <1>3, WordLanes
  <2>2. ASSUME NEW r \in 1..rounds, NEW w \in Lane, Stored(b, r, w)'
        PROVE  Stored(c, r, w) \/ (kernel = "softmax" /\ r = 1)
    <3>1. r < b.round \/ Phase(b) = "done"
      BY <1>2, <2>2 DEF Stored
    <3>2. CASE r < c.round
      BY <3>2 DEF Stored
    <3>3. CASE ~(r < c.round)
      <4>1. r = c.round
        BY <1>3, <1>5, <3>1, <3>3
      <4>2. CASE Phase(c) \in {"result", "pack"}
        BY <1>4, <4>1, <4>2 DEF Stored
      <4>3. CASE Phase(c) \notin {"result", "pack"}
        BY <1>3, <1>5, <3>1, <4>1, <4>3
      <4>4. QED
        BY <4>2, <4>3
    <3>4. QED
      BY <3>2, <3>3
  <2>3. Results(c) => \A r \in 1..rounds : result[r] \in {Unset, All(r)}
    BY DEF Results
  <2>4. ASSUME NEW r \in 1..rounds
        PROVE  Stored(b, r, 0)' => (kernel = "softmax" /\ r = 1) \/ result[r] = All(r)
    BY <1>3, <2>2 DEF Results
  <2>5. ASSUME NEW r \in 1..rounds, kernel = "kv_write",
               NEW w \in 0..(nlanes \div Pack - 1), Stored(b, r, w)'
        PROVE  words[r][w] = {All(r)}
    BY <1>3, <2>1, <2>2, <2>5 DEF Results
  <2>6. kernel = "softmax" => result[1] = Unset
    BY <1>3 DEF Results
  <2>7. QED
    BY <1>1, <1>2, <1>3, <2>3, <2>4, <2>5, <2>6 DEF Results
<1>13. QED
  BY <1>2, <1>6, <1>7, <1>8, <1>9, <1>10, <1>11, <1>12 DEF IInv, Memory

-----------------------------------------------------------------------------
(* The invariant, and what it says about the memory of the kernel.         *)

LEMMA InitInv == Init => IInv
<1> SUFFICES ASSUME Init  PROVE IInv
  OBVIOUS
<1>1. Launch
  <2>1. /\ kernel \in Kernels /\ nlanes \in LaneCounts /\ n \in Sizes
        /\ kernel = "kv_write" => n <= nlanes
    BY DEF Init
  <2>2. n \in Nat /\ n_rot \in Nat /\ n_rot <= n /\ (kernel # "norm_rope" => n_rot = 0)
    <3>1. n \in Nat
      BY <2>1, SizesAssumption
    <3>2. CASE kernel = "norm_rope"
      <4>1. n_rot \in RotDims \cap (0..n)
        BY <3>2 DEF Init
      <4>2. QED
        BY <3>1, <3>2, <4>1
    <3>3. CASE kernel # "norm_rope"
      <4>1. n_rot \in {0}
        BY <3>3 DEF Init
      <4>2. QED
        BY <3>1, <3>3, <4>1
    <3>4. QED
      BY <3>2, <3>3
  <2>3. /\ rounds \in Nat \ {0}
        /\ kernel \in {"softmax", "kv_write"} => rounds = 2
        /\ kernel \in {"norm", "norm_rope"} => rounds = 1
    BY <2>1, BatchAssumption DEF Init, Kernels
  <2>4. QED
    BY <2>1, <2>2, <2>3 DEF Launch
<1> DEFINE c == [seg |-> 1, round |-> 1, stride |-> nlanes \div 2]
<1>2. /\ nlanes \div 2 \in 0..nlanes /\ nlanes \div 2 \in Strides
      /\ nlanes \div 2 >= 2 /\ nlanes = 2 * (nlanes \div 2) /\ LastStride \in {1, 2}
      /\ rounds \in Nat \ {0} /\ nlanes \in Nat
  BY <1>1, FirstStride, LaneFacts
<1>3. c.seg = 1 /\ c.round = 1 /\ c.stride = nlanes \div 2
      /\ c \in [seg : 0..5, round : 1..rounds, stride : 0..nlanes]
  BY <1>2
<1>4. /\ Phase(c) = (IF kernel = "coop" THEN "prepare" ELSE "fill")
      /\ Len(Body(1)) >= 3
  <2>1. kernel \in Kernels
    BY <1>1 DEF Launch
  <2>2. QED
    BY <1>1, <1>3, <2>1, BodyOf DEF Phase, Kernels
<1>5. /\ at = [l \in Lane |-> c] /\ waiting = {}
      /\ smem = [l \in Lane |-> Unset] /\ row = [d \in Elem |-> Unset]
      /\ staged = [l \in Lane |-> Unset] /\ x = [d \in Elem |-> "raw"]
      /\ total = [l \in Lane |-> Unset] /\ result = [r \in 1..rounds |-> Unset]
      /\ words = [r \in 1..rounds |-> [w \in 0..(nlanes \div Pack - 1) |-> Unset]]
  BY DEF Init
<1>6. c \in Within(c)
  BY DEF Within
<1> HIDE DEF c
<1>7. c \in Place
  BY <1>2, <1>3, <1>4 DEF Place
<1>8. TypeOK
  BY <1>1, <1>5, <1>7 DEF TypeOK, Value
<1>9. Interval(c)
  BY <1>4, <1>5, <1>6, <1>7 DEF Interval
<1>10. \A l \in Lane : ~Did(l, c) /\ ~DidWrite(l)
  BY <1>4, <1>5 DEF Did, DidWrite
<1>11. RowReady(c) /\ Partials(c) /\ StagedBytes(c)
  BY <1>4, <1>10 DEF RowReady, Partials, StagedBytes
<1>12. Totals(c)
  BY <1>3, <1>4, <1>5 DEF Totals
<1>13. Slices(c)
  BY <1>3, <1>4, <1>5 DEF Slices, Strided
<1>14. Results(c)
  <2>1. \A r \in 1..rounds : \A w : ~Stored(c, r, w)
    BY <1>2, <1>3, <1>4 DEF Stored
  <2>2. \A r \in 1..rounds : result[r] = Unset
    BY <1>5
  <2>3. kernel = "softmax" => 1 \in 1..rounds
    BY <1>2
  <2>4. QED
    BY <2>1, <2>2, <2>3 DEF Results
<1>15. QED
  BY <1>7, <1>8, <1>9, <1>11, <1>12, <1>13, <1>14 DEF IInv, Memory

(* In any state the invariant allows, no two lanes can touch a cell that   *)
(* one of them writes: only lanes of one interval run at the same time.    *)
LEMMA InvRaceFree == IInv => RaceFree
<1> SUFFICES ASSUME IInv, NEW l \in Lane, NEW m \in Lane, l # m
             PROVE  Writes(l) \cap (Reads(m) \cup Writes(m)) = {}
  BY DEF RaceFree
<1> PICK c \in Place : TypeOK /\ Interval(c) /\ Memory(c)
  BY DEF IInv
<1>1. Launch /\ Lane \subseteq Nat
  BY LaneFacts DEF TypeOK
<1>2. /\ Phase(at[l]) \notin {"write", "done"} => at[l] = c
      /\ Phase(at[m]) \notin {"write", "done"} => at[m] = c
      /\ Phase(at[l]) = "write" => Phase(c) = "total" /\ kernel \in {"norm", "norm_rope"}
      /\ Phase(at[m]) = "write" => Phase(c) = "total" /\ kernel \in {"norm", "norm_rope"}
  BY Where
<1>3. /\ Strided(l) \cap Strided(m) = {} /\ Blocked(l) \cap Blocked(m) = {}
      /\ Rotated(l) \cap Rotated(m) = {}
  BY <1>1, OwnSlice
<1>4. CASE At(l, "prepare")
  BY <1>2, <1>3, <1>4 DEF Writes, Reads, Cells, At
<1>5. CASE At(l, "fill")
  BY <1>2, <1>3, <1>5 DEF Writes, Reads, Cells, At
<1>6. CASE At(l, "reduce")
  <2>1. Phase(c) = "reduce" /\ at[l] = c
    BY <1>2, <1>6 DEF At
  <2>2. c.stride \in Nat \ {0} /\ l \in Nat /\ m \in Nat
    BY <1>1, <2>1, AfterReduce
  <2>3. Writes(l) \subseteq {<<"smem", l>>} /\ (Writes(l) # {} => l < c.stride)
    BY <1>6, <2>1 DEF Writes, Cells, At
  <2>4. Writes(m) \subseteq {<<"smem", m>>}
    BY <1>2, <2>1 DEF Writes, Cells, At
  <2>5. Reads(m) \subseteq {<<"smem", m>>, <<"smem", m + c.stride>>}
    BY <1>2, <2>1 DEF Reads, Cells, At
  <2>6. l < c.stride => l # m + c.stride
    BY <2>2
  <2>7. QED
    BY <2>3, <2>4, <2>5, <2>6
<1>7. CASE At(l, "write")
  BY <1>2, <1>3, <1>7 DEF Writes, Reads, Cells, At
<1>8. CASE At(l, "rope")
  BY <1>2, <1>3, <1>8 DEF Writes, Reads, Cells, At
<1>9. CASE At(l, "stage")
  BY <1>2, <1>9 DEF Writes, Reads, Cells, At
<1>10. CASE At(l, "pack")
  BY <1>2, <1>10 DEF Writes, Reads, Cells, At
<1>11. CASE At(l, "result")
  BY <1>2, <1>11 DEF Writes, Reads, Cells, At
<1>12. CASE \A p \in {"prepare", "fill", "reduce", "write", "rope", "stage", "pack", "result"} :
              ~At(l, p)
  BY <1>12 DEF Writes
<1>13. QED
  BY <1>4, <1>5, <1>6, <1>7, <1>8, <1>9, <1>10, <1>11, <1>12

LEMMA InvTotalsExact == IInv => TotalsExact
<1> SUFFICES ASSUME IInv  PROVE TotalsExact
  OBVIOUS
<1> PICK c \in Place : TypeOK /\ Interval(c) /\ Memory(c)
  BY DEF IInv
<1>1. Totals(c) /\ Results(c)
  BY DEF Memory
<1>2. ASSUME NEW l \in Lane, Phase(at[l]) \in {"write", "rope", "stage", "pack"}
      PROVE  total[l] = All(Round(l))
  <2>1. Round(l) = c.round
    BY Where DEF Round
  <2>2. CASE Phase(at[l]) = "write"
    BY <1>1, <2>1, <2>2, Where DEF Totals, Did
  <2>3. CASE Phase(at[l]) # "write"
    BY <1>1, <1>2, <2>1, <2>3, Where DEF Totals
  <2>4. QED
    BY <2>2, <2>3
<1>3. QED
  BY <1>1, <1>2 DEF TotalsExact, Totals, Results

LEMMA InvOutputExact == IInv => OutputExact
<1> SUFFICES ASSUME IInv, AllDone
    PROVE  /\ \A d \in Elem :
                x[d] = CASE kernel \in {"norm", "norm_rope"} ->
                              IF d < 2 * Half THEN "rotated" ELSE "normed"
                         [] kernel = "softmax" -> "weight"
                         [] OTHER -> "raw"
           /\ kernel \in {"norm", "norm_rope"} \/ \A r \in 1..rounds :
                result[r] = IF kernel = "softmax" /\ r = 1 THEN Unset ELSE All(r)
           /\ kernel = "kv_write" => \A r \in 1..rounds :
                                       words[r] = [w \in DOMAIN words[r] |-> {All(r)}]
  BY DEF OutputExact
<1> PICK c \in Place : TypeOK /\ Interval(c) /\ Memory(c)
  BY DEF IInv
<1>1. /\ Launch /\ kernel \in Kernels /\ 0 \in Lane /\ rounds \in Nat /\ c.round \in 1..rounds
      /\ kernel \in {"softmax", "kv_write"} => rounds = 2
      /\ Half \in Nat /\ (kernel # "norm_rope" => Half = 0) /\ Elem \subseteq Nat
      /\ Slices(c) /\ Results(c)
  BY LaneFacts, Segments DEF TypeOK, Memory, Launch
<1>2. \A l \in Lane : Phase(at[l]) = "done"
  BY DEF AllDone
<1>3. /\ kernel = "norm" => Phase(c) = "total"
      /\ kernel = "norm_rope" => Phase(c) = "rope"
      /\ kernel = "softmax" => Phase(c) = "result"
      /\ kernel = "kv_write" => Phase(c) = "pack" /\ c.round = rounds
      /\ Matmul => Phase(c) = "done"
  BY <1>1, <1>2, Where DEF Matmul
<1>4. ASSUME NEW l \in Lane  PROVE  DidWrite(l) /\ (~Matmul => Did(l, c))
  BY <1>2, Where DEF DidWrite, Did, Matmul
<1>5. ASSUME NEW d \in Elem
      PROVE  x[d] = CASE kernel \in {"norm", "norm_rope"} ->
                           IF d < 2 * Half THEN "rotated" ELSE "normed"
                      [] kernel = "softmax" -> "weight"
                      [] OTHER -> "raw"
  <2>1. d % nlanes \in Lane /\ d \in Strided(d % nlanes) /\ d \in Nat
    BY <1>1, SliceOf
  <2>2. CASE kernel = "norm"
    <3>1. x[d] = "normed"
      BY <1>1, <1>3, <1>4, <2>1, <2>2 DEF Slices
    <3>2. ~(d < 2 * Half)
      BY <1>1, <2>1, <2>2
    <3>3. QED
      BY <2>2, <3>1, <3>2
  <2>3. CASE kernel = "norm_rope"
    <3>1. CASE d < 2 * Half
      <4>1. d \in 0..(2 * Half - 1)
        BY <1>1, <2>1, <3>1
      <4>2. (d % Half) % nlanes \in Lane /\ d \in Rotated((d % Half) % nlanes)
        BY <1>1, <4>1, PairOf
      <4>3. x[d] = "rotated"
        BY <1>1, <1>3, <1>4, <2>3, <4>2 DEF Slices, Matmul
      <4>4. QED
        BY <2>3, <3>1, <4>3
    <3>2. CASE ~(d < 2 * Half)
      <4>1. d >= 2 * Half
        BY <1>1, <2>1, <3>2
      <4>2. x[d] = "normed"
        BY <1>1, <1>3, <2>3, <4>1 DEF Slices
      <4>3. QED
        BY <2>3, <3>2, <4>2
    <3>3. QED
      BY <3>1, <3>2
  <2>4. CASE kernel = "softmax"
    <3>1. c.round = 2
      BY <1>1, <1>3, <2>4, Segments DEF Matmul
    <3>2. x[d] = "weight"
      BY <1>1, <1>3, <2>1, <2>4, <3>1 DEF Slices
    <3>3. QED
      BY <2>4, <3>2
  <2>5. CASE kernel \in {"kv_write", "matmul", "coop"}
    <3>1. x[d] = "raw"
      BY <1>1, <2>5 DEF Slices
    <3>2. QED
      BY <2>5, <3>1
  <2>6. QED
    BY <1>1, <2>2, <2>3, <2>4, <2>5 DEF Kernels
<1>6. ASSUME kernel \notin {"norm", "norm_rope"}, NEW r \in 1..rounds, NEW l \in Lane
      PROVE  Stored(c, r, l) \/ (kernel = "softmax" /\ r = 1)
  <2>1. CASE Matmul
    BY <1>3, <2>1 DEF Stored
  <2>2. CASE ~Matmul
    <3>1. c.round = rounds /\ Phase(c) \in {"result", "pack"} /\ Did(l, c)
      BY <1>1, <1>3, <1>4, <1>6, <2>2, Segments DEF Matmul, Kernels
    <3>2. QED
      BY <1>1, <3>1 DEF Stored
  <2>3. QED
    BY <2>1, <2>2
<1>7. ASSUME kernel \notin {"norm", "norm_rope"}, NEW r \in 1..rounds
      PROVE  result[r] = IF kernel = "softmax" /\ r = 1 THEN Unset ELSE All(r)
  BY <1>1, <1>6, <1>7 DEF Results
<1>8. ASSUME kernel = "kv_write", NEW r \in 1..rounds
      PROVE  words[r] = [w \in DOMAIN words[r] |-> {All(r)}]
  <2>1. words[r] \in [0..(nlanes \div Pack - 1) -> {Unset} \cup SUBSET Value]
    BY DEF TypeOK
  <2>2. ASSUME NEW w \in 0..(nlanes \div Pack - 1)  PROVE  words[r][w] = {All(r)}
    <3>1. w \in Lane
      BY <1>1, WordLanes
    <3>2. QED
      BY <1>1, <1>6, <1>8, <3>1 DEF Results
  <2>3. QED
    BY <2>1, <2>2
<1>9. QED
  BY <1>5, <1>7, <1>8

-----------------------------------------------------------------------------
(* For every power of two of lanes, every slice and number of rounds, the  *)
(* memories hold what the interval the lanes are in says.                  *)
THEOREM Inductive == Spec => []IInv
<1>1. IInv /\ [Next]_vars => IInv'
  <2> SUFFICES ASSUME IInv, [Next]_vars  PROVE IInv'
    OBVIOUS
  <2>1. ASSUME NEW l \in Lane, Segment(l)  PROVE IInv'
    BY <2>1, SegmentKeeps
  <2>2. CASE Release
    BY <2>2, ReleaseKeeps
  <2>3. CASE UNCHANGED vars
    <3> PICK c \in Place : TypeOK /\ Interval(c) /\ Memory(c)
      BY DEF IInv
    <3>1. /\ UNCHANGED launch
          /\ UNCHANGED <<at, waiting, smem, row, staged, x, total, result, words>>
      BY <2>3 DEF vars
    <3>2. /\ TypeOK' /\ Interval(c)' /\ Place' = Place /\ Phase(c)' = Phase(c)
          /\ \A m : Phase(at[m])' = Phase(at[m])
      BY <3>1, SamePlaces, SameSlices DEF TypeOK, Interval
    <3>3. \A m : /\ Did(m, c)' <=> Did(m, c)
                 /\ DidWrite(m)' <=> DidWrite(m)
                 /\ \A r : Stored(c, r, m)' <=> Stored(c, r, m)
      BY <3>1, <3>2, Zenon DEF Did, DidWrite, Stored
    <3>4. RowReady(c)' /\ Partials(c)' /\ Totals(c)'
      BY <3>1, <3>2, <3>3, SameSlices DEF Memory, RowReady, Partials, Totals
    <3>5. Slices(c)'
      BY <3>1, <3>2, <3>3, SameSlices DEF Memory, Slices
    <3>6. StagedBytes(c)'
      BY <3>1, <3>2, <3>3, SameSlices DEF Memory, StagedBytes
    <3>7. /\ kernel' = kernel /\ rounds' = rounds /\ nlanes' = nlanes
          /\ \A r : All(r)' = All(r)
      BY <3>1, SameSlices
    <3>8. Results(c)'
      BY <3>1, <3>3, <3>7 DEF Memory, Results
    <3>9. QED
      BY <3>2, <3>4, <3>5, <3>6, <3>8 DEF IInv, Memory
  <2>4. QED
    BY <2>1, <2>2, <2>3 DEF Next
<1>2. QED
  BY InitInv, <1>1, PTL DEF Spec

(* Between two barriers no lane writes what another reads or writes: the   *)
(* sync_cube calls of every cooperative kernel are enough.                 *)
THEOREM NoRaces == Spec => []RaceFree
BY Inductive, InvRaceFree, PTL

(* Every total folds each element once, in the round it is used in.        *)
THEOREM TotalsAreExact == Spec => []TotalsExact
BY Inductive, InvTotalsExact, PTL

(* When the workgroup ends, every element and every word is final.         *)
THEOREM OutputIsExact == Spec => []OutputExact
BY Inductive, InvOutputExact, PTL
=============================================================================
