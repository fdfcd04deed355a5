------------------------------ MODULE KvProofs ------------------------------
(***************************************************************************)
(* Proofs about the memory of the KV cache.  KvBudget: what is promised is *)
(* what fits, for every metadata, budget and block size.  KvCache: the     *)
(* packed bytes are the store that KvStore promises, for every number of   *)
(* layers and positions, every head dimension and block size, and either   *)
(* dtype.                                                                  *)
(***************************************************************************)
EXTENDS KvBudget, KvCache, SequenceLemmas

-----------------------------------------------------------------------------
(* KvBudget.                                                               *)

LEMMA QuotientBounds ==
  ASSUME NEW b \in Nat, NEW a \in Nat \ {0}
  PROVE  b \div a \in Nat /\ a * (b \div a) <= b /\ b < a * ((b \div a) + 1)
  OBVIOUS

LEMMA BytesAreNat ==
  ASSUME NEW d \in KvDtypes, NEW n \in Nat
  PROVE  BytesPerToken(d, n) \in Nat
<1>1. n + KvBlock - 1 \in Nat /\ KvBlock \in Nat \ {0} /\ BlockLength \in Nat
  BY DtypeAssumption DEF BlockLength
<1>2. DivCeil(n, KvBlock) \in Nat
  BY <1>1, QuotientBounds DEF DivCeil
<1>3. QED
  BY <1>1, <1>2 DEF BytesPerToken

(* The numbers both readers take from a file.                              *)
LEMMA ReadsAreNat ==
  ASSUME NEW f \in Infos
  PROVE  /\ f.block_count \in Nat \ {0}
         /\ EffectiveHeadCountKv(f) * HeadDim(f) \in Nat
<1>1. /\ f.block_count \in Nat \ {0} /\ f.head_count \in Nat \ {0}
      /\ f.embedding_length \in Nat /\ f.head_count_kv.n \in Nat
  BY InfosAssumption DEF Metadata, Count
<1>2. HeadDim(f) \in Nat
  BY <1>1, QuotientBounds DEF HeadDim
<1>3. EffectiveHeadCountKv(f) \in Nat
  BY <1>1 DEF EffectiveHeadCountKv
<1>4. QED
  BY <1>1, <1>2, <1>3

(* The bytes of a cache grow by what ModelInfo takes for one token.        *)
LEMMA CacheBytesLinear ==
  ASSUME NEW f \in Infos, NEW d \in KvDtypes, NEW n \in Nat,
         CfgHeadCountKv(f) = EffectiveHeadCountKv(f), CfgHeadDim(f) = HeadDim(f)
  PROVE  /\ KvBytesPerTokenPerLayer(f, d) * f.block_count \in Nat
         /\ CacheBytes(f, d, n) = (KvBytesPerTokenPerLayer(f, d) * f.block_count) * n
<1> DEFINE b == BytesPerToken(d, EffectiveHeadCountKv(f) * HeadDim(f))
           l == f.block_count
<1>1. b \in Nat /\ l \in Nat
  BY ReadsAreNat, BytesAreNat
<1>2. CacheBytes(f, d, n) = 2 * (l * (n * b)) /\ KvBytesPerTokenPerLayer(f, d) = 2 * b
  BY DEF CacheBytes, KvBytesPerTokenPerLayer
<1> HIDE DEF b, l
<1>3. 2 * (l * (n * b)) = ((2 * b) * l) * n
  BY <1>1
<1>4. (2 * b) * l \in Nat
  BY <1>1
<1>5. QED
  BY <1>2, <1>3, <1>4 DEF l

(* A plan is tight.                                                        *)
LEMMA Tight ==
  ASSUME NEW f \in Infos, NEW d \in KvDtypes, NEW avail \in Nat,
         CfgHeadCountKv(f) = EffectiveHeadCountKv(f), CfgHeadDim(f) = HeadDim(f)
  PROVE  LET n == MaxContextAtKvDtype(f, avail, d)
         IN /\ n \in Nat
            /\ CacheBytes(f, d, n) <= avail
            /\ CacheBytes(f, d, 1) > 0 => avail < CacheBytes(f, d, n + 1)
<1> DEFINE a == KvBytesPerTokenPerLayer(f, d) * f.block_count
           n == MaxContextAtKvDtype(f, avail, d)
<1>1. a \in Nat /\ \A m \in Nat : CacheBytes(f, d, m) = a * m
  BY CacheBytesLinear
<1>2. n = IF a = 0 THEN 0 ELSE avail \div a
  BY DEF MaxContextAtKvDtype
<1> HIDE DEF a, n
<1>3. CASE a = 0
  <2>1. n = 0 /\ n + 1 \in Nat
    BY <1>2, <1>3
  <2>2. CacheBytes(f, d, n) = 0 /\ CacheBytes(f, d, 1) = 0
    BY <1>1, <1>3, <2>1
  <2>3. QED
    BY <2>1, <2>2 DEF n
<1>4. CASE a # 0
  <2>1. n \in Nat /\ a * n <= avail /\ avail < a * (n + 1)
    BY <1>1, <1>2, <1>4, QuotientBounds
  <2>2. CacheBytes(f, d, n) = a * n /\ CacheBytes(f, d, n + 1) = a * (n + 1)
    BY <1>1, <2>1
  <2>3. QED
    BY <2>1, <2>2 DEF n
<1>5. QED
  BY <1>3, <1>4

(* What was promised and allocated comes from the file, by both readers.   *)
BudgetInv ==
  /\ info \in Infos /\ kv_dtype \in KvDtypes /\ available \in Nat
  /\ context # NONE => context = MaxContextAtKvDtype(info, available, kv_dtype)
  /\ allocated # NONE => context # NONE /\ allocated = CacheBytes(info, kv_dtype, context)

(* The cache allocated for the context that ModelInfo promises fits the    *)
(* budget and no longer one does, for every plain file, budget and kv_dtype.  *)
THEOREM PlansAreTight == BudgetSpec => []PlanIsTightForPlainFiles
<1>1. BudgetInit => BudgetInv
  BY BudgetsAssumption DEF BudgetInit, BudgetInv
<1>2. BudgetInv /\ [BudgetNext]_budgetVars => BudgetInv'
  <2> SUFFICES ASSUME BudgetInv, [BudgetNext]_budgetVars PROVE BudgetInv'
    OBVIOUS
  <2>1. CASE Plan
    <3>1. allocated = NONE
      BY <2>1 DEF BudgetInv, Plan
    <3>2. QED
      BY <2>1, <3>1 DEF BudgetInv, Plan
  <2>2. CASE Allocate
    BY <2>2 DEF BudgetInv, Allocate
  <2>3. CASE UNCHANGED budgetVars
    BY <2>3 DEF budgetVars, BudgetInv
  <2>4. QED
    BY <2>1, <2>2, <2>3 DEF BudgetNext
<1>3. BudgetInv => PlanIsTightForPlainFiles
  BY Tight DEF BudgetInv, PlanIsTightForPlainFiles, PlanIsTight, SameReading
<1>4. QED
  BY <1>1, <1>2, <1>3, PTL DEF BudgetSpec

-----------------------------------------------------------------------------
(* KvCache.                                                                *)

Dims == dtype \in KvDtypes /\ head_dim_kv \in HeadDims

-----------------------------------------------------------------------------
(* Positions in an array of slots.                                         *)

LEMMA Address ==
  ASSUME NEW b \in Nat \ {0}, NEW q \in Nat, NEW r \in 0 .. (b - 1)
  PROVE  /\ (q * b + r) \div b = q
         /\ ((q * b + r) % b) = r
         /\ q * b + r \in Nat
  OBVIOUS

LEMMA Split ==
  ASSUME NEW b \in Nat \ {0}, NEW n \in Nat
  PROVE  /\ n \div b \in Nat
         /\ (n % b) \in 0 .. (b - 1)
         /\ n = (n \div b) * b + (n % b)
  OBVIOUS

LEMMA WithinArray ==
  ASSUME NEW b \in Nat \ {0}, NEW m \in Nat, NEW q \in 0 .. (m - 1), NEW r \in 0 .. (b - 1)
  PROVE  q * b + r \in 0 .. (m * b - 1)
<1>1. q * b + b <= m * b /\ q * b \in Nat /\ m * b \in Nat
  <2>1. PICK d \in Nat : m = q + 1 + d
    <3>1. m - q - 1 \in Nat /\ m = q + 1 + (m - q - 1)
      OBVIOUS
    <3>2. QED
      BY <3>1
  <2>2. m * b = q * b + b + d * b /\ d * b \in Nat /\ q * b \in Nat
    BY <2>1
  <2>3. QED
    BY <2>2
<1>2. QED
  BY <1>1

LEMMA Sizes ==
  ASSUME Dims
  PROVE  /\ head_dim_kv \in Nat \ {0} /\ SlotBytes \in Nat \ {0}
         /\ KvBlock \in Nat \ {0} /\ BlockLength \in Nat \ {0} /\ BlockLength = 2 + KvBlock
         /\ NLayers \in Nat \ {0} /\ MaxSeqLen \in Nat \ {0}
         /\ dtype = "F16" => SlotBytes = head_dim_kv * 2
         /\ dtype # "F16" => SlotBytes = DivCeil(head_dim_kv, KvBlock) * BlockLength
         /\ DivCeil(head_dim_kv, KvBlock) \in Nat \ {0}
<1>1. head_dim_kv \in Nat \ {0} /\ KvBlock \in Nat \ {0} /\ BlockLength \in Nat \ {0}
      /\ BlockLength = 2 + KvBlock /\ NLayers \in Nat \ {0} /\ MaxSeqLen \in Nat \ {0}
  BY SizesAssumption, DtypeAssumption DEF Dims, BlockLength
<1>2. DivCeil(head_dim_kv, KvBlock) \in Nat \ {0}
  <2> DEFINE n == head_dim_kv + KvBlock - 1
  <2>1. n \in Nat /\ n >= KvBlock
    BY <1>1
  <2> HIDE DEF n
  <2>2. n \div KvBlock \in Nat /\ n = (n \div KvBlock) * KvBlock + (n % KvBlock)
        /\ (n % KvBlock) \in 0 .. (KvBlock - 1)
    BY <1>1, <2>1, Split
  <2>3. n \div KvBlock # 0
    BY <2>1, <2>2, <1>1
  <2>4. QED
    BY <2>2, <2>3 DEF DivCeil, n
<1>3. /\ dtype = "F16" => SlotBytes = head_dim_kv * 2
      /\ dtype # "F16" => SlotBytes = DivCeil(head_dim_kv, KvBlock) * BlockLength
  BY DEF SlotBytes, BytesPerToken
<1>4. ASSUME NEW a \in Nat \ {0}, NEW b \in Nat \ {0}  PROVE a * b \in Nat \ {0}
  OBVIOUS
<1>5. SlotBytes \in Nat \ {0}
  BY <1>1, <1>2, <1>3, <1>4, 2 \in Nat \ {0}
<1>6. QED
  BY <1>1, <1>2, <1>3, <1>5

-----------------------------------------------------------------------------
(* What pack writes: every byte of an element, whatever was there before,  *)
(* and the bytes of the elements only.                                     *)

LEMMA PackF16 ==
  ASSUME Dims, dtype = "F16",
         NEW x, NEW i \in 0 .. (head_dim_kv - 1), NEW c \in {0, 1}, NEW old
  PROVE  /\ 2 * i + c \in 0 .. (SlotBytes - 1)
         /\ PackByte(x, 2 * i + c, old) = <<"f16", x, i, c>>
<1>1. (2 * i + c) \div 2 = i /\ ((2 * i + c) % 2) = c
  BY Sizes
<1>2. i < head_dim_kv /\ 2 * i + c \in 0 .. (head_dim_kv * 2 - 1)
  BY Sizes
<1>3. PackByte(x, 2 * i + c, old) = <<"f16", x, i, c>>
  BY <1>1, <1>2 DEF PackByte
<1>4. QED
  BY <1>2, <1>3, Sizes

LEMMA BlockOf ==
  ASSUME Dims, NEW i \in 0 .. (head_dim_kv - 1)
  PROVE  /\ i \div KvBlock \in 0 .. (DivCeil(head_dim_kv, KvBlock) - 1)
         /\ (i % KvBlock) \in 0 .. (KvBlock - 1)
         /\ i = (i \div KvBlock) * KvBlock + (i % KvBlock)
<1> DEFINE n == head_dim_kv + KvBlock - 1
           b == i \div KvBlock
           d == n \div KvBlock
<1>1. KvBlock \in Nat \ {0} /\ i \in Nat /\ n \in Nat /\ n >= i + KvBlock
  BY Sizes
<1>2. b \in Nat /\ (i % KvBlock) \in 0 .. (KvBlock - 1) /\ i = b * KvBlock + (i % KvBlock)
  BY <1>1, Split
<1> HIDE DEF n
<1>3. d \in Nat /\ (n % KvBlock) \in 0 .. (KvBlock - 1) /\ n = d * KvBlock + (n % KvBlock)
  BY <1>1, Split
<1> HIDE DEF b, d
<1>4. ASSUME d <= b PROVE FALSE
  <2>1. PICK e \in Nat : b = d + e
    <3>1. b - d \in Nat /\ b = d + (b - d)
      BY <1>2, <1>3, <1>4
    <3>2. QED
      BY <3>1
  <2>2. b * KvBlock = d * KvBlock + e * KvBlock /\ e * KvBlock \in Nat /\ d * KvBlock \in Nat
    BY <2>1, <1>1, <1>3
  <2>3. QED
    BY <1>1, <1>2, <1>3, <2>2
<1>5. b \in 0 .. (d - 1)
  BY <1>2, <1>3, <1>4
<1>6. QED
  BY <1>2, <1>5 DEF b, d, n, DivCeil

LEMMA PackQ8 ==
  ASSUME Dims, dtype # "F16",
         NEW x, NEW i \in 0 .. (head_dim_kv - 1), NEW old,
         NEW b, b = i \div KvBlock
  PROVE  /\ b * BlockLength \in 0 .. (SlotBytes - 1)
         /\ b * BlockLength + 1 \in 0 .. (SlotBytes - 1)
         /\ b * BlockLength + 2 + (i % KvBlock) \in 0 .. (SlotBytes - 1)
         /\ PackByte(x, b * BlockLength, old) = <<"scale", x, b, 0>>
         /\ PackByte(x, b * BlockLength + 1, old) = <<"scale", x, b, 1>>
         /\ PackByte(x, b * BlockLength + 2 + (i % KvBlock), old) = <<"q8", x, b, i>>
<1> DEFINE n == DivCeil(head_dim_kv, KvBlock)
           j == i % KvBlock
           L == BlockLength
<1>1. L \in Nat \ {0} /\ n \in Nat \ {0} /\ SlotBytes = n * L /\ L = 2 + KvBlock
      /\ KvBlock \in Nat \ {0} /\ head_dim_kv \in Nat \ {0} /\ ScaleBytes = 2
  BY Sizes, DtypeAssumption
<1>2. b \in 0 .. (n - 1) /\ j \in 0 .. (KvBlock - 1) /\ i = b * KvBlock + j
  BY BlockOf
<1> HIDE DEF n, j, L
<1>3. ASSUME NEW c \in 0 .. (L - 1)
      PROVE  /\ b * L + c \in 0 .. (n * L - 1)
             /\ (b * L + c) \div L = b /\ ((b * L + c) % L) = c
  <2>1. b * L + c \in 0 .. (n * L - 1)
    BY <1>1, <1>2, WithinArray
  <2>2. b \in Nat /\ c \in 0 .. (L - 1)
    BY <1>1, <1>2
  <2>3. (b * L + c) \div L = b /\ ((b * L + c) % L) = c
    BY <1>1, <2>2, Address
  <2>4. QED
    BY <2>1, <2>3
<1>4. 0 \in 0 .. (L - 1) /\ 1 \in 0 .. (L - 1) /\ 2 + j \in 0 .. (L - 1)
  BY <1>1, <1>2
<1>5. b * L \in Nat /\ b * KvBlock \in Nat /\ b * L + 0 = b * L /\ b * L + 2 + j = b * L + (2 + j)
      /\ b * KvBlock < head_dim_kv /\ b * KvBlock + (2 + j) - 2 = i /\ i < head_dim_kv
  BY <1>1, <1>2
<1>6. ASSUME NEW c \in 0 .. (L - 1), c < 2
      PROVE  PackByte(x, b * L + c, old) = <<"scale", x, b, c>>
  BY <1>1, <1>3, <1>5, <1>6 DEF PackByte, L
<1>7. PackByte(x, b * L + (2 + j), old) = <<"q8", x, b, i>>
  <2>1. ~ (2 + j < 2) /\ 2 + j >= 2
    BY <1>2
  <2>2. (b * L + (2 + j)) \div L = b /\ ((b * L + (2 + j)) % L) = 2 + j
    BY <1>3, <1>4
  <2>3. QED
    BY <1>1, <1>5, <2>1, <2>2 DEF PackByte, L
<1>8. /\ PackByte(x, b * L, old) = <<"scale", x, b, 0>>
      /\ PackByte(x, b * L + 1, old) = <<"scale", x, b, 1>>
  BY <1>4, <1>5, <1>6
<1>9. /\ b * L \in 0 .. (n * L - 1) /\ b * L + 1 \in 0 .. (n * L - 1)
      /\ b * L + 2 + j \in 0 .. (n * L - 1)
  <2>1. /\ b * L + 0 \in 0 .. (n * L - 1) /\ b * L + 1 \in 0 .. (n * L - 1)
        /\ b * L + (2 + j) \in 0 .. (n * L - 1)
    BY <1>3, <1>4
  <2>2. QED
    BY <1>5, <2>1
<1>10. QED
  BY <1>1, <1>5, <1>7, <1>8, <1>9 DEF L, j

LEMMA PackAgain ==
  ASSUME NEW x, NEW y, NEW o, NEW old,
         old = ZeroByte \/ old = PackByte(y, o, ZeroByte)
  PROVE  PackByte(x, o, old) = PackByte(x, o, ZeroByte)
  BY Zenon DEF PackByte

-----------------------------------------------------------------------------
(* What unpack reads: the elements of what was packed, zeros where nothing *)
(* was, and nothing of what the floats held before.                        *)

LEMMA UnpackBlank ==
  ASSUME Dims, NEW bytes, DOMAIN bytes = 0 .. (SlotBytes - 1),
         \A o \in 0 .. (SlotBytes - 1) : bytes[o] = ZeroByte,
         NEW old, NEW i \in 0 .. (head_dim_kv - 1), i \in DOMAIN old
  PROVE  Unpack(bytes, old)[i] = Zero
<1>1. CASE dtype = "F16"
  <2>1. 2 * i + 0 = 2 * i /\ 2 * i + 1 \in DOMAIN bytes /\ 2 * i \in DOMAIN bytes
    <3>1. 2 * i + 0 \in DOMAIN bytes /\ 2 * i + 1 \in DOMAIN bytes
      BY <1>1, PackF16
    <3>2. QED
      BY <3>1, Sizes
  <2>2. bytes[2 * i] = ZeroByte /\ bytes[2 * i + 1] = ZeroByte
    BY <2>1
  <2>3. QED
    BY <1>1, <2>1, <2>2 DEF Unpack
<1>2. CASE dtype # "F16"
  <2> DEFINE base == (i \div KvBlock) * BlockLength
             at == base + ScaleBytes + (i % KvBlock)
  <2>1. base \in DOMAIN bytes /\ base + 1 \in DOMAIN bytes /\ at \in DOMAIN bytes
    BY <1>2, PackQ8, DtypeAssumption
  <2>2. bytes[base] = ZeroByte /\ bytes[base + 1] = ZeroByte /\ bytes[at] = ZeroByte
    BY <2>1
  <2>3. {bytes[at], bytes[base], bytes[base + 1]} = {ZeroByte}
    BY <2>2
  <2>4. QED
    BY <1>2, <2>1, <2>3 DEF Unpack
<1>3. QED
  BY <1>1, <1>2

LEMMA UnpackPacked ==
  ASSUME Dims, NEW bytes, NEW x, DOMAIN bytes = 0 .. (SlotBytes - 1),
         \A o \in 0 .. (SlotBytes - 1) : bytes[o] = PackByte(x, o, ZeroByte),
         NEW old, NEW i \in 0 .. (head_dim_kv - 1), i \in DOMAIN old
  PROVE  Unpack(bytes, old)[i] = Element(x, i)
<1>1. CASE dtype = "F16"
  <2>1. 2 * i + 0 \in DOMAIN bytes /\ 2 * i + 1 \in DOMAIN bytes
        /\ bytes[2 * i + 0] = <<"f16", x, i, 0>> /\ bytes[2 * i + 1] = <<"f16", x, i, 1>>
    BY <1>1, PackF16
  <2>2. 2 * i + 0 = 2 * i
    BY Sizes
  <2>3. PICK lo, hi : lo = <<"f16", x, i, 0>> /\ hi = <<"f16", x, i, 1>>
                      /\ lo = bytes[2 * i] /\ hi = bytes[2 * i + 1]
    BY <2>1, <2>2
  <2>4. /\ lo # ZeroByte /\ hi # ZeroByte /\ lo[1] = "f16" /\ hi[1] = "f16"
        /\ lo[2] = hi[2] /\ lo[3] = hi[3] /\ lo[4] = 0 /\ hi[4] = 1 /\ lo[2] = x /\ lo[3] = i
    BY <2>3 DEF ZeroByte
  <2>5. Unpack(bytes, old)[i] = F16(lo[2], lo[3])
    BY <1>1, <2>1, <2>2, <2>3, <2>4 DEF Unpack
  <2>6. QED
    BY <1>1, <2>4, <2>5 DEF Element
<1>2. CASE dtype # "F16"
  <2> DEFINE b == i \div KvBlock
             base == b * BlockLength
             at == base + ScaleBytes + (i % KvBlock)
  <2>1. /\ base \in DOMAIN bytes /\ base + 1 \in DOMAIN bytes /\ at \in DOMAIN bytes
        /\ PackByte(x, base, ZeroByte) = <<"scale", x, b, 0>>
        /\ PackByte(x, base + 1, ZeroByte) = <<"scale", x, b, 1>>
        /\ PackByte(x, at, ZeroByte) = <<"q8", x, b, i>>
    <3>1. ScaleBytes = 2
      BY DtypeAssumption
    <3>2. QED
      BY <1>2, <3>1, PackQ8
  <2>2. PICK q, s0, s1 : /\ q = <<"q8", x, b, i>> /\ s0 = <<"scale", x, b, 0>> /\ s1 = <<"scale", x, b, 1>>
                         /\ q = bytes[at] /\ s0 = bytes[base] /\ s1 = bytes[base + 1]
    BY <2>1
  <2>3. ZeroByte \notin {q, s0, s1}
    BY <2>2 DEF ZeroByte
  <2>4. /\ q[1] = "q8" /\ s0[1] = "scale" /\ s1[1] = "scale" /\ q[2] = s0[2] /\ q[3] = s0[3]
        /\ s0[2] = s1[2] /\ s0[3] = s1[3] /\ s0[4] = 0 /\ s1[4] = 1
        /\ q[2] = x /\ q[3] = b /\ q[4] = i
    BY <2>2
  <2>5. {q, s0, s1} # {ZeroByte}
    BY <2>3
  <2>6. Unpack(bytes, old)[i] = <<"q8", q[2], q[3], q[4]>>
    BY <1>2, <2>1, <2>2, <2>3, <2>4, <2>5 DEF Unpack
  <2>7. QED
    BY <1>2, <2>4, <2>6 DEF Element, Q8
<1>3. QED
  BY <1>1, <1>2

-----------------------------------------------------------------------------
(* The token of a slot, and the token read, are well defined: the first    *)
(* byte, and the first float, name the vector.                             *)

LEMMA FirstByte ==
  ASSUME Dims, NEW x
  PROVE  PackByte(x, 0, ZeroByte) # ZeroByte /\ PackByte(x, 0, ZeroByte)[2] = x
<1>1. 0 \in 0 .. (head_dim_kv - 1) /\ 0 = 0 \div KvBlock /\ 0 * BlockLength = 0 /\ 2 * 0 + 0 = 0
  BY Sizes
<1>2. PackByte(x, 0, ZeroByte) \in {<<"f16", x, 0, 0>>, <<"scale", x, 0, 0>>}
  BY <1>1, PackF16, PackQ8
<1>3. QED
  BY <1>2 DEF ZeroByte

LEMMA FirstFloat ==
  ASSUME NEW x
  PROVE  Element(x, 0) # Zero /\ Element(x, 0)[2] = x
  BY DEF Element, F16, Q8, Zero

LEMMA BlankSlot ==
  ASSUME NEW keys, NEW values, NEW p, SlotBlank(keys, values, p)
  PROVE  SlotToken(keys, values, p) = "blank"
  BY DEF SlotToken

LEMMA HeldSlot ==
  ASSUME Dims, NEW keys, NEW values, NEW p, NEW w \in Vectors,
         SlotHolds(keys, values, p, w)
  PROVE  SlotToken(keys, values, p) = w
<1>1. 0 \in 0 .. (SlotBytes - 1)
  BY Sizes
<1>2. ASSUME NEW u, SlotHolds(keys, values, p, u)
      PROVE  keys[p * SlotBytes + 0] = PackByte(KeyOf(u), 0, ZeroByte)
  BY <1>1, <1>2 DEF SlotHolds
<1>3. ~ SlotBlank(keys, values, p)
  BY <1>1, <1>2, FirstByte DEF SlotBlank
<1>4. ASSUME NEW u, SlotHolds(keys, values, p, u)
      PROVE  u = w
  <2>1. KeyOf(u) = KeyOf(w)
    BY <1>2, <1>4, FirstByte
  <2>2. QED
    BY <2>1 DEF KeyOf
<1>5. SlotHolds(keys, values, p, CHOOSE u \in Vectors : SlotHolds(keys, values, p, u))
  OBVIOUS
<1>6. (CHOOSE u \in Vectors : SlotHolds(keys, values, p, u)) = w
  BY <1>4, <1>5
<1>7. QED
  BY <1>3, <1>6 DEF SlotToken

LEMMA HeldRead ==
  ASSUME NEW r, 0 \in DOMAIN r.k, NEW w \in Vectors, ReadHolds(r, w)
  PROVE  ReadToken(r) = w
<1>1. ASSUME NEW u, ReadHolds(r, u)  PROVE r.k[0] = Element(KeyOf(u), 0)
  BY <1>1 DEF ReadHolds
<1>2. ~ ReadBlank(r)
  BY <1>1, FirstFloat DEF ReadBlank
<1>3. ASSUME NEW u, ReadHolds(r, u)  PROVE u = w
  <2>1. KeyOf(u) = KeyOf(w)
    BY <1>1, <1>3, FirstFloat
  <2>2. QED
    BY <2>1 DEF KeyOf
<1>4. ReadHolds(r, CHOOSE u \in Vectors : ReadHolds(r, u))
  OBVIOUS
<1>5. (CHOOSE u \in Vectors : ReadHolds(r, u)) = w
  BY <1>3, <1>4
<1>6. QED
  BY <1>2, <1>5 DEF ReadToken

-----------------------------------------------------------------------------
(* What a write changes in an array.                                       *)

ByteArray(bytes) == DOMAIN bytes = 0 .. (MaxSeqLen * SlotBytes - 1)

LEMMA PackedSlot ==
  ASSUME Dims, NEW bytes, ByteArray(bytes), NEW x,
         NEW p \in Position, NEW q \in Position, NEW o \in 0 .. (SlotBytes - 1)
  PROVE  /\ ByteArray(Packed(bytes, p, x))
         /\ Packed(bytes, p, x)[q * SlotBytes + o] =
              IF q = p THEN PackByte(x, o, bytes[q * SlotBytes + o])
                       ELSE bytes[q * SlotBytes + o]
<1> DEFINE a == q * SlotBytes + o
<1>1. SlotBytes \in Nat \ {0} /\ MaxSeqLen \in Nat /\ q \in Nat /\ q \in 0 .. (MaxSeqLen - 1)
  BY Sizes DEF Position
<1>2. a \in DOMAIN bytes
  BY <1>1, WithinArray DEF ByteArray
<1>3. a \div SlotBytes = q /\ (a % SlotBytes) = o
  BY <1>1, Address
<1> HIDE DEF a
<1>4. Packed(bytes, p, x)[a] = IF q = p THEN PackByte(x, o, bytes[a]) ELSE bytes[a]
  BY <1>2, <1>3 DEF Packed
<1>5. ByteArray(Packed(bytes, p, x))
  BY DEF Packed, ByteArray
<1>6. QED
  BY <1>4, <1>5 DEF a

(* The arrays write_range goes through.                                    *)
Run(after, bytes, pos_start, xs) ==
  after = [n \in 0 .. Len(xs) |->
             IF n = 0 THEN bytes ELSE Packed(after[n - 1], pos_start + n - 1, xs[n])]

LEMMA RunExists ==
  ASSUME NEW bytes, NEW pos_start, NEW xs, Len(xs) \in Nat
  PROVE  \E after : Run(after, bytes, pos_start, xs)
<1> DEFINE Upto(m, after) ==
             after = [n \in 0 .. m |->
                        IF n = 0 THEN bytes ELSE Packed(after[n - 1], pos_start + n - 1, xs[n])]
           A == {m \in Nat : \E after : Upto(m, after)}
<1>1. 0 \in A
  <2> DEFINE first == [n \in 0 .. 0 |-> bytes]
  <2>1. \A n \in 0 .. 0 : n = 0
    OBVIOUS
  <2>2. first = [n \in 0 .. 0 |->
                   IF n = 0 THEN bytes ELSE Packed(first[n - 1], pos_start + n - 1, xs[n])]
    BY <2>1
  <2> HIDE DEF first
  <2>3. \E after : Upto(0, after)
    BY <2>2
  <2>4. QED
    BY <2>3
<1>2. ASSUME NEW m \in Nat, m \in A  PROVE m + 1 \in A
  <2>1. PICK after : Upto(m, after)
    BY <1>2
  <2> DEFINE next == [n \in 0 .. (m + 1) |->
                        IF n = m + 1 THEN Packed(after[m], pos_start + n - 1, xs[n]) ELSE after[n]]
  <2>2. ASSUME NEW n \in 0 .. (m + 1)
        PROVE  next[n] = IF n = 0 THEN bytes ELSE Packed(next[n - 1], pos_start + n - 1, xs[n])
    <3>1. CASE n = m + 1
      <4>1. n # 0 /\ m \in 0 .. (m + 1) /\ m # m + 1 /\ n - 1 = m
        BY <3>1
      <4>2. next[m] = after[m]
        BY <4>1
      <4>3. next[n] = Packed(after[m], pos_start + n - 1, xs[n])
        BY <3>1
      <4>4. QED
        BY <4>1, <4>2, <4>3
    <3>2. CASE n # m + 1 /\ n # 0
      <4>1. n \in 0 .. m /\ n - 1 \in 0 .. (m + 1) /\ n - 1 # m + 1
        BY <3>2
      <4>2. next[n] = after[n] /\ next[n - 1] = after[n - 1]
        BY <3>2, <4>1
      <4>3. after[n] = Packed(after[n - 1], pos_start + n - 1, xs[n])
        BY <2>1, <3>2, <4>1
      <4>4. QED
        BY <3>2, <4>2, <4>3
    <3>3. CASE n = 0
      <4>1. n \in 0 .. m /\ n # m + 1
        BY <3>3
      <4>2. next[n] = after[n] /\ after[n] = bytes
        BY <2>1, <3>3, <4>1
      <4>3. QED
        BY <3>3, <4>2
    <3>4. QED
      BY <3>1, <3>2, <3>3
  <2>3. next = [n \in 0 .. (m + 1) |->
                  IF n = 0 THEN bytes ELSE Packed(next[n - 1], pos_start + n - 1, xs[n])]
    <3> DEFINE rhs == [n \in 0 .. (m + 1) |->
                  IF n = 0 THEN bytes ELSE Packed(next[n - 1], pos_start + n - 1, xs[n])]
    <3>1. \A n \in 0 .. (m + 1) : next[n] = rhs[n]
      BY <2>2
    <3>2. QED
      BY <3>1
  <2> HIDE DEF next
  <2>4. \E h : Upto(m + 1, h)
    BY <2>3
  <2>5. QED
    BY <2>4
<1> HIDE DEF A
<1>3. Nat \subseteq A
  BY <1>1, <1>2, Induction
<1>4. Len(xs) \in A
  BY <1>3
<1>5. QED
  BY <1>4 DEF A, Run

LEMMA RangeIsRun ==
  ASSUME NEW bytes, NEW pos_start, NEW xs, Len(xs) \in Nat
  PROVE  \E after : Run(after, bytes, pos_start, xs)
                    /\ PackedRange(bytes, pos_start, xs) = after[Len(xs)]
<1>1. Run(CHOOSE after : Run(after, bytes, pos_start, xs), bytes, pos_start, xs)
  BY RunExists
<1>2. PackedRange(bytes, pos_start, xs) = (CHOOSE after : Run(after, bytes, pos_start, xs))[Len(xs)]
  BY DEF PackedRange, Run
<1>3. QED
  BY <1>1, <1>2

LEMMA RangeContents ==
  ASSUME Dims, NEW bytes, ByteArray(bytes), NEW xs, Len(xs) \in Nat,
         NEW p \in Position, p + Len(xs) <= MaxSeqLen
  PROVE  /\ ByteArray(PackedRange(bytes, p, xs))
         /\ \A q \in Position, o \in 0 .. (SlotBytes - 1) :
              PackedRange(bytes, p, xs)[q * SlotBytes + o] =
                IF q - p + 1 \in 1 .. Len(xs)
                THEN PackByte(xs[q - p + 1], o, bytes[q * SlotBytes + o])
                ELSE bytes[q * SlotBytes + o]
<1>1. PICK after : Run(after, bytes, p, xs) /\ PackedRange(bytes, p, xs) = after[Len(xs)]
  BY RangeIsRun
<1> DEFINE Contents(n) ==
             /\ ByteArray(after[n])
             /\ \A q \in Position, o \in 0 .. (SlotBytes - 1) :
                  after[n][q * SlotBytes + o] =
                    IF q - p + 1 \in 1 .. n
                    THEN PackByte(xs[q - p + 1], o, bytes[q * SlotBytes + o])
                    ELSE bytes[q * SlotBytes + o]
           A == {n \in Nat : n <= Len(xs) => Contents(n)}
<1>2. p \in Nat /\ MaxSeqLen \in Nat /\ \A q \in Position : q \in Nat
  BY Sizes DEF Position
<1>3. 0 \in A
  <2>1. after[0] = bytes
    BY <1>1 DEF Run
  <2>2. ASSUME NEW q \in Position  PROVE ~ (q - p + 1 \in 1 .. 0)
    BY <1>2
  <2>3. Contents(0)
    BY <2>1, <2>2
  <2>4. QED
    BY <2>3
<1>4. ASSUME NEW n \in Nat, n \in A  PROVE n + 1 \in A
  <2> SUFFICES ASSUME n + 1 <= Len(xs)  PROVE Contents(n + 1)
    OBVIOUS
  <2>1. Contents(n)
    BY <1>4
  <2>2. after[n + 1] = Packed(after[n], p + n, xs[n + 1])
    <3>1. n + 1 \in 0 .. Len(xs) /\ n + 1 # 0 /\ (n + 1) - 1 = n /\ p + (n + 1) - 1 = p + n
      BY <1>2
    <3>2. after[n + 1] = Packed(after[(n + 1) - 1], p + (n + 1) - 1, xs[n + 1])
      BY <1>1, <3>1 DEF Run
    <3>3. QED
      BY <3>1, <3>2
  <2>3. p + n \in Position
    BY <1>2 DEF Position
  <2>4. ASSUME NEW q \in Position, NEW o \in 0 .. (SlotBytes - 1)
        PROVE  /\ ByteArray(after[n + 1])
               /\ after[n + 1][q * SlotBytes + o] =
                    IF q = p + n THEN PackByte(xs[n + 1], o, after[n][q * SlotBytes + o])
                                 ELSE after[n][q * SlotBytes + o]
    BY <2>1, <2>2, <2>3, PackedSlot
  <2>5. 0 \in 0 .. (SlotBytes - 1)
    BY Sizes
  <2>6. ByteArray(after[n + 1])
    BY <2>3, <2>4, <2>5
  <2>7. ASSUME NEW q \in Position, NEW o \in 0 .. (SlotBytes - 1)
        PROVE  after[n + 1][q * SlotBytes + o] =
                 IF q - p + 1 \in 1 .. (n + 1)
                 THEN PackByte(xs[q - p + 1], o, bytes[q * SlotBytes + o])
                 ELSE bytes[q * SlotBytes + o]
    <3>1. CASE q = p + n
      <4>1. q - p + 1 = n + 1 /\ n + 1 \in 1 .. (n + 1) /\ ~ (q - p + 1 \in 1 .. n)
        BY <1>2, <3>1
      <4>2. after[n][q * SlotBytes + o] = bytes[q * SlotBytes + o]
        BY <2>1, <4>1
      <4>3. QED
        BY <2>4, <3>1, <4>1, <4>2
    <3>2. CASE q # p + n
      <4>1. q - p + 1 \in 1 .. (n + 1) <=> q - p + 1 \in 1 .. n
        BY <1>2, <3>2
      <4>2. QED
        BY <2>1, <2>4, <3>2, <4>1
    <3>3. QED
      BY <3>1, <3>2
  <2>8. QED
    BY <2>6, <2>7
<1> HIDE DEF A
<1>5. Len(xs) \in A
  BY <1>3, <1>4, Induction
<1>6. Contents(Len(xs))
  BY <1>5 DEF A
<1>7. QED
  BY <1>1, <1>6

-----------------------------------------------------------------------------
(* What the writes and reads do to the tokens.                             *)

Written(keys, values, p) ==
  SlotBlank(keys, values, p) \/ \E w \in Vectors : SlotHolds(keys, values, p, w)

LEMMA TokenKept ==
  ASSUME NEW keys, NEW values, NEW keys2, NEW values2, NEW q, Written(keys, values, q),
         \A o \in 0 .. (SlotBytes - 1) :
           /\ keys2[q * SlotBytes + o] = keys[q * SlotBytes + o]
           /\ values2[q * SlotBytes + o] = values[q * SlotBytes + o]
  PROVE  /\ Written(keys2, values2, q)
         /\ SlotToken(keys2, values2, q) = SlotToken(keys, values, q)
<1>1. SlotBlank(keys2, values2, q) = SlotBlank(keys, values, q)
  BY DEF SlotBlank
<1>2. \A w : SlotHolds(keys2, values2, q, w) = SlotHolds(keys, values, q, w)
  BY DEF SlotHolds
<1>3. QED
  BY <1>1, <1>2 DEF Written, SlotToken

LEMMA TokenWritten ==
  ASSUME Dims,
         NEW keys, NEW values, NEW keys2, NEW values2, NEW q, Written(keys, values, q),
         NEW w \in Vectors,
         \A o \in 0 .. (SlotBytes - 1) :
           /\ keys2[q * SlotBytes + o] = PackByte(KeyOf(w), o, keys[q * SlotBytes + o])
           /\ values2[q * SlotBytes + o] = PackByte(ValueOf(w), o, values[q * SlotBytes + o])
  PROVE  Written(keys2, values2, q) /\ SlotToken(keys2, values2, q) = w
<1>1. ASSUME NEW o \in 0 .. (SlotBytes - 1)
      PROVE  /\ keys2[q * SlotBytes + o] = PackByte(KeyOf(w), o, ZeroByte)
             /\ values2[q * SlotBytes + o] = PackByte(ValueOf(w), o, ZeroByte)
  <2>1. \/ keys[q * SlotBytes + o] = ZeroByte /\ values[q * SlotBytes + o] = ZeroByte
        \/ \E u : /\ keys[q * SlotBytes + o] = PackByte(KeyOf(u), o, ZeroByte)
                  /\ values[q * SlotBytes + o] = PackByte(ValueOf(u), o, ZeroByte)
    BY DEF Written, SlotBlank, SlotHolds
  <2>2. QED
    BY <2>1, PackAgain
<1>2. SlotHolds(keys2, values2, q, w)
  BY <1>1 DEF SlotHolds
<1>3. QED
  BY <1>2, HeldSlot DEF Written

LEMMA WriteTokens ==
  ASSUME Dims, NEW keys, NEW values, ByteArray(keys), ByteArray(values),
         \A q \in Position : Written(keys, values, q),
         NEW p \in Position, NEW w \in Vectors,
         NEW keys2, keys2 = Packed(keys, p, KeyOf(w)),
         NEW values2, values2 = Packed(values, p, ValueOf(w))
  PROVE  /\ ByteArray(keys2) /\ ByteArray(values2)
         /\ \A q \in Position :
              /\ Written(keys2, values2, q)
              /\ SlotToken(keys2, values2, q) = IF q = p THEN w ELSE SlotToken(keys, values, q)
<1>1. ByteArray(keys2) /\ ByteArray(values2)
  BY DEF Packed, ByteArray
<1>2. ASSUME NEW q \in Position
      PROVE  /\ Written(keys2, values2, q)
             /\ SlotToken(keys2, values2, q) = IF q = p THEN w ELSE SlotToken(keys, values, q)
  <2>1. CASE q = p
    <3>1. ASSUME NEW o \in 0 .. (SlotBytes - 1)
          PROVE  /\ keys2[q * SlotBytes + o] = PackByte(KeyOf(w), o, keys[q * SlotBytes + o])
                 /\ values2[q * SlotBytes + o] = PackByte(ValueOf(w), o, values[q * SlotBytes + o])
      BY <2>1, PackedSlot
    <3>2. Written(keys2, values2, q) /\ SlotToken(keys2, values2, q) = w
      BY <3>1, TokenWritten
    <3>3. QED
      BY <2>1, <3>2
  <2>2. CASE q # p
    <3>1. ASSUME NEW o \in 0 .. (SlotBytes - 1)
          PROVE  /\ keys2[q * SlotBytes + o] = keys[q * SlotBytes + o]
                 /\ values2[q * SlotBytes + o] = values[q * SlotBytes + o]
      BY <2>2, PackedSlot
    <3>2. QED
      BY <2>2, <3>1, TokenKept
  <2>3. QED
    BY <2>1, <2>2
<1>3. QED
  BY <1>1, <1>2

Names(ks, vs, ws, n) ==
  /\ DOMAIN ws = 1 .. n /\ Len(ks) = n /\ Len(vs) = n
  /\ \A i \in 1 .. n : ks[i] = KeyOf(ws[i]) /\ vs[i] = ValueOf(ws[i]) /\ ws[i] \in Vectors

LEMMA RangeTokens ==
  ASSUME Dims, NEW keys, NEW values, ByteArray(keys), ByteArray(values),
         \A q \in Position : Written(keys, values, q),
         NEW n \in Nat, NEW ws, NEW ks, NEW vs, Names(ks, vs, ws, n),
         NEW p \in Position, p + n <= MaxSeqLen,
         NEW keys2, keys2 = PackedRange(keys, p, ks),
         NEW values2, values2 = PackedRange(values, p, vs)
  PROVE  /\ ByteArray(keys2) /\ ByteArray(values2)
         /\ \A q \in Position :
              /\ Written(keys2, values2, q)
              /\ SlotToken(keys2, values2, q) =
                   IF q - p + 1 \in DOMAIN ws THEN ws[q - p + 1] ELSE SlotToken(keys, values, q)
<1>1. DOMAIN ws = 1 .. n /\ Len(ks) = n /\ Len(vs) = n
  BY DEF Names
<1>3. /\ ByteArray(keys2)
      /\ \A q \in Position, o \in 0 .. (SlotBytes - 1) :
           keys2[q * SlotBytes + o] =
             IF q - p + 1 \in 1 .. n THEN PackByte(ks[q - p + 1], o, keys[q * SlotBytes + o])
             ELSE keys[q * SlotBytes + o]
  BY <1>1, RangeContents
<1>4. /\ ByteArray(values2)
      /\ \A q \in Position, o \in 0 .. (SlotBytes - 1) :
           values2[q * SlotBytes + o] =
             IF q - p + 1 \in 1 .. n THEN PackByte(vs[q - p + 1], o, values[q * SlotBytes + o])
             ELSE values[q * SlotBytes + o]
  BY <1>1, RangeContents
<1>5. ASSUME NEW q \in Position
      PROVE  /\ Written(keys2, values2, q)
             /\ SlotToken(keys2, values2, q) =
                  IF q - p + 1 \in DOMAIN ws THEN ws[q - p + 1] ELSE SlotToken(keys, values, q)
  <2>1. CASE q - p + 1 \in 1 .. n
    <3>1. PICK w \in Vectors : w = ws[q - p + 1] /\ ks[q - p + 1] = KeyOf(w) /\ vs[q - p + 1] = ValueOf(w)
      BY <2>1 DEF Names
    <3>2. ASSUME NEW o \in 0 .. (SlotBytes - 1)
          PROVE  /\ keys2[q * SlotBytes + o] = PackByte(KeyOf(w), o, keys[q * SlotBytes + o])
                 /\ values2[q * SlotBytes + o] = PackByte(ValueOf(w), o, values[q * SlotBytes + o])
      BY <1>3, <1>4, <2>1, <3>1
    <3>3. Written(keys2, values2, q) /\ SlotToken(keys2, values2, q) = w
      BY <3>2, TokenWritten
    <3>4. QED
      BY <1>1, <2>1, <3>1, <3>3
  <2>2. CASE ~ (q - p + 1 \in 1 .. n)
    <3>1. ASSUME NEW o \in 0 .. (SlotBytes - 1)
          PROVE  /\ keys2[q * SlotBytes + o] = keys[q * SlotBytes + o]
                 /\ values2[q * SlotBytes + o] = values[q * SlotBytes + o]
      BY <1>3, <1>4, <2>2
    <3>2. QED
      BY <1>1, <2>2, <3>1, TokenKept
  <2>3. QED
    BY <2>1, <2>2
<1>6. QED
  BY <1>3, <1>4, <1>5

Floats(scratch) == DOMAIN scratch = 0 .. (MaxSeqLen * head_dim_kv - 1)

LEMMA FrontFloat ==
  ASSUME Dims, NEW bytes, NEW scratch, Floats(scratch),
         NEW pos \in Position, NEW q \in 0 .. pos, NEW i \in 0 .. (head_dim_kv - 1)
  PROVE  Window(Unpacked(bytes, scratch, pos), q)[i] =
           Unpack(Slot(bytes, q), Window(scratch, q))[i]
<1> DEFINE a == q * head_dim_kv + i
<1>1. head_dim_kv \in Nat \ {0} /\ MaxSeqLen \in Nat /\ q \in Nat /\ q \in 0 .. (MaxSeqLen - 1)
      /\ q <= pos
  BY Sizes DEF Position
<1>2. a \in DOMAIN scratch
  BY <1>1, WithinArray DEF Floats
<1>3. a \div head_dim_kv = q /\ (a % head_dim_kv) = i
  BY <1>1, Address
<1>4. Window(Unpacked(bytes, scratch, pos), q)[i] = Unpacked(bytes, scratch, pos)[a]
  BY DEF Window
<1> HIDE DEF a
<1>5. Unpacked(bytes, scratch, pos)[a] = Unpack(Slot(bytes, q), Window(scratch, q))[i]
  BY <1>1, <1>2, <1>3 DEF Unpacked
<1>6. QED
  BY <1>4, <1>5

LEMMA SlotContents ==
  ASSUME NEW bytes, NEW q
  PROVE  /\ DOMAIN Slot(bytes, q) = 0 .. (SlotBytes - 1)
         /\ \A o \in 0 .. (SlotBytes - 1) : Slot(bytes, q)[o] = bytes[q * SlotBytes + o]
  BY DEF Slot

LEMMA ReadTokens ==
  ASSUME Dims, NEW keys, NEW values, NEW ks, NEW vs, Floats(ks), Floats(vs),
         NEW pos \in Position, NEW q \in 0 .. pos, Written(keys, values, q),
         NEW r, r.k = Window(Unpacked(keys, ks, pos), q),
                r.v = Window(Unpacked(values, vs, pos), q)
  PROVE  ReadToken(r) = SlotToken(keys, values, q)
<1>1. DOMAIN r.k = 0 .. (head_dim_kv - 1) /\ 0 \in DOMAIN r.k
  BY Sizes DEF Window
<1>2. ASSUME NEW scratch  PROVE DOMAIN Window(scratch, q) = 0 .. (head_dim_kv - 1)
  BY DEF Window
<1>3. CASE SlotBlank(keys, values, q)
  <2>1. \A o \in 0 .. (SlotBytes - 1) :
          Slot(keys, q)[o] = ZeroByte /\ Slot(values, q)[o] = ZeroByte
    BY <1>3, SlotContents DEF SlotBlank
  <2>2. ASSUME NEW i \in 0 .. (head_dim_kv - 1)
        PROVE  r.k[i] = Zero /\ r.v[i] = Zero
    <3>1. /\ Unpack(Slot(keys, q), Window(ks, q))[i] = Zero
          /\ Unpack(Slot(values, q), Window(vs, q))[i] = Zero
      <4>1. /\ DOMAIN Slot(keys, q) = 0 .. (SlotBytes - 1)
            /\ DOMAIN Slot(values, q) = 0 .. (SlotBytes - 1)
        BY SlotContents
      <4>2. i \in DOMAIN Window(ks, q) /\ i \in DOMAIN Window(vs, q)
        BY <1>2
      <4>3. Unpack(Slot(keys, q), Window(ks, q))[i] = Zero
        BY <2>1, <4>1, <4>2, UnpackBlank
      <4>4. Unpack(Slot(values, q), Window(vs, q))[i] = Zero
        BY <2>1, <4>1, <4>2, UnpackBlank
      <4>5. QED
        BY <4>3, <4>4
    <3>2. QED
      BY <3>1, FrontFloat
  <2>3. ReadBlank(r)
    BY <1>1, <2>2 DEF ReadBlank
  <2>4. QED
    BY <1>3, <2>3, BlankSlot DEF ReadToken
<1>4. ASSUME NEW w \in Vectors, SlotHolds(keys, values, q, w)
      PROVE  ReadToken(r) = SlotToken(keys, values, q)
  <2>1. \A o \in 0 .. (SlotBytes - 1) :
          /\ Slot(keys, q)[o] = PackByte(KeyOf(w), o, ZeroByte)
          /\ Slot(values, q)[o] = PackByte(ValueOf(w), o, ZeroByte)
    BY <1>4, SlotContents DEF SlotHolds
  <2>2. ASSUME NEW i \in 0 .. (head_dim_kv - 1)
        PROVE  r.k[i] = Element(KeyOf(w), i) /\ r.v[i] = Element(ValueOf(w), i)
    <3>1. /\ Unpack(Slot(keys, q), Window(ks, q))[i] = Element(KeyOf(w), i)
          /\ Unpack(Slot(values, q), Window(vs, q))[i] = Element(ValueOf(w), i)
      <4>1. /\ DOMAIN Slot(keys, q) = 0 .. (SlotBytes - 1)
            /\ DOMAIN Slot(values, q) = 0 .. (SlotBytes - 1)
        BY SlotContents
      <4>2. i \in DOMAIN Window(ks, q) /\ i \in DOMAIN Window(vs, q)
        BY <1>2
      <4>3. Unpack(Slot(keys, q), Window(ks, q))[i] = Element(KeyOf(w), i)
        BY <2>1, <4>1, <4>2, UnpackPacked
      <4>4. Unpack(Slot(values, q), Window(vs, q))[i] = Element(ValueOf(w), i)
        BY <2>1, <4>1, <4>2, UnpackPacked
      <4>5. QED
        BY <4>3, <4>4
    <3>2. QED
      BY <3>1, FrontFloat
  <2>3. ReadHolds(r, w)
    BY <1>1, <2>2 DEF ReadHolds
  <2>4. QED
    BY <1>1, <1>4, <2>3, HeldRead, HeldSlot
<1>5. QED
  BY <1>3, <1>4 DEF Written

-----------------------------------------------------------------------------
(* Every slot of every layer was never written, or holds a token whole.    *)

IInv ==
  /\ Dims
  /\ k = [l \in Layer |-> k[l]] /\ v = [l \in Layer |-> v[l]]
  /\ \A l \in Layer :
       /\ ByteArray(k[l]) /\ ByteArray(v[l])
       /\ \A p \in Position : Written(k[l], v[l], p)
  /\ Floats(k_scratch) /\ Floats(v_scratch)

Tokens == [l \in Layer |-> [p \in Position |-> SlotToken(k[l], v[l], p)]]

LEMMA ConstantDims ==
  ASSUME UNCHANGED <<dtype, head_dim_kv>>
  PROVE  /\ Dims' = Dims
         /\ \A bytes : ByteArray(bytes)' = ByteArray(bytes) /\ Floats(bytes)' = Floats(bytes)
         /\ \A keys, values, p : Written(keys, values, p)' = Written(keys, values, p)
         /\ \A keys, values, p : SlotToken(keys, values, p)' = SlotToken(keys, values, p)
         /\ \A r : ReadToken(r)' = ReadToken(r)
<1>1. Dims' = Dims
  BY DEF Dims
<1>2. SlotBytes' = SlotBytes
  BY DEF SlotBytes
<1>3. \A x, o, old : PackByte(x, o, old)' = PackByte(x, o, old)
  BY DEF PackByte
<1>4. \A x, i : Element(x, i)' = Element(x, i)
  BY DEF Element
<1>5. \A bytes : ByteArray(bytes)' = ByteArray(bytes) /\ Floats(bytes)' = Floats(bytes)
  BY <1>2 DEF ByteArray, Floats
<1>6. \A keys, values, p : SlotBlank(keys, values, p)' = SlotBlank(keys, values, p)
  BY <1>2 DEF SlotBlank
<1>7. \A keys, values, p, w : SlotHolds(keys, values, p, w)' = SlotHolds(keys, values, p, w)
  BY <1>2, <1>3 DEF SlotHolds
<1>8. \A keys, values, p : Written(keys, values, p)' = Written(keys, values, p)
  BY <1>6, <1>7 DEF Written
<1>9. \A keys, values, p : SlotToken(keys, values, p)' = SlotToken(keys, values, p)
  BY <1>6, <1>7 DEF SlotToken
<1>10. \A r, w : ReadHolds(r, w)' = ReadHolds(r, w)
  BY <1>4 DEF ReadHolds
<1>11. \A r : ReadToken(r)' = ReadToken(r)
  BY <1>10 DEF ReadToken, ReadBlank
<1>12. QED
  BY <1>1, <1>5, <1>8, <1>9, <1>11

LEMMA InitInv ==
  ASSUME CacheInit
  PROVE  /\ IInv
         /\ Tokens = [l \in Layer |-> [p \in Position |-> "blank"]]
<1> DEFINE bytes == [o \in 0 .. (MaxSeqLen * SlotBytes - 1) |-> ZeroByte]
<1>1. Dims
  BY DEF CacheInit, Dims
<1>2. k = [l \in Layer |-> bytes] /\ v = [l \in Layer |-> bytes]
  BY DEF CacheInit
<1>3. ByteArray(bytes)
  BY DEF ByteArray
<1>4. ASSUME NEW p \in Position  PROVE SlotBlank(bytes, bytes, p)
  <2>1. ASSUME NEW o \in 0 .. (SlotBytes - 1)
        PROVE  p * SlotBytes + o \in 0 .. (MaxSeqLen * SlotBytes - 1)
    BY <1>1, Sizes, WithinArray DEF Position
  <2>2. QED
    BY <2>1 DEF SlotBlank
<1>5. Floats(k_scratch) /\ Floats(v_scratch)
  BY DEF CacheInit, Floats
<1> HIDE DEF bytes
<1>6. \A l \in Layer : k[l] = bytes /\ v[l] = bytes
  BY <1>2
<1>7. IInv
  BY <1>1, <1>2, <1>3, <1>4, <1>5, <1>6 DEF IInv, Written
<1>8. \A l \in Layer, p \in Position : SlotToken(k[l], v[l], p) = "blank"
  BY <1>4, <1>6, BlankSlot
<1>9. QED
  BY <1>7, <1>8 DEF Tokens

(* A step that replaces the arrays of a layer, the tokens ws from p on.    *)
LEMMA LayerStep ==
  ASSUME IInv, UNCHANGED <<dtype, head_dim_kv, k_scratch, v_scratch, read>>,
         NEW l \in Layer, NEW p \in Position, NEW n \in Nat, NEW ws, DOMAIN ws = 1 .. n,
         p + n <= MaxSeqLen,
         NEW keys, NEW values, ByteArray(keys), ByteArray(values),
         k' = [k EXCEPT ![l] = keys], v' = [v EXCEPT ![l] = values],
         \A q \in Position :
           /\ Written(keys, values, q)
           /\ SlotToken(keys, values, q) =
                IF q - p + 1 \in DOMAIN ws THEN ws[q - p + 1] ELSE SlotToken(k[l], v[l], q)
  PROVE  IInv' /\ Store!StoreWrite(l, p, ws)
<1>1. \A m \in Layer : /\ k'[m] = IF m = l THEN keys ELSE k[m]
                       /\ v'[m] = IF m = l THEN values ELSE v[m]
  BY DEF IInv
<1>2. k' = [m \in Layer |-> k'[m]] /\ v' = [m \in Layer |-> v'[m]]
  BY DEF IInv
<1>3. ASSUME NEW m \in Layer
      PROVE  /\ ByteArray(k[m])' /\ ByteArray(v[m])'
             /\ \A q \in Position : Written(k[m], v[m], q)'
  <2>1. PICK keys2, values2 : keys2 = k'[m] /\ values2 = v'[m]
    OBVIOUS
  <2>2. ByteArray(keys2) /\ ByteArray(values2) /\ \A q \in Position : Written(keys2, values2, q)
    BY <1>1, <2>1 DEF IInv
  <2>3. ByteArray(keys2)' /\ ByteArray(values2)' /\ \A q \in Position : Written(keys2, values2, q)'
    BY <2>2, ConstantDims
  <2>4. QED
    BY <2>1, <2>3
<1>4. Dims' /\ Floats(k_scratch)' /\ Floats(v_scratch)'
  <2>1. Dims' /\ k_scratch' = k_scratch /\ v_scratch' = v_scratch
    BY ConstantDims DEF IInv
  <2>2. (DOMAIN k_scratch)' = DOMAIN k_scratch /\ (DOMAIN v_scratch)' = DOMAIN v_scratch
    BY <2>1
  <2>3. QED
    BY <2>1, <2>2 DEF IInv, Floats
<1>5. IInv'
  BY <1>2, <1>3, <1>4 DEF IInv
<1>6. ASSUME NEW m \in Layer, NEW q \in Position
      PROVE  SlotToken(k[m], v[m], q)' =
               IF m = l /\ q - p + 1 \in DOMAIN ws THEN ws[q - p + 1] ELSE SlotToken(k[m], v[m], q)
  <2>1. PICK keys2, values2 : keys2 = k'[m] /\ values2 = v'[m]
    OBVIOUS
  <2>2. SlotToken(k[m], v[m], q)' = SlotToken(keys2, values2, q)'
    BY <2>1
  <2>3. SlotToken(keys2, values2, q)' = SlotToken(keys2, values2, q)
    BY ConstantDims
  <2>4. QED
    BY <1>1, <2>1, <2>2, <2>3
<1>7. Tokens' = [Tokens EXCEPT ![l] = [q \in Position |->
                   IF q - p + 1 \in DOMAIN ws THEN ws[q - p + 1] ELSE @[q]]]
  BY <1>6 DEF Tokens
<1>8. \A i \in DOMAIN ws : p + i - 1 \in Position
  BY Sizes DEF Position, IInv
<1>9. [i \in DOMAIN read |-> ReadToken(read[i])]' = [i \in DOMAIN read |-> ReadToken(read[i])]
  <2>1. ASSUME NEW i  PROVE ReadToken(read[i])' = ReadToken(read[i])
    <3>1. PICK r : r = read[i]
      OBVIOUS
    <3>2. ReadToken(r)' = ReadToken(r)
      BY ConstantDims
    <3>3. read'[i] = r
      BY <3>1
    <3>4. QED
      BY <3>1, <3>2, <3>3
  <2>2. QED
    BY <2>1
<1>10. QED
  BY <1>5, <1>7, <1>8, <1>9 DEF Store!StoreWrite, Tokens

LEMMA WriteStep ==
  ASSUME IInv, NEW l \in Layer, NEW p \in Position, NEW w \in Vectors,
         Write(l, p, w)
  PROVE  IInv' /\ Store!StoreWrite(l, p, <<w>>)
<1>1. PICK keys, values : /\ keys = Packed(k[l], p, KeyOf(w)) /\ values = Packed(v[l], p, ValueOf(w))
                          /\ k' = [k EXCEPT ![l] = keys] /\ v' = [v EXCEPT ![l] = values]
                          /\ UNCHANGED <<dtype, head_dim_kv, k_scratch, v_scratch, read>>
  BY DEF Write
<1>2. /\ ByteArray(keys) /\ ByteArray(values)
      /\ \A q \in Position :
           /\ Written(keys, values, q)
           /\ SlotToken(keys, values, q) = IF q = p THEN w ELSE SlotToken(k[l], v[l], q)
  BY <1>1, WriteTokens DEF IInv
<1> DEFINE ws == <<w>>
<1>3. DOMAIN ws = 1 .. 1 /\ ws[1] = w /\ 1 \in Nat
  OBVIOUS
<1>4. p \in Nat /\ p + 1 <= MaxSeqLen /\ \A q \in Position : q \in Nat
  BY Sizes DEF Position, IInv
<1> HIDE DEF ws
<1>5. ASSUME NEW q \in Position
      PROVE  SlotToken(keys, values, q) =
               IF q - p + 1 \in DOMAIN ws THEN ws[q - p + 1] ELSE SlotToken(k[l], v[l], q)
  <2>1. q - p + 1 \in DOMAIN ws <=> q = p
    BY <1>3, <1>4
  <2>2. q = p => q - p + 1 = 1
    BY <1>4
  <2>3. QED
    BY <1>2, <1>3, <2>1, <2>2
<1>6. IInv' /\ Store!StoreWrite(l, p, ws)
  BY <1>1, <1>2, <1>3, <1>4, <1>5, LayerStep
<1>7. QED
  BY <1>6 DEF ws

LEMMA WriteRangeStep ==
  ASSUME IInv, NEW l \in Layer, NEW p \in Position,
         NEW n \in Nat, NEW ws \in [1 .. n -> Vectors], WriteRange(l, p, ws)
  PROVE  IInv' /\ Store!StoreWrite(l, p, ws)
<1>1. DOMAIN ws = 1 .. n /\ \A i \in 1 .. n : ws[i] \in Vectors
  OBVIOUS
<1>2. \A s : DOMAIN s = 1 .. n => Len(s) = n
  OBVIOUS
<1>3. PICK ks, vs : ks = [i \in DOMAIN ws |-> KeyOf(ws[i])] /\ vs = [i \in DOMAIN ws |-> ValueOf(ws[i])]
  OBVIOUS
<1>4. /\ Len(ks) = n /\ Len(vs) = n
      /\ \A i \in 1 .. n : ks[i] = KeyOf(ws[i]) /\ vs[i] = ValueOf(ws[i]) /\ ws[i] \in Vectors
  BY <1>1, <1>2, <1>3
<1>5. PICK keys, values : /\ keys = PackedRange(k[l], p, ks) /\ values = PackedRange(v[l], p, vs)
                          /\ k' = [k EXCEPT ![l] = keys] /\ v' = [v EXCEPT ![l] = values]
                          /\ UNCHANGED <<dtype, head_dim_kv, k_scratch, v_scratch, read>>
  BY <1>3 DEF WriteRange
<1>6. p + n <= MaxSeqLen
  BY <1>1, <1>2 DEF WriteRange
<1>7. PICK ko, vo : /\ ko = k[l] /\ vo = v[l] /\ Dims /\ ByteArray(ko) /\ ByteArray(vo)
                   /\ \A q \in Position : Written(ko, vo, q)
  BY DEF IInv
<1>8. /\ ByteArray(keys) /\ ByteArray(values)
      /\ \A q \in Position :
           /\ Written(keys, values, q)
           /\ SlotToken(keys, values, q) =
                IF q - p + 1 \in DOMAIN ws THEN ws[q - p + 1] ELSE SlotToken(k[l], v[l], q)
  <2>1. keys = PackedRange(ko, p, ks) /\ values = PackedRange(vo, p, vs)
    BY <1>5, <1>7
  <2>2. Names(ks, vs, ws, n)
    BY <1>1, <1>4 DEF Names
  <2>3. /\ ByteArray(keys) /\ ByteArray(values)
        /\ \A q \in Position :
             /\ Written(keys, values, q)
             /\ SlotToken(keys, values, q) =
                  IF q - p + 1 \in DOMAIN ws THEN ws[q - p + 1] ELSE SlotToken(ko, vo, q)
    BY <1>6, <1>7, <2>1, <2>2, RangeTokens
  <2>4. QED
    BY <1>7, <2>3
<1>9. QED
  BY <1>1, <1>5, <1>6, <1>8, LayerStep

LEMMA ReadStep ==
  ASSUME IInv, NEW l \in Layer, NEW pos \in Position, ReadUpTo(l, pos)
  PROVE  IInv' /\ Store!StoreRead(l, pos)
<1>1. PICK ks, vs : ks = k_scratch' /\ vs = v_scratch'
  OBVIOUS
<1>2. /\ ks = Unpacked(k[l], k_scratch, pos) /\ vs = Unpacked(v[l], v_scratch, pos)
      /\ UNCHANGED <<dtype, head_dim_kv, k, v>>
  BY <1>1 DEF ReadUpTo
<1>3. Floats(ks) /\ Floats(vs)
  BY <1>2 DEF IInv, Floats, Unpacked
<1>4. IInv'
  <2>1. Dims'
    BY <1>2, ConstantDims DEF IInv
  <2>2. (k = [m \in Layer |-> k[m]])' /\ (v = [m \in Layer |-> v[m]])'
    <3>1. k' = k /\ v' = v
      BY <1>2
    <3>2. QED
      BY <3>1 DEF IInv
  <2>3. ASSUME NEW m \in Layer
        PROVE  ByteArray(k[m])' /\ ByteArray(v[m])' /\ \A q \in Position : Written(k[m], v[m], q)'
    <3>1. PICK keys, values : keys = k[m] /\ values = v[m]
      OBVIOUS
    <3>2. k'[m] = keys /\ v'[m] = values
      BY <1>2, <3>1
    <3>3. ByteArray(keys)' /\ ByteArray(values)' /\ \A q \in Position : Written(keys, values, q)'
      BY <1>2, <3>1, ConstantDims DEF IInv
    <3>4. QED
      BY <3>2, <3>3
  <2>4. Floats(ks)' /\ Floats(vs)'
    BY <1>2, <1>3, ConstantDims
  <2>5. Floats(k_scratch)' /\ Floats(v_scratch)'
    BY <1>1, <2>4
  <2>6. QED
    BY <2>1, <2>2, <2>3, <2>5 DEF IInv
<1>5. Tokens' = Tokens
  <2>1. ASSUME NEW m \in Layer, NEW q \in Position
        PROVE  SlotToken(k[m], v[m], q)' = SlotToken(k[m], v[m], q)
    <3>1. PICK keys, values : keys = k[m] /\ values = v[m]
      OBVIOUS
    <3>2. k'[m] = keys /\ v'[m] = values
      BY <1>2, <3>1
    <3>3. SlotToken(keys, values, q)' = SlotToken(keys, values, q)
      BY <1>2, ConstantDims
    <3>4. QED
      BY <3>1, <3>2, <3>3
  <2>2. QED
    BY <2>1 DEF Tokens
<1>6. read' = [i \in 1 .. (pos + 1) |-> [k |-> Window(ks, i - 1), v |-> Window(vs, i - 1)]]
  <2>1. \A q : Window(k_scratch', q) = Window(ks, q) /\ Window(v_scratch', q) = Window(vs, q)
    BY <1>1
  <2>2. QED
    BY <2>1 DEF ReadUpTo
<1>7. ASSUME NEW i \in 1 .. (pos + 1)
      PROVE  ReadToken(read[i])' = SlotToken(k[l], v[l], i - 1)
  <2>1. PICK r : r = [k |-> Window(ks, i - 1), v |-> Window(vs, i - 1)]
    OBVIOUS
  <2>2. r.k = Window(ks, i - 1) /\ r.v = Window(vs, i - 1) /\ read'[i] = r
    BY <1>6, <2>1
  <2>3. i - 1 \in 0 .. pos /\ i - 1 \in Position
    BY Sizes DEF Position, IInv
  <2>4. ReadToken(r) = SlotToken(k[l], v[l], i - 1)
    BY <1>2, <2>2, <2>3, ReadTokens DEF IInv
  <2>5. ReadToken(r)' = ReadToken(r)
    BY <1>2, ConstantDims
  <2>6. ReadToken(read[i])' = ReadToken(r)'
    BY <2>2
  <2>7. QED
    BY <2>4, <2>5, <2>6
<1>8. [i \in DOMAIN read |-> ReadToken(read[i])]' = [i \in 1 .. (pos + 1) |-> Tokens[l][i - 1]]
  <2>1. (DOMAIN read)' = 1 .. (pos + 1)
    BY <1>6
  <2>2. \A i \in 1 .. (pos + 1) : i - 1 \in Position
    BY Sizes DEF Position, IInv
  <2>3. \A i \in 1 .. (pos + 1) : Tokens[l][i - 1] = SlotToken(k[l], v[l], i - 1)
    BY <2>2 DEF Tokens
  <2>4. QED
    BY <1>7, <2>1, <2>3
<1>9. QED
  BY <1>4, <1>5, <1>8 DEF Store!StoreRead, Tokens

LEMMA Step ==
  ASSUME IInv, [CacheNext]_cacheVars
  PROVE  IInv' /\ [Store!StoreNext]_Store!storeVars
<1>1. CASE CacheNext
  <2>1. PICK l \in Layer, p \in Position :
          \/ ReadUpTo(l, p)
          \/ \E w \in Vectors : Write(l, p, w)
          \/ \E n \in 2 .. MaxRange : \E ws \in [1 .. n -> Vectors] : WriteRange(l, p, ws)
    BY <1>1 DEF CacheNext
  <2>2. MaxRange \in Nat \ {0}
    BY SizesAssumption
  <2> DEFINE Writes == UNION {[1 .. n -> Vectors] : n \in 1 .. MaxRange}
  <2>3. CASE ReadUpTo(l, p)
    <3>1. IInv' /\ Store!StoreRead(l, p)
      BY <2>3, ReadStep
    <3>2. QED
      BY <3>1 DEF Store!StoreNext
  <2>4. ASSUME NEW w \in Vectors, Write(l, p, w)
        PROVE  IInv' /\ Store!StoreNext
    <3>1. IInv' /\ Store!StoreWrite(l, p, <<w>>)
      BY <2>4, WriteStep
    <3>2. <<w>> \in [1 .. 1 -> Vectors] /\ 1 \in 1 .. MaxRange
      BY <2>2
    <3>3. <<w>> \in Writes
      BY <3>2
    <3>4. QED
      BY <3>1, <3>3 DEF Store!StoreNext
  <2>5. ASSUME NEW n \in 2 .. MaxRange, NEW ws \in [1 .. n -> Vectors], WriteRange(l, p, ws)
        PROVE  IInv' /\ Store!StoreNext
    <3>1. n \in Nat /\ n \in 1 .. MaxRange
      BY <2>2
    <3>2. IInv' /\ Store!StoreWrite(l, p, ws)
      BY <2>5, <3>1, WriteRangeStep
    <3>3. ws \in Writes
      BY <3>1
    <3>4. QED
      BY <3>2, <3>3 DEF Store!StoreNext
  <2>6. QED
    BY <2>1, <2>3, <2>4, <2>5
<1>2. CASE UNCHANGED cacheVars
  <2>1. UNCHANGED <<dtype, head_dim_kv>> /\ k' = k /\ v' = v /\ read' = read
        /\ k_scratch' = k_scratch /\ v_scratch' = v_scratch
    BY <1>2 DEF cacheVars
  <2>2. IInv'
    <3>1. (Dims /\ Floats(k_scratch) /\ Floats(v_scratch))'
      BY <2>1 DEF IInv, Dims, Floats
    <3>2. (k = [l \in Layer |-> k[l]])' /\ (v = [l \in Layer |-> v[l]])'
      BY <2>1 DEF IInv
    <3>3. \A l \in Layer : (ByteArray(k[l]) /\ ByteArray(v[l]))'
      BY <2>1 DEF IInv, ByteArray, SlotBytes
    <3>4. \A l \in Layer, p \in Position : Written(k[l], v[l], p)'
      <4> SUFFICES ASSUME NEW l \in Layer, NEW p \in Position  PROVE Written(k[l], v[l], p)'
        OBVIOUS
      <4>1. PICK keys, values : keys = k[l] /\ values = v[l]
        OBVIOUS
      <4>2. Written(keys, values, p)'
        BY <2>1, <4>1, ConstantDims DEF IInv
      <4>3. k'[l] = keys /\ v'[l] = values
        BY <2>1, <4>1
      <4>4. QED
        BY <4>2, <4>3
    <3>5. QED
      BY <3>1, <3>2, <3>3, <3>4 DEF IInv
  <2>3. UNCHANGED Store!storeVars
    BY <2>1 DEF Store!storeVars, SlotToken, SlotBlank, SlotHolds, SlotBytes, PackByte,
                ReadToken, ReadBlank, ReadHolds, Element
  <2>4. QED
    BY <2>2, <2>3
<1>3. QED
  BY <1>1, <1>2

(* In every reachable state each slot of each layer is blank, or holds the *)
(* keys and the values of one token, byte by byte.                         *)
THEOREM Inductive == CacheSpec => []IInv
<1>1. CacheInit => IInv
  BY InitInv
<1>2. IInv /\ [CacheNext]_cacheVars => IInv'
  BY Step
<1>3. QED
  BY <1>1, <1>2, PTL DEF CacheSpec

(* The packed cache is a map from layer and position to what was written   *)
(* there last: for every number of layers and positions, every head        *)
(* dimension and every block, in both dtypes.                              *)
THEOREM CacheIsAStore == CacheSpec => ImplementsStore
<1>1. CacheInit => Store!StoreInit
  <2> SUFFICES ASSUME CacheInit  PROVE Store!StoreInit
    OBVIOUS
  <2>1. Tokens = [l \in Layer |-> [p \in Position |-> "blank"]]
    BY InitInv
  <2>2. read = << >>
    BY DEF CacheInit
  <2>3. [i \in DOMAIN read |-> ReadToken(read[i])] = << >>
    BY <2>2
  <2>4. QED
    BY <2>1, <2>3 DEF Store!StoreInit, Tokens
<1>2. IInv /\ [CacheNext]_cacheVars => [Store!StoreNext]_Store!storeVars
  BY Step
<1>3. QED
  BY <1>1, <1>2, Inductive, PTL DEF CacheSpec, ImplementsStore, Store!StoreSpec
=============================================================================
