----------------------------- MODULE QuantLayout -----------------------------
(***************************************************************************)
(* One row of a quantized matrix, read by the loops that dequantize it or  *)
(* dot it with an activation: the CPU loops of src/src/quant, the GPU      *)
(* partials and cooperative loops of ops/kernels_wgpu.rs and the byte      *)
(* kernels of ops/kernels_u8.rs.                                           *)
(*                                                                         *)
(* The same formats are unpacked in up to five places, each with its own   *)
(* walk: block by block, group by group with SIMD lanes, sub-unit by       *)
(* sub-unit over the lanes of a workgroup, or slot by slot across blocks.  *)
(* Numbers are abstract: a contribution to the sum is the element of the   *)
(* activation it multiplies and the bits it is made of, each bit by its    *)
(* place in the file.  A byte is read through the layout of its memory:    *)
(* the tensor data for the CPU, rows packed in words on the GPU.           *)
(***************************************************************************)
EXTENDS Integers, Sequences, FiniteSets

CONSTANTS
  Walks,     \* rows to read: [fmt, impl, n |-> elements of a row, row]
  NRows,     \* rows of the tensor
  Trailing   \* bytes of other tensors behind it in the data section

Formats == {"Q8_0", "Q5_0", "Q4_K", "Q5_K", "Q6_K", "Q2_K"}
Impls   == {"dequant", "dot", "q8k", "gpu", "gpu_coop", "u8"}
(* Which formats the code reads in which way.                              *)
Implemented ==
  Formats \X {"dequant", "dot"} \cup {"Q8_0", "Q4_K", "Q6_K"} \X {"u8"} \cup {<<"Q5_K", "q8k">>}
    \cup {"Q8_0", "Q4_K", "Q5_K", "Q6_K"} \X {"gpu"} \cup {<<"Q4_K", "gpu_coop">>}
ASSUME WalksAssumption ==
  /\ Walks \subseteq [fmt : Formats, impl : Impls, n : Nat \ {0}, row : 0..(NRows - 1)]
  /\ \A w \in Walks : <<w.fmt, w.impl>> \in Implemented
  /\ NRows \in Nat \ {0} /\ Trailing \in Nat

VARIABLES
  walk,   \* the row being read, and how
  stage,     \* "row_view", "walking", "done", "error" or "panic"
  unit,   \* the next block, or lane, of the walk
  acc     \* contributions so far, each with the unit that made it

rowVars == <<walk, stage, unit, acc>>

N    == walk.n
Fmt  == walk.fmt
OnGpu == walk.impl \in {"gpu", "gpu_coop"}
Lanes == 64
CeilDiv(a, b) == (a + b - 1) \div b

-----------------------------------------------------------------------------
(* GgmlType: elements and bytes of a block.                                *)
BlockSize == IF Fmt \in {"Q8_0", "Q5_0"} THEN 32 ELSE 256
BlockBytes ==
  CASE Fmt = "Q8_0" -> 34  [] Fmt = "Q5_0" -> 22  [] Fmt = "Q4_K" -> 144
    [] Fmt = "Q5_K" -> 176 [] Fmt = "Q6_K" -> 210 [] Fmt = "Q2_K" -> 256
TypeSize == CeilDiv(N, BlockSize) * BlockBytes

Blocks == CeilDiv(N, BlockSize)

(* The bytes of a block in the file: the struct each format's module       *)
(* documents and parses.                                                   *)
StructBytes ==
  CASE Fmt = "Q8_0" -> 2 + 32
    [] Fmt = "Q5_0" -> 2 + 4 + 16
    [] Fmt = "Q4_K" -> 2 + 2 + 12 + 128
    [] Fmt = "Q5_K" -> 2 + 2 + 12 + 32 + 128
    [] Fmt = "Q6_K" -> 128 + 64 + 16 + 2
    [] Fmt = "Q2_K" -> 16 + 64 + 2 + 2
FileRow == Blocks * StructBytes
DataLen == NRows * FileRow + Trailing

(* What is at a byte address.  In the data section: a byte of a row.  In   *)
(* the buffer pack_bytes_to_u32 filled: row_u32s words for each row, the   *)
(* bytes of TypeSize from the slice of the tensor, the rest zero.          *)
InFile(a) == <<a \div FileRow, a % FileRow>>
RowWords  == CeilDiv(TypeSize, 4)
InWords(a) ==
  IF a % (4 * RowWords) < TypeSize
  THEN InFile((a \div (4 * RowWords)) * TypeSize + (a % (4 * RowWords)))
  ELSE <<-1, 0>>

RowBase == walk.row * (IF OnGpu THEN RowWords * 4 ELSE TypeSize)
ByteAt(a)   == IF OnGpu THEN InWords(RowBase + a) ELSE InFile(RowBase + a)

(* Addresses below are relative to the base of the row.  Bits lo..hi-1 of  *)
(* a byte, least significant first; a half is two bytes.                   *)
Block(b)        == b * StructBytes
Bits(a, lo, hi) == [k \in 1..(hi - lo) |-> <<a, lo + k - 1>>]
F16(a)         == Bits(a, 0, 8) \o Bits(a + 1, 0, 8)

(* value = d * sc * (q - bias) - dmin * m, element by element of the dot.  *)
Scaled(e, d, sc, q, bias) == <<"pos", e, d, sc, q, bias>>
Offset(e, dmin, m)        == <<"min", e, dmin, m>>
Both(e, d, s, q) == {Scaled(e, F16(d), s.sc, q, 0), Offset(e, F16(d + 2), s.m)}

-----------------------------------------------------------------------------
(* Q8_0 and Q5_0.                                                          *)

Q8Elems(b, count) ==
  {Scaled(32 * b + i, F16(Block(b)), <<>>, Bits(Block(b) + 2 + i, 0, 8), 0) : i \in 0..(count - 1)}
DequantQ8(b) == Q8Elems(b, IF b = Blocks - 1 THEN N - b * 32 ELSE 32)
DotQ8(b)     == Q8Elems(b, IF N - 32 * b < 32 THEN N - 32 * b ELSE 32)
RowQ8U8(b) ==
  {Scaled(i, F16(Block(b)), <<>>, Bits(Block(b) + 2 + (i - 32 * b), 0, 8), 0)
     : i \in {j \in (32 * b)..(32 * b + 31) : j < N}}

DequantQ5(b) ==
  UNION {{Scaled(32 * b + j, F16(Block(b)), <<>>,
              Bits(Block(b) + 6 + j, 0, 4) \o Bits(Block(b) + 2 + (j \div 8), j % 8, (j % 8) + 1), 16),
          Scaled(32 * b + j + 16, F16(Block(b)), <<>>,
              Bits(Block(b) + 6 + j, 4, 8)
                \o Bits(Block(b) + 2 + ((j + 16) \div 8), j % 8, (j % 8) + 1), 16)} : j \in 0..15}

(* The scale and the minimum of sub-block j, six bits each, in 12 bytes.   *)
GetScaleMinK4(j, s) ==
  IF j < 4 THEN [sc |-> Bits(s + j, 0, 6), m |-> Bits(s + j + 4, 0, 6)]
  ELSE [sc |-> Bits(s + j + 4, 0, 4) \o Bits(s + j - 4, 6, 8),
        m  |-> Bits(s + j + 4, 4, 8) \o Bits(s + j, 6, 8)]
ScaleMinGpuSwapped(j, s) ==    \* broken: both high pairs from one byte
  IF j < 4 THEN [sc |-> Bits(s + j, 0, 6), m |-> Bits(s + 4 + j, 0, 6)]
  ELSE [sc |-> Bits(s + 4 + j, 0, 4) \o Bits(s + (j - 4), 6, 8),
        m  |-> Bits(s + 4 + j, 4, 8) \o Bits(s + (j - 4), 6, 8)]
GetScaleMinK4U32(j, s) ==
  IF j < 4 THEN [sc |-> Bits(s + j, 0, 6), m |-> Bits(s + 4 + j, 0, 6)]
  ELSE LET s_lo == s + 4 + j
           s_hi == s + (j - 4)
           m_hi == s + j
       IN [sc |-> Bits(s_lo, 0, 4) \o Bits(s_hi, 6, 8), m |-> Bits(s_lo, 4, 8) \o Bits(m_hi, 6, 8)]
ScaleMinU8(j, s) ==
  LET k == j % 4
  IN IF j < 4 THEN [sc |-> Bits(s + k, 0, 6), m |-> Bits(s + k + 4, 0, 6)]
     ELSE [sc |-> Bits(s + k + 8, 0, 4) \o Bits(s + k, 6, 8),
           m  |-> Bits(s + k + 8, 4, 8) \o Bits(s + k + 4, 6, 8)]

-----------------------------------------------------------------------------
(* Q4_K: four groups of 64, low nibbles then high nibbles of 32 bytes.     *)

Q4Group(b, g, S(_, _)) ==
  UNION {Both(256 * b + 64 * g + l, Block(b), S(2 * g, Block(b) + 4),
              Bits(Block(b) + 16 + 32 * g + l, 0, 4))
         \cup Both(256 * b + 64 * g + 32 + l, Block(b), S(2 * g + 1, Block(b) + 4),
                   Bits(Block(b) + 16 + 32 * g + l, 4, 8)) : l \in 0..31}
DequantQ4(b) == UNION {Q4Group(b, g, GetScaleMinK4) : g \in 0..3}
RowQ4U8(b)   == UNION {Q4Group(b, g, ScaleMinU8) : g \in 0..3}

(* The fused dot loads eight activations at a time, at base and 32 + base  *)
(* of the slice of x that begins at the group; padding covers what is      *)
(* missing, if slicing the slice did not panic before.                     *)
GroupFits(b) == \A g \in 0..3 : N - (256 * b + 64 * g) >= 32 + 24

(* A sub-unit: 32 elements that share a scale, from one half of a window   *)
(* of 32 bytes.  The partial fetches words, the cooperative loop bytes.    *)
Q4Unit(u, QAddr(_, _)) ==
  LET b == u \div 8
      s == u % 8
      g == s \div 2
      low == s % 2 = 0
  IN UNION {Both(256 * b + 64 * g + (IF low THEN l ELSE 32 + l), Block(b),
                 GetScaleMinK4U32(s, Block(b) + 4),
                 LET a == QAddr(Block(b) + 16 + 32 * g, l)
                 IN IF low THEN Bits(a, 0, 4) ELSE Bits(a, 4, 8)) : l \in 0..31}
WordAddr(base, l) == 4 * ((base \div 4) + (l \div 4)) + (l % 4)
ByteAddr(base, l) == base + l

-----------------------------------------------------------------------------
(* Q5_K: as Q4_K, with a fifth bit from qh[l]: bit u1 or u2 of the loop,   *)
(* or the number of the sub-block.                                         *)

Q5Elem(e, b, is, S(_, _), l, hi) ==
  Both(e, Block(b), S(is, Block(b) + 4),
       Bits(Block(b) + 48 + 32 * (is \div 2) + l, IF is % 2 = 0 THEN 0 ELSE 4,
            IF is % 2 = 0 THEN 4 ELSE 8) \o Bits(Block(b) + 16 + l, hi, hi + 1))

(* u1 and u2 start at bits 0 and 1 and shift by two for each group.        *)
DequantQ5K(b) ==
  UNION {Q5Elem(256 * b + 64 * g + l, b, 2 * g, GetScaleMinK4, l, 2 * g)
         \cup Q5Elem(256 * b + 64 * g + 32 + l, b, 2 * g + 1, GetScaleMinK4, l, 1 + 2 * g)
           : g \in 0..3, l \in 0..31}

Q5Unit(u) ==
  LET b == u \div 8
      s == u % 8
  IN UNION {Q5Elem(256 * b + 32 * s + l, b, s, GetScaleMinK4U32, l, s) : l \in 0..31}

(* Against an activation in Q8_K: the products of a sub-block from its     *)
(* quants, the minima from the sums of sixteen consecutive ones.           *)
BSum(i) == (16 * i)..(16 * i + 15)
DotQ5Q8K(b) ==
  UNION {{Scaled(256 * b + 32 * is + l, F16(Block(b)), GetScaleMinK4(is, Block(b) + 4).sc,
              Bits(Block(b) + 48 + 32 * (is \div 2) + l, IF is % 2 = 0 THEN 0 ELSE 4,
                   IF is % 2 = 0 THEN 4 ELSE 8)
                \o Bits(Block(b) + 16 + l, is, is + 1), 0) : l \in 0..31}
         \cup {Offset(256 * b + j, F16(Block(b) + 2), GetScaleMinK4(is, Block(b) + 4).m)
                 : j \in BSum(2 * is) \cup BSum(2 * is + 1)} : is \in 0..7}

-----------------------------------------------------------------------------
(* Q6_K: at position l of a half, four quants 32 apart.                    *)

Q6Pair(q, l) ==      \* broken: the high bits of the second pair are those of the first
  <<<<0, l, 0, 4, 0>>, <<32, 32 + l, 0, 4, 2>>, <<64, l, 4, 8, 0>>, <<96, 32 + l, 4, 8, 2>>>>[q]
Quads(q, l) ==       \* output offset, byte of ql, its nibble, shift of qh
  <<<<0, l, 0, 4, 0>>, <<32, 32 + l, 0, 4, 2>>, <<64, l, 4, 8, 4>>, <<96, 32 + l, 4, 8, 6>>>>[q]
Q6Slot(b, h, l) ==
  {LET w == Quads(q, l)
   IN Scaled(256 * b + 128 * h + l + w[1], F16(Block(b) + 208),
          Bits(Block(b) + 192 + 8 * h + (l \div 16) + 2 * (q - 1), 0, 8),
          Bits(Block(b) + 64 * h + w[2], w[3], w[4])
            \o Bits(Block(b) + 128 + 32 * h + l, w[5], w[5] + 2), 32) : q \in 1..4}
DequantQ6(b) == UNION {Q6Slot(b, h, l) : h \in 0..1, l \in 0..31}
RowQ6U8(b)   == DequantQ6(b)

(* Q2_K: values are pushed one by one, so an element's index is the number *)
(* of pushes before it.                                                    *)
DequantQ2(b) ==
  UNION {LET is == 8 * g + 2 * j + half
             e  == 256 * b + 128 * g + 32 * j + 16 * half + l
         IN {Scaled(e, F16(Block(b) + 80), Bits(Block(b) + is, 0, 4),
                 Bits(Block(b) + 16 + 32 * g + 16 * half + l, 2 * j, 2 * j + 2), 0),
             Offset(e, F16(Block(b) + 82), Bits(Block(b) + is, 4, 8))}
           : g \in 0..1, j \in 0..3, half \in 0..1, l \in 0..15}

-----------------------------------------------------------------------------
(* The walks.  On the CPU a unit is a block; on the GPU it is a lane,      *)
(* which strides over blocks or sub-units by the size of the workgroup, or *)
(* keeps one slot (h, l) of every Q6_K block.                              *)

StridedByHalf(lane, total) == {u \in 0..(total - 1) : u % (Lanes \div 2) = lane % (Lanes \div 2)}
Strided(lane, total) == {u \in 0..(total - 1) : u % Lanes = lane}

PartialQ8(lane)  == UNION {RowQ8U8(b) : b \in Strided(lane, Blocks)}
PartialQ4(lane)  == UNION {Q4Unit(u, WordAddr) : u \in Strided(lane, 8 * Blocks)}
CoopQ4(lane)     == UNION {Q4Unit(u, ByteAddr) : u \in Strided(lane, 8 * Blocks)}
PartialQ5K(lane) == UNION {Q5Unit(u) : u \in Strided(lane, 8 * Blocks)}
PartialQ6(lane)  == UNION {Q6Slot(b, lane \div 32, lane % 32) : b \in 0..(Blocks - 1)}

Dequant(b) ==
  CASE Fmt = "Q8_0" -> DequantQ8(b)  [] Fmt = "Q5_0" -> DequantQ5(b)
    [] Fmt = "Q4_K" -> DequantQ4(b)  [] Fmt = "Q5_K" -> DequantQ5K(b)
    [] Fmt = "Q6_K" -> DequantQ6(b)  [] Fmt = "Q2_K" -> DequantQ2(b)

(* Formats without a fused dot dequantize the row and multiply.            *)
DotBlock(b) == IF Fmt = "Q8_0" THEN DotQ8(b) ELSE Dequant(b)
RowU8(b) ==
  CASE Fmt = "Q8_0" -> RowQ8U8(b) [] Fmt = "Q4_K" -> RowQ4U8(b) [] Fmt = "Q6_K" -> RowQ6U8(b)
Partial(lane) ==
  CASE Fmt = "Q8_0" -> PartialQ8(lane)
    [] Fmt = "Q4_K" -> IF walk.impl = "gpu" THEN PartialQ4(lane) ELSE CoopQ4(lane)
    [] Fmt = "Q5_K" -> PartialQ5K(lane)
    [] Fmt = "Q6_K" -> PartialQ6(lane)

(* A contribution with its addresses replaced by what a memory holds.      *)
Held(Mem(_), bits) == [k \in DOMAIN bits |-> <<Mem(bits[k][1]), bits[k][2]>>]
Loaded(Mem(_), c) ==
  IF c[1] = "pos" THEN Scaled(c[2], Held(Mem, c[3]), Held(Mem, c[4]), Held(Mem, c[5]), c[6])
                  ELSE Offset(c[2], Held(Mem, c[3]), Held(Mem, c[4]))

(* Elements past the end are dropped: truncated, guarded by idx < n, or    *)
(* multiplied by the zero padding.                                         *)
Reads(u) ==
  CASE walk.impl = "dequant" -> Dequant(u)
    [] walk.impl = "dot"     -> DotBlock(u)
    [] walk.impl = "q8k"     -> DotQ5Q8K(u)
    [] walk.impl = "u8"      -> RowU8(u)
    [] OTHER                 -> Partial(u)
Contributions(u) == {Loaded(ByteAt, c) : c \in {d \in Reads(u) : d[2] < N}}

Units == IF OnGpu THEN Lanes ELSE Blocks

-----------------------------------------------------------------------------
RowInit == walk \in Walks /\ stage = "row_view" /\ unit = 0 /\ acc = {}

(* row_view, or the upload of the whole tensor; then the length check of   *)
(* the format.                                                             *)
Rejected ==
  \/ ~OnGpu /\ RowBase + TypeSize > DataLen
  \/ Fmt = "Q2_K" /\ N % 256 # 0
  \/ ~OnGpu /\ DataLen - RowBase < FileRow

RowView ==
  /\ stage = "row_view" /\ ~Rejected
  /\ stage' = "walking"
  /\ UNCHANGED <<walk, unit, acc>>

Reject ==
  /\ stage = "row_view" /\ Rejected
  /\ stage' = "error"
  /\ UNCHANGED <<walk, unit, acc>>

(* Slicing x[32 + base..] of a group that ends before it.                  *)
SlicePanics == walk.impl = "dot" /\ Fmt \in {"Q4_K", "Q5_K"} /\ ~GroupFits(unit)

Unit ==
  /\ stage = "walking" /\ unit < Units /\ ~SlicePanics
  /\ acc' = acc \cup {<<unit, c>> : c \in Contributions(unit)}
  /\ unit' = unit + 1
  /\ UNCHANGED <<walk, stage>>

SlicePanic ==
  /\ stage = "walking" /\ unit < Units /\ SlicePanics
  /\ stage' = "panic"
  /\ UNCHANGED <<walk, unit, acc>>

Finish ==
  /\ stage = "walking" /\ unit = Units
  /\ stage' = "done"
  /\ UNCHANGED <<walk, unit, acc>>

RowNext == RowView \/ Reject \/ Unit \/ SlicePanic \/ Finish

RowSpec == RowInit /\ [][RowNext]_rowVars

-----------------------------------------------------------------------------
Elements == 0..(N - 1)
Summed   == {c[2] : c \in acc}
HasMin   == Fmt \in {"Q4_K", "Q5_K", "Q2_K"}

(* Each element of the row meets its activation once: no walk skips an     *)
(* element or counts one twice, whatever the number of blocks and lanes    *)
(* and wherever the last block ends.                                       *)
OncePerElement ==
  stage = "done" =>
    /\ Cardinality(acc) = (IF HasMin THEN 2 ELSE 1) * N
    /\ {c[2] : c \in {d \in Summed : d[1] = "pos"}} = Elements
    /\ HasMin => {c[2] : c \in {d \in Summed : d[1] = "min"}} = Elements

(* The byte of the file an address of the row stands for.                  *)
OwnByte(a) == <<walk.row, a>>

(* Every implementation of a format reads an element from the same bits of *)
(* the file as the dequantizer does ("Same numerical results as the wgpu   *)
(* kernels", kernels_u8.rs:4): nibble, high bits, scale, minimum.          *)
AgreesWithDequant ==
  stage = "done" =>
    \A b \in 0..(Blocks - 1) :
      {c \in Summed : c[2] \div BlockSize = b}
        = {Loaded(OwnByte, c) : c \in {d \in Dequant(b) : d[2] < N}}

(* The row is decoded from its own bytes: every element has its own quant  *)
(* bits, as many as the format's name says, and they lie in the row of the *)
(* struct the format documents ("84 bytes per 256 elements",               *)
(* quant/q2_k.rs:3), so that rows do not run into each other.              *)
QuantWidth ==
  CASE Fmt = "Q8_0" -> 8 [] Fmt \in {"Q5_0", "Q5_K"} -> 5 [] Fmt = "Q4_K" -> 4
    [] Fmt = "Q6_K" -> 6 [] Fmt = "Q2_K" -> 2
QuantBits(c) == {c[5][k] : k \in DOMAIN c[5]}
OwnBits ==
  stage = "done" =>
    LET quants == {c \in Summed : c[1] = "pos"}
    IN /\ \A c \in quants : \A bit \in QuantBits(c) : bit[1][1] = walk.row
       /\ Cardinality(UNION {QuantBits(c) : c \in quants}) = N * QuantWidth
=============================================================================
