----------------------------- MODULE Elementwise -----------------------------
(***************************************************************************)
(* One launch of a kernel without shared memory                            *)
(* (src/src/ops/kernels_wgpu.rs, launched by wgpu_backend/resident.rs).    *)
(*                                                                         *)
(* Such a kernel has one thread per output, which finds its place by       *)
(* dividing its flat index, and many of them work in place: a rotation     *)
(* overwrites the pair it reads, a convolution shifts the history it has   *)
(* just used, the delta rule updates the state it multiplies.  There is no *)
(* barrier; what makes a launch correct is that no thread touches what     *)
(* another one needs, that the grid covers every output, and that the flat *)
(* index means the same place as the nested loops of the CPU path.         *)
(*                                                                         *)
(* A thread loads and computes in one step and stores in a second one, and *)
(* the steps of different threads interleave.  Numbers are terms: what was *)
(* computed from which elements.  A cooperative matmul is one thread here, *)
(* its workgroup; Workgroup looks inside.                                  *)
(***************************************************************************)
EXTENDS Integers, Sequences, FiniteSets

CONSTANTS
  Shapes,     \* the model dimensions considered
  CubeDim,    \* threads of a workgroup: 64
  MaxGrid,    \* workgroups in one dimension of a row launch: 65535
  MaxSeq,     \* max_seq_len of the KV cache
  KvBlock,    \* elements of a q8_0 block: 32
  Pack,       \* bytes of a word: 4
  Batch,      \* tokens of a batched matmul
  Kernels     \* the kernels launched

ShapeType ==
  [heads: Nat, kv_heads: Nat, head_dim: Nat, n_rot: Nat, pos: Nat, taps: Nat, v_dim: Nat]

ASSUME ShapesAssumption ==
  \A s \in Shapes :
    /\ s \in ShapeType
    /\ s.kv_heads > 0 /\ s.heads > 0 /\ s.heads % s.kv_heads = 0 /\ s.head_dim > 0
    /\ s.n_rot % 2 = 0 /\ s.n_rot > 0 /\ s.n_rot <= s.head_dim
    /\ s.taps > 0 /\ s.v_dim > 0 /\ s.pos < MaxSeq
ASSUME SizesAssumption ==
  {CubeDim, MaxGrid, MaxSeq, KvBlock, Pack, Batch} \subseteq Nat \ {0} /\ KvBlock % Pack = 0

KernelNames ==
  {"silu_mul", "sigmoid_mul", "split_qg", "rope", "short_conv", "causal_conv1d_silu",
   "gdn_gate_decay", "gdn_recurrence", "kv_cache_write", "attention_scores",
   "attention_output", "attention_scores_q8_0", "attention_output_q8_0", "matmul"}
ASSUME KernelsAssumption == Kernels \subseteq KernelNames

VARIABLES
  kernel,   \* the kernel launched
  shape,    \* with these dimensions
  pc,       \* each thread: "ready", "loaded" or "done"
  regs,     \* the stores a loaded thread is about to make
  mem       \* the buffers: element -> term

vars == <<kernel, shape, pc, regs, mem>>

Heads   == shape.heads
KvHeads == shape.kv_heads
Dim     == shape.head_dim
Half    == shape.n_rot \div 2
Pos     == shape.pos
Taps    == shape.taps
VDim    == shape.v_dim
QDim    == Heads * Dim
KvDim   == KvHeads * Dim
SeqLen  == Pos + 1
OutDim  == QDim

DivCeil(a, b) == (a + b - 1) \div b
W(buf, i, v)  == [buf |-> buf, at |-> i, val |-> v]

(* The q8_0 record of a token: a scale word and KvBlock \div Pack words of *)
(* bytes for each block.  The cache is addressed by bytes here.            *)
BlockWords    == 1 + KvBlock \div Pack
WordsPerToken == DivCeil(KvDim, KvBlock) * BlockWords

(* The launchers of resident.rs: the arrays bound, with the lengths they   *)
(* are declared with, and the threads of the grid: whole workgroups of     *)
(* CubeDim for n outputs, one workgroup of head_v_dim threads for each     *)
(* head, or the two-dimensional grid of the matmuls.                       *)
GroupsFor(n) == DivCeil(n, CubeDim) * CubeDim
Launch(arrays, threads) == [arrays |-> arrays, threads |-> threads]

LaunchSiluMul    == Launch([gate |-> QDim, up |-> QDim, out |-> QDim], GroupsFor(QDim))
LaunchSigmoidMul == Launch([attn |-> QDim, gate |-> QDim, out |-> QDim], GroupsFor(QDim))
LaunchSplitQg    == Launch([qg_raw |-> 2 * QDim, q |-> QDim, gate |-> QDim], GroupsFor(QDim))
LaunchRope       == Launch([x |-> QDim], GroupsFor(Heads * Half))
LaunchShortConv ==
  Launch([bcx |-> 3 * KvDim, taps |-> KvDim * Taps, history |-> KvDim * (Taps - 1),
          out |-> KvDim], GroupsFor(KvDim))
LaunchCausalConv1dSilu ==
  Launch([input |-> KvDim, taps |-> KvDim * Taps, history |-> KvDim * (Taps - 1),
          out |-> KvDim], GroupsFor(KvDim))
LaunchGdnGateDecay ==
  Launch([beta |-> Heads, alpha |-> Heads, ssm_a |-> Heads, dt_bias |-> Heads], GroupsFor(Heads))
LaunchGdnRecurrence ==
  Launch([state |-> Heads * Dim * VDim, conv_out |-> 2 * KvDim + Heads * VDim,
          beta |-> Heads, alpha |-> Heads, out |-> Heads * VDim], Heads * VDim)
LaunchKvCacheWrite ==
  Launch([new_k |-> KvDim, new_v |-> KvDim, k_cache |-> Pos * KvDim + KvDim,
          v_cache |-> Pos * KvDim + KvDim], GroupsFor(KvDim))

(* launch_attention: the first and the third of its launches (the softmax  *)
(* between them is cooperative), with the cache of either dtype.           *)
LaunchScores(cache_len) ==
  Launch([q |-> QDim, k_cache |-> cache_len, scores |-> Heads * MaxSeq], GroupsFor(Heads * SeqLen))
LaunchOutput(cache_len) ==
  Launch([v_cache |-> cache_len, weights |-> Heads * MaxSeq, sums |-> Heads, out |-> QDim],
         GroupsFor(QDim))
LaunchAttention(step) ==
  IF step = "scores" THEN LaunchScores(MaxSeq * KvDim) ELSE LaunchOutput(MaxSeq * KvDim)
LaunchAttentionQ8(step) ==
  IF step = "scores" THEN LaunchScores(MaxSeq * WordsPerToken * Pack)
                     ELSE LaunchOutput(MaxSeq * WordsPerToken * Pack)

GridX == IF OutDim < MaxGrid THEN OutDim ELSE MaxGrid
GridY == DivCeil(OutDim, GridX)
LaunchMatmul == Launch([out |-> Batch * OutDim], GridX * GridY)

Launched ==
  CASE kernel = "silu_mul"              -> LaunchSiluMul
    [] kernel = "sigmoid_mul"           -> LaunchSigmoidMul
    [] kernel = "split_qg"              -> LaunchSplitQg
    [] kernel = "rope"                  -> LaunchRope
    [] kernel = "short_conv"            -> LaunchShortConv
    [] kernel = "causal_conv1d_silu"    -> LaunchCausalConv1dSilu
    [] kernel = "gdn_gate_decay"        -> LaunchGdnGateDecay
    [] kernel = "gdn_recurrence"        -> LaunchGdnRecurrence
    [] kernel = "kv_cache_write"        -> LaunchKvCacheWrite
    [] kernel = "attention_scores"      -> LaunchAttention("scores")
    [] kernel = "attention_output"      -> LaunchAttention("output")
    [] kernel = "attention_scores_q8_0" -> LaunchAttentionQ8("scores")
    [] kernel = "attention_output_q8_0" -> LaunchAttentionQ8("output")
    [] kernel = "matmul"                -> LaunchMatmul

Buffers == Launched.arrays
Thread  == 0..(Launched.threads - 1)

At(b, i) == mem[b][i]
In(b, i) == <<"in", b, i>>

-----------------------------------------------------------------------------
(* Terms.  The factors of a dot product are a set, whatever the order of   *)
(* the loop.                                                               *)

Rotated(x0, x1, d, part) == <<"rot", x0, x1, <<Pos, d, shape.n_rot>>, part>>
Dot(pairs)               == <<"dot", pairs>>
Gated(v, op, g)          == <<op, v, g>>
Delta(beta, v, pred)     == <<"delta", beta, v, pred>>
Decayed(c, s, k, dl)     == <<"decayed", c, s, k, dl>>
Sigmoid(v)               == <<"sigmoid", v>>
DecayOf(a, x, bias)      == <<"exp_softplus", a, x, bias>>
Deq(scale, byte)         == <<"deq", scale, byte>>

-----------------------------------------------------------------------------
(* What one thread stores, in the words of the kernels: everything is      *)
(* found from the flat index i.                                            *)

SiluMul(i)    == {W("out", i, Gated(At("up", i), "silu", At("gate", i)))}
SigmoidMul(i) == {W("out", i, Gated(At("attn", i), "sigmoid", At("gate", i)))}

SplitQg(i) ==
  LET src == (i \div Dim) * 2 * Dim
      d   == i % Dim
  IN {W("q", i, At("qg_raw", src + d)), W("gate", i, At("qg_raw", src + Dim + d))}

Rope(i) ==
  LET d  == i % Half
      at == (i \div Half) * Dim + d
  IN {W("x", at, Rotated(At("x", at), At("x", at + Half), d, "low")),
      W("x", at + Half, Rotated(At("x", at), At("x", at + Half), d, "high"))}

(* The taps over a channel's history, and the history after the shift.     *)
Conv(ch, last) ==
  Dot({<<At("taps", ch * Taps + k), IF k < Taps - 1 THEN At("history", k * KvDim + ch) ELSE last>>
         : k \in 0..(Taps - 1)})
Shifted(ch, last) ==
  {W("history", k * KvDim + ch,
     IF k < Taps - 2 THEN At("history", (k + 1) * KvDim + ch) ELSE last) : k \in 0..(Taps - 2)}

ShortConv(ch) ==
  LET bx == Gated(At("bcx", ch), "mul", At("bcx", 2 * KvDim + ch))
  IN {W("out", ch, Gated(Conv(ch, bx), "mul", At("bcx", KvDim + ch)))} \cup Shifted(ch, bx)

CausalConv1dSilu(ch) ==
  {W("out", ch, <<"silu", Conv(ch, At("input", ch))>>)} \cup Shifted(ch, At("input", ch))

GdnGateDecay(h) ==
  {W("beta", h, Sigmoid(At("beta", h))),
   W("alpha", h, DecayOf(At("ssm_a", h), At("alpha", h), At("dt_bias", h)))}

GdnRecurrence(i) ==
  LET h       == i \div VDim
      b       == i % VDim
      kh      == h % KvHeads
      cell(a) == h * Dim * VDim + a * VDim + b
      key(a)  == At("conv_out", KvDim + kh * Dim + a)
      pred    == Dot({<<At("state", cell(a)), key(a)>> : a \in 0..(Dim - 1)})
      delta   == Delta(At("beta", h), At("conv_out", 2 * KvDim + h * VDim + b), pred)
      new(a)  == Decayed(At("alpha", h), At("state", cell(a)), key(a), delta)
  IN {W("state", cell(a), new(a)) : a \in 0..(Dim - 1)}
       \cup {W("out", i, Dot({<<At("conv_out", kh * Dim + a), new(a)>> : a \in 0..(Dim - 1)}))}

KvCacheWrite(i) ==
  {W("k_cache", Pos * KvDim + i, At("new_k", i)), W("v_cache", Pos * KvDim + i, At("new_v", i))}

(* An element of the cache as the kernel of its dtype finds it: in place,  *)
(* or dequantized from the byte lane of a word and the scale of its block. *)
CacheF16(cache, t, e) == At(cache, t * KvDim + e)
CacheQ8(cache, t, e) ==
  LET block == t * WordsPerToken + (e \div KvBlock) * BlockWords
      lane  == e % KvBlock
  IN Deq(At(cache, block * Pack), At(cache, (block + 1 + (lane \div Pack)) * Pack + (lane % Pack)))

TiledKvHead(h) == h % KvHeads      \* broken: query heads dealt out in turn
KvHead(h) == h \div (Heads \div KvHeads)

ScoresOf(i, Cached(_, _, _)) ==
  LET h == i \div SeqLen
      t == i % SeqLen
  IN {W("scores", h * MaxSeq + t,
        Dot({<<At("q", h * Dim + d), Cached("k_cache", t, KvHead(h) * Dim + d)>>
               : d \in 0..(Dim - 1)}))}

OutputOf(i, Cached(_, _, _)) ==
  LET h == i \div Dim
      d == i % Dim
  IN {W("out", i, Gated(
        Dot({<<At("weights", h * MaxSeq + t), Cached("v_cache", t, KvHead(h) * Dim + d)>>
               : t \in 0..Pos}), "over", At("sums", h)))}

AttentionScores(i)   == ScoresOf(i, CacheF16)
AttentionScoresQ8(i) == ScoresOf(i, CacheQ8)
AttentionOutput(i)   == OutputOf(i, CacheF16)
AttentionOutputQ8(i) == OutputOf(i, CacheQ8)

(* A row of a matmul: workgroup i is (i % GridX, i \div GridX) of the grid *)
(* and computes row CUBE_POS_Y * grid_x + CUBE_POS_X.                      *)
Matmul(i) ==
  LET row == (i \div GridX) * GridX + (i % GridX)
  IN {W("out", t * OutDim + row, <<"row", row, t>>) : t \in 0..(Batch - 1)}

Rows == OutDim                     \* if row >= out_dim { terminate!() }

(* The indices a kernel works on; threads beyond them terminate at once.   *)
Covered ==
  CASE kernel = "matmul"                          -> Rows
    [] kernel \in {"silu_mul", "sigmoid_mul", "split_qg", "attention_output",
                   "attention_output_q8_0"}       -> QDim
    [] kernel = "rope"                            -> Heads * Half
    [] kernel \in {"short_conv", "causal_conv1d_silu", "kv_cache_write"} -> KvDim
    [] kernel = "gdn_gate_decay"                  -> Heads
    [] kernel = "gdn_recurrence"                  -> Heads * VDim
    [] kernel \in {"attention_scores", "attention_scores_q8_0"} -> Heads * SeqLen

Stores(i) ==
  CASE kernel = "silu_mul"           -> SiluMul(i)
    [] kernel = "sigmoid_mul"        -> SigmoidMul(i)
    [] kernel = "split_qg"           -> SplitQg(i)
    [] kernel = "rope"               -> Rope(i)
    [] kernel = "short_conv"         -> ShortConv(i)
    [] kernel = "causal_conv1d_silu" -> CausalConv1dSilu(i)
    [] kernel = "gdn_gate_decay"     -> GdnGateDecay(i)
    [] kernel = "gdn_recurrence"     -> GdnRecurrence(i)
    [] kernel = "kv_cache_write"     -> KvCacheWrite(i)
    [] kernel = "attention_scores"   -> AttentionScores(i)
    [] kernel = "attention_output"   -> AttentionOutput(i)
    [] kernel = "attention_scores_q8_0" -> AttentionScoresQ8(i)
    [] kernel = "attention_output_q8_0" -> AttentionOutputQ8(i)
    [] kernel = "matmul"             -> Matmul(i)

-----------------------------------------------------------------------------
(* The launch.                                                             *)

Init ==
  /\ kernel \in Kernels
  /\ shape \in Shapes
  /\ pc = [i \in Thread |-> "ready"]
  /\ regs = [i \in Thread |-> {}]
  /\ mem = [b \in DOMAIN Buffers |-> [i \in 0..(Buffers[b] - 1) |-> In(b, i)]]

Terminate(i) ==
  /\ pc[i] = "ready" /\ i >= Covered
  /\ pc' = [pc EXCEPT ![i] = "done"]
  /\ UNCHANGED <<kernel, shape, regs, mem>>

Load(i) ==
  /\ pc[i] = "ready" /\ i < Covered
  /\ pc' = [pc EXCEPT ![i] = "loaded"]
  /\ regs' = [regs EXCEPT ![i] = Stores(i)]
  /\ UNCHANGED <<kernel, shape, mem>>

Store(i) ==
  /\ pc[i] = "loaded"
  /\ mem' = [b \in DOMAIN mem |-> [j \in DOMAIN mem[b] |->
                IF \E w \in regs[i] : w.buf = b /\ w.at = j
                THEN (CHOOSE w \in regs[i] : w.buf = b /\ w.at = j).val
                ELSE mem[b][j]]]
  /\ regs' = [regs EXCEPT ![i] = {}]
  /\ pc' = [pc EXCEPT ![i] = "done"]
  /\ UNCHANGED <<kernel, shape>>

Next == \E i \in Thread : Terminate(i) \/ Load(i) \/ Store(i)

Spec == Init /\ [][Next]_vars
-----------------------------------------------------------------------------
(* What the CPU path stores, in its own nested loops, from the memory the  *)
(* launch starts with.                                                     *)

CpuConv(ch, last) ==
  Dot({<<In("taps", ch * Taps + k), In("history", k * KvDim + ch)>> : k \in 0..(Taps - 2)}
        \cup {<<In("taps", ch * Taps + Taps - 1), last>>})
CpuHistory(ch, last) ==
  {W("history", k * KvDim + ch, In("history", (k + 1) * KvDim + ch)) : k \in 0..(Taps - 3)}
    \cup (IF Taps >= 2 THEN {W("history", (Taps - 2) * KvDim + ch, last)} ELSE {})

CpuShortConv ==
  LET bx(ch) == Gated(In("bcx", ch), "mul", In("bcx", 2 * KvDim + ch))
  IN UNION {{W("out", ch, Gated(CpuConv(ch, bx(ch)), "mul", In("bcx", KvDim + ch)))}
              \cup CpuHistory(ch, bx(ch)) : ch \in 0..(KvDim - 1)}

CpuCausalConv ==
  UNION {{W("out", ch, <<"silu", CpuConv(ch, In("input", ch))>>)}
           \cup CpuHistory(ch, In("input", ch)) : ch \in 0..(KvDim - 1)}

CpuRope ==
  UNION {LET x0 == In("x", h * Dim + d)
             x1 == In("x", h * Dim + d + Half)
         IN {W("x", h * Dim + d, Rotated(x0, x1, d, "low")),
             W("x", h * Dim + d + Half, Rotated(x0, x1, d, "high"))}
           : h \in 0..(Heads - 1), d \in 0..(Half - 1)}

CpuDeltaRule ==
  UNION {
    LET kh     == h % KvHeads
        s      == h * Dim * VDim
        k(a)   == In("conv_out", KvDim + kh * Dim + a)
        dl(b)  == Delta(In("beta", h), In("conv_out", 2 * KvDim + h * VDim + b),
                        Dot({<<In("state", s + a * VDim + b), k(a)>> : a \in 0..(Dim - 1)}))
        new(a, b) == Decayed(In("alpha", h), In("state", s + a * VDim + b), k(a), dl(b))
    IN {W("state", s + a * VDim + b, new(a, b)) : a \in 0..(Dim - 1), b \in 0..(VDim - 1)}
         \cup {W("out", h * VDim + b,
                 Dot({<<In("conv_out", kh * Dim + a), new(a, b)>> : a \in 0..(Dim - 1)}))
                 : b \in 0..(VDim - 1)}
    : h \in 0..(Heads - 1)}

(* The element of the cache that a token's writer stored: in place for     *)
(* f16; for q8_0 lane g of the block packed bytes Pack * g + j.            *)
WrittenF16(cache, t, e) == In(cache, t * KvDim + e)
WrittenQ8(cache, t, e) ==
  LET p == CHOOSE p \in (0..(KvDim - 1)) \X (0..(KvBlock \div Pack - 1)) \X (0..(Pack - 1)) :
             e = p[1] * KvBlock + p[2] * Pack + p[3]
      base == t * WordsPerToken + p[1] * BlockWords
  IN Deq(In(cache, base * Pack), In(cache, (base + 1 + p[2]) * Pack + p[3]))

CpuScoresOf(Written(_, _, _)) ==
  {W("scores", h * MaxSeq + t,
     Dot({<<In("q", h * Dim + d), Written("k_cache", t, (h \div (Heads \div KvHeads)) * Dim + d)>>
            : d \in 0..(Dim - 1)})) : h \in 0..(Heads - 1), t \in 0..Pos}

CpuAttendedOf(Written(_, _, _)) ==
  {W("out", h * Dim + d, Gated(
     Dot({<<In("weights", h * MaxSeq + t),
            Written("v_cache", t, (h \div (Heads \div KvHeads)) * Dim + d)>> : t \in 0..Pos}),
     "over", In("sums", h))) : h \in 0..(Heads - 1), d \in 0..(Dim - 1)}

CpuScores   == CpuScoresOf(WrittenF16)
CpuAttended == CpuAttendedOf(WrittenF16)

CpuStores ==
  CASE kernel = "silu_mul" ->
         {W("out", r, Gated(In("up", r), "silu", In("gate", r))) : r \in 0..(QDim - 1)}
    [] kernel = "sigmoid_mul" ->
         {W("out", r, Gated(In("attn", r), "sigmoid", In("gate", r))) : r \in 0..(QDim - 1)}
    [] kernel = "split_qg" ->
         UNION {{W("q", h * Dim + d, In("qg_raw", 2 * h * Dim + d)),
                 W("gate", h * Dim + d, In("qg_raw", 2 * h * Dim + Dim + d))}
                  : h \in 0..(Heads - 1), d \in 0..(Dim - 1)}
    [] kernel = "rope"               -> CpuRope
    [] kernel = "short_conv"         -> CpuShortConv
    [] kernel = "causal_conv1d_silu" -> CpuCausalConv
    [] kernel = "gdn_gate_decay" ->
         UNION {{W("beta", h, Sigmoid(In("beta", h))),
                 W("alpha", h, DecayOf(In("ssm_a", h), In("alpha", h), In("dt_bias", h)))}
                  : h \in 0..(Heads - 1)}
    [] kernel = "gdn_recurrence"     -> CpuDeltaRule
    [] kernel = "kv_cache_write" ->
         UNION {{W("k_cache", Pos * KvDim + e, In("new_k", e)),
                 W("v_cache", Pos * KvDim + e, In("new_v", e))} : e \in 0..(KvDim - 1)}
    [] kernel = "attention_scores"      -> CpuScores
    [] kernel = "attention_scores_q8_0" -> CpuScoresOf(WrittenQ8)
    [] kernel = "attention_output"      -> CpuAttended
    [] kernel = "attention_output_q8_0" -> CpuAttendedOf(WrittenQ8)
    [] kernel = "matmul" ->
         {W("out", t * QDim + r, <<"row", r, t>>) : r \in 0..(QDim - 1), t \in 0..(Batch - 1)}

-----------------------------------------------------------------------------
(* No thread stores outside the arrays its launch binds.                   *)
InBounds ==
  \A i \in Thread : \A w \in regs[i] :
    w.buf \in DOMAIN mem /\ w.at \in DOMAIN mem[w.buf]

(* No thread stores out of bounds, however the last workgroup hangs over   *)
(* the end (the guards of the kernels against the grids of the launchers). *)
(* When every thread has retired, in whatever order they ran, the buffers  *)
(* hold what the nested loops of cpu_path.rs compute from the same input,  *)
(* element for element: the flat index is decoded to the same head, dim,   *)
(* tap and position, every output is covered, in-place updates do not see  *)
(* each other, and nothing else is touched.                                *)
LaunchExact ==
  /\ InBounds
  /\ (\A i \in Thread : pc[i] = "done") =>
       \A b \in DOMAIN Buffers : \A j \in 0..(Buffers[b] - 1) :
         LET stores == {w \in CpuStores : w.buf = b /\ w.at = j}
         IN IF stores = {} THEN mem[b][j] = In(b, j) ELSE {w.val : w \in stores} = {mem[b][j]}
=============================================================================
