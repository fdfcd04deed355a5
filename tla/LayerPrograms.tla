---------------------------- MODULE LayerPrograms ----------------------------
(***************************************************************************)
(* The three implementations of the layer stack as programs over buffers:  *)
(*   run               one token, scratch buffers of InferenceState         *)
(*   run_batch         a batch, rows of freshly allocated buffers, with the *)
(*                     recurrent and gated mixers shuttled through the state*)
(*   run_gpu_resident  one token, a chain of launches over handles, some of *)
(*                     which work in place or fuse two operations           *)
(* (src/src/model/llama/cpu_path.rs, gpu_resident.rs).                     *)
(*                                                                         *)
(* LlamaModel says which token histories a layer sees.  This module looks  *)
(* inside a layer: the programs are written down operation by operation,   *)
(* with the buffers the code uses, and executed on terms, so that a buffer *)
(* used too late, an operation in the wrong order or the wrong row of a    *)
(* batch gives another term than the definition of the network.            *)
(*                                                                         *)
(* An instruction I(dst, op, w, src) stores op applied to the buffers src, *)
(* with the weight or the parameters w, in dst.  A name is a tuple, its    *)
(* head the field or variable of the source; the rest is a batch row or a  *)
(* layer.                                                                  *)
(***************************************************************************)
EXTENDS Integers, Sequences, SequencesExt, TLC

CONSTANTS
  Stacks,     \* stacks of mixers considered
  Schedules,  \* sequences of calls: [via |-> path, n |-> tokens]
  Scalings    \* rope.scaling.type of the model: "none", "linear", "yarn"

Mixers == {"attention", "qk_attention", "short_conv", "gated_attention", "gated_delta_net"}
Paths  == {"run", "batch", "gpu"}

(* What an instance has to respect.                                        *)
InstanceAssumption ==
  /\ Stacks \subseteq Seq(Mixers) \ {<<>>}
  /\ Schedules \subseteq Seq([via : Paths, n : Nat \ {0}]) \ {<<>>}
  /\ Scalings \subseteq {"none", "linear", "yarn"}

VARIABLES
  stack,    \* the layers of the model
  scaling,  \* its rope scaling
  calls,    \* the calls to come
  placed,   \* tokens placed so far
  todo,     \* what is left of the running call
  mem       \* the buffers and the persistent state

vars == <<stack, scaling, calls, placed, todo, mem>>

Layers == 1..Len(stack)
I(dst, op, w, src) == [dst |-> dst, op |-> op, w |-> w, src |-> src]

(* compute_rope_freq_scale, with the fallback of rope_freq_scale: schemes  *)
(* that are not applied yet count as none.                                 *)
FreqScale == IF scaling = "linear" THEN "1/factor" ELSE "1"

-----------------------------------------------------------------------------
(* The mixers on the CPU.  They read xn and write proj; x is the name of a *)
(* buffer, here given so that a batch row and the state share a program.   *)

Qkv(l, wq, x, q, k, v) ==
  <<I(q, "mm", <<wq, l>>, <<x>>), I(k, "mm", <<"wk", l>>, <<x>>), I(v, "mm", <<"wv", l>>, <<x>>)>>

QkNorm(l, q, k) ==
  <<I(q, "qk_norm", <<"q_norm", l>>, <<q>>), I(k, "qk_norm", <<"k_norm", l>>, <<k>>)>>

(* rope rotates whole heads, rope_partial the first n_rot dims.            *)
RopeCpu(dims, p, q, k) ==
  <<I(q, "rope", <<dims, p, FreqScale>>, <<q>>), I(k, "rope", <<dims, p, FreqScale>>, <<k>>)>>

CacheWrite(l, p, k, v) ==
  <<I(<<"kv_k", l, p>>, "store", <<>>, <<k>>), I(<<"kv_v", l, p>>, "store", <<>>, <<v>>)>>

Cached(b, l, p) == [t \in 1..(p + 1) |-> <<b, l, t - 1>>]

Attention(l, p, q, out) ==
  <<I(<<"scores">>, "scores", <<>>, <<q>> \o Cached("kv_k", l, p)),
    I(<<"scores">>, "softmax", <<>>, <<<<"scores">>>>),
    I(out, "attend", <<>>, <<<<"scores">>>> \o Cached("kv_v", l, p))>>

(* The part between the projections, for one position.                     *)
Attended(l, p, q, k, v, out) ==
  (IF stack[l] = "qk_attention" THEN QkNorm(l, q, k) ELSE <<>>)
    \o RopeCpu("head_dim", p, q, k) \o CacheWrite(l, p, k, v) \o Attention(l, p, q, out)

AttentionCpu(l, p) ==
  Qkv(l, "wq", <<"xn">>, <<"q">>, <<"k">>, <<"v">>)
    \o Attended(l, p, <<"q">>, <<"k">>, <<"v">>, <<"attn_out">>)
    \o <<I(<<"proj">>, "mm", <<"wo", l>>, <<<<"attn_out">>>>)>>

(* The convolution reads the history and the new input, then shifts.       *)
ShortConvCpu(l) ==
  <<I(<<"bcx">>, "mm", <<"in_proj", l>>, <<<<"xn">>>>),
    I(<<"bx">>, "gate_b", <<>>, <<<<"bcx">>>>),
    I(<<"conv_out">>, "conv", <<"conv_weight", l>>, <<<<"conv_state", l>>, <<"bx">>>>),
    I(<<"conv_out">>, "gate_c", <<>>, <<<<"bcx">>, <<"conv_out">>>>),
    I(<<"conv_state", l>>, "shift", <<>>, <<<<"conv_state", l>>, <<"bx">>>>),
    I(<<"proj">>, "mm", <<"out_proj", l>>, <<<<"conv_out">>>>)>>

GatedAttentionCpu(l, p) ==
  Qkv(l, "wqg", <<"xn">>, <<"ga_qg_raw">>, <<"k">>, <<"v">>)
    \o <<I(<<"q">>, "q_of", <<>>, <<<<"ga_qg_raw">>>>),
         I(<<"ga_gate">>, "gate_of", <<>>, <<<<"ga_qg_raw">>>>)>>
    \o QkNorm(l, <<"q">>, <<"k">>) \o RopeCpu("n_rot", p, <<"q">>, <<"k">>)
    \o CacheWrite(l, p, <<"k">>, <<"v">>) \o Attention(l, p, <<"q">>, <<"attn_out">>)
    \o <<I(<<"attn_out">>, "sigmoid_mul", <<>>, <<<<"attn_out">>, <<"ga_gate">>>>),
         I(<<"proj">>, "mm", <<"wo", l>>, <<<<"attn_out">>>>)>>

GdnProjections(l, x, qkv, z, beta, alpha) ==
  <<I(qkv, "mm", <<"wqkv", l>>, <<x>>), I(z, "mm", <<"wgate", l>>, <<x>>),
    I(beta, "mm", <<"ssm_beta", l>>, <<x>>), I(alpha, "mm", <<"ssm_alpha", l>>, <<x>>)>>

(* The delta rule updates the state, then queries the updated one.         *)
DeltaRule(conv, beta, alpha, state, out) ==
  <<I(state, "delta", <<>>, <<state, conv, beta, alpha>>),
    I(out, "query", <<>>, <<state, conv>>)>>

GatedDeltaNetCpu(l) ==
  GdnProjections(l, <<"xn">>, <<"gdn_qkv">>, <<"gdn_z">>, <<"gdn_beta_raw">>, <<"gdn_alpha_raw">>)
    \o <<I(<<"gdn_beta_raw">>, "sigmoid", <<>>, <<<<"gdn_beta_raw">>>>),
         I(<<"gdn_alpha_raw">>, "decay", <<"ssm_a", "dt_bias", l>>, <<<<"gdn_alpha_raw">>>>),
         I(<<"gdn_conv_out">>, "conv_silu", <<"conv_weight", l>>,
           <<<<"gdn_conv_state", l>>, <<"gdn_qkv">>>>),
         I(<<"gdn_conv_state", l>>, "shift", <<>>, <<<<"gdn_conv_state", l>>, <<"gdn_qkv">>>>),
         I(<<"gdn_conv_out">>, "l2_norm", <<>>, <<<<"gdn_conv_out">>>>)>>
    \o DeltaRule(<<"gdn_conv_out">>, <<"gdn_beta_raw">>, <<"gdn_alpha_raw">>,
                 <<"gdn_state", l>>, <<"gdn_out">>)
    \o <<I(<<"gdn_out">>, "gated_norm", <<"ssm_norm", l>>, <<<<"gdn_out">>, <<"gdn_z">>>>),
         I(<<"proj">>, "mm", <<"ssm_out", l>>, <<<<"gdn_out">>>>)>>

MixerCpu(l, p) ==
  CASE stack[l] \in {"attention", "qk_attention"} -> AttentionCpu(l, p)
    [] stack[l] = "short_conv"      -> ShortConvCpu(l)
    [] stack[l] = "gated_attention" -> GatedAttentionCpu(l, p)
    [] stack[l] = "gated_delta_net" -> GatedDeltaNetCpu(l)

-----------------------------------------------------------------------------
(* run: one token through the stack.                                       *)

Norm(w, x, xn) == <<I(xn, "rms_norm", w, <<x>>)>>
Residual(x, d) == <<I(x, "add", <<>>, <<x, d>>)>>

(* ffn_gate_up computes both dot products of a row and combines them.      *)
FfnCpu(l) ==
  <<I(<<"g">>, "mm", <<"ffn_gate", l>>, <<<<"xn">>>>),
    I(<<"u">>, "mm", <<"ffn_up", l>>, <<<<"xn">>>>),
    I(<<"ffn_act">>, "silu_mul", <<>>, <<<<"g">>, <<"u">>>>),
    I(<<"proj">>, "mm", <<"ffn_down", l>>, <<<<"ffn_act">>>>)>>

LayerCpu(l, p) ==
  Norm(<<"attn_norm", l>>, <<"x">>, <<"xn">>) \o MixerCpu(l, p) \o Residual(<<"x">>, <<"proj">>)
    \o Norm(<<"ffn_norm", l>>, <<"x">>, <<"xn">>) \o FfnCpu(l) \o Residual(<<"x">>, <<"proj">>)

Run(p) ==
  <<I(<<"x">>, "embed", <<p>>, <<>>)>>
    \o FlattenSeq([l \in Layers |-> LayerCpu(l, p)])
    \o Norm(<<"output_norm">>, <<"x">>, <<"xn">>)
    \o <<I(<<"logits">>, "mm", <<"lm_head">>, <<<<"xn">>>>)>>
-----------------------------------------------------------------------------
(* run_batch: n tokens, row by row within a layer.  Batches of projections *)
(* fill all rows; the recurrent and gated mixers borrow the scratch of the *)
(* state for one row at a time.                                            *)

Rows(n, Op(_))      == FlattenSeq([t \in 1..n |-> Op(t - 1)])
MmRows(n, w, x, y)  == Rows(n, LAMBDA t : <<I(<<y, t>>, "mm", w, <<<<x, t>>>>)>>)
NormRows(n, w)      == Rows(n, LAMBDA t : Norm(w, <<"xb", t>>, <<"xnb", t>>))
ResidualRows(n)     == Rows(n, LAMBDA t : Residual(<<"xb", t>>, <<"projb", t>>))

AttentionBatch(l, p0, n) ==
  MmRows(n, <<"wq", l>>, "xnb", "qb") \o MmRows(n, <<"wk", l>>, "xnb", "kb")
    \o MmRows(n, <<"wv", l>>, "xnb", "vb")
    \o Rows(n, LAMBDA t :
          Attended(l, p0 + t, <<"qb", t>>, <<"kb", t>>, <<"vb", t>>, <<"attn_outb", t>>))
    \o MmRows(n, <<"wo", l>>, "attn_outb", "projb")

Shuttled(l, p0, n) ==
  Rows(n, LAMBDA t : <<I(<<"xn">>, "copy", <<>>, <<<<"xnb", t>>>>)>>
                       \o MixerCpu(l, p0 + t)
                       \o <<I(<<"projb", t>>, "copy", <<>>, <<<<"proj">>>>)>>)

FfnBatch(l, n) ==
  MmRows(n, <<"ffn_gate", l>>, "xnb", "gateb") \o MmRows(n, <<"ffn_up", l>>, "xnb", "upb")
    \o Rows(n, LAMBDA t : <<I(<<"gateb", t>>, "silu_mul", <<>>, <<<<"gateb", t>>, <<"upb", t>>>>)>>)
    \o MmRows(n, <<"ffn_down", l>>, "gateb", "projb")

LayerBatch(l, p0, n) ==
  NormRows(n, <<"attn_norm", l>>)
    \o (IF stack[l] \in {"attention", "qk_attention"}
        THEN AttentionBatch(l, p0, n) ELSE Shuttled(l, p0, n))
    \o ResidualRows(n) \o NormRows(n, <<"ffn_norm", l>>) \o FfnBatch(l, n) \o ResidualRows(n)

RunBatch(p0, n) ==
  Rows(n, LAMBDA t : <<I(<<"xb", t>>, "embed", <<p0 + t>>, <<>>)>>)
    \o FlattenSeq([l \in Layers |-> LayerBatch(l, p0, n)])
    \o Norm(<<"output_norm">>, <<"xb", n - 1>>, <<"xn">>)
    \o <<I(<<"logits">>, "mm", <<"lm_head">>, <<<<"xn">>>>)>>

-----------------------------------------------------------------------------
(* run_gpu_resident: launches over handles, executed in order by the       *)
(* queue.  Rotations, gates, the L2 norm and the gated norm work in place; *)
(* scores and weights are one pair of buffers for all layers.  The states  *)
(* of the layers are GPU buffers of their own, here under the names of     *)
(* their CPU counterparts, which a model on this path does not use.        *)

Launch(w, x, y) == <<I(y, "mm", w, <<x>>)>>

(* The launchers hand the kernels theta and the position, and no scale.    *)
RopeGpu(dims, p, x) == <<I(x, "rope", <<dims, p, "1">>, <<x>>)>>
QkNormRopeGpu(l, w, dims, p, x) == <<I(x, "qk_norm", <<w, l>>, <<x>>)>> \o RopeGpu(dims, p, x)

LaunchAttention(l, p, q, out) ==
  <<I(<<"attn_scores">>, "scores", <<>>, <<q>> \o Cached("kv_k", l, p)),
    I(<<"attn_weights">>, "softmax", <<>>, <<<<"attn_scores">>>>),
    I(out, "attend", <<>>, <<<<"attn_weights">>>> \o Cached("kv_v", l, p))>>

AttentionGpu(l, p) ==
  Qkv(l, "wq", <<"xn_h">>, <<"q_h">>, <<"k_h">>, <<"v_h">>)
    \o (IF stack[l] = "qk_attention"
        THEN QkNormRopeGpu(l, "q_norm", "head_dim", p, <<"q_h">>)
               \o QkNormRopeGpu(l, "k_norm", "head_dim", p, <<"k_h">>)
        ELSE RopeGpu("head_dim", p, <<"q_h">>) \o RopeGpu("head_dim", p, <<"k_h">>))
    \o CacheWrite(l, p, <<"k_h">>, <<"v_h">>)
    \o LaunchAttention(l, p, <<"q_h">>, <<"attn_out_h">>)
    \o Launch(<<"wo", l>>, <<"attn_out_h">>, <<"delta_h">>)

(* One kernel gates, convolves and shifts.                                 *)
ShortConvGpu(l) ==
  Launch(<<"in_proj", l>>, <<"xn_h">>, <<"bcx_h">>)
    \o <<I(<<"bx_r">>, "gate_b", <<>>, <<<<"bcx_h">>>>),
         I(<<"acc_r">>, "conv", <<"conv_weight", l>>, <<<<"conv_state", l>>, <<"bx_r">>>>),
         I(<<"conv_out_h">>, "gate_c", <<>>, <<<<"bcx_h">>, <<"acc_r">>>>),
         I(<<"conv_state", l>>, "shift", <<>>, <<<<"conv_state", l>>, <<"bx_r">>>>)>>
    \o Launch(<<"out_proj", l>>, <<"conv_out_h">>, <<"delta_h">>)

GatedAttentionGpu(l, p) ==
  Qkv(l, "wqg", <<"xn_h">>, <<"qg_raw_h">>, <<"k_h">>, <<"v_h">>)
    \o <<I(<<"q_h">>, "q_of", <<>>, <<<<"qg_raw_h">>>>),
         I(<<"gate_h">>, "gate_of", <<>>, <<<<"qg_raw_h">>>>)>>
    \o QkNormRopeGpu(l, "q_norm", "n_rot", p, <<"q_h">>)
    \o QkNormRopeGpu(l, "k_norm", "n_rot", p, <<"k_h">>)
    \o CacheWrite(l, p, <<"k_h">>, <<"v_h">>)
    \o LaunchAttention(l, p, <<"q_h">>, <<"attn_out_h">>)
    \o <<I(<<"gated_h">>, "sigmoid_mul", <<>>, <<<<"attn_out_h">>, <<"gate_h">>>>)>>
    \o Launch(<<"wo", l>>, <<"gated_h">>, <<"delta_h">>)

GdnConvGpu(l) ==
  <<I(<<"conv_h">>, "conv_silu", <<"conv_weight", l>>, <<<<"gdn_conv_state", l>>, <<"qkv_h">>>>),
    I(<<"gdn_conv_state", l>>, "shift", <<>>, <<<<"gdn_conv_state", l>>, <<"qkv_h">>>>)>>
GdnNormGpu(x) == <<I(x, "l2_norm", <<>>, <<x>>)>>

(* broken: the heads of qkv are normalized, as the overview comment has it *)
GdnConvThenNormSwapped(l) == GdnNormGpu(<<"qkv_h">>) \o GdnConvGpu(l)
GdnConvThenNorm(l) == GdnConvGpu(l) \o GdnNormGpu(<<"conv_h">>)

GatedDeltaNetGpu(l) ==
  GdnProjections(l, <<"xn_h">>, <<"qkv_h">>, <<"z_h">>, <<"beta_h">>, <<"alpha_h">>)
    \o <<I(<<"beta_h">>, "sigmoid", <<>>, <<<<"beta_h">>>>),
         I(<<"alpha_h">>, "decay", <<"ssm_a", "dt_bias", l>>, <<<<"alpha_h">>>>)>>
    \o GdnConvThenNorm(l)
    \o DeltaRule(<<"conv_h">>, <<"beta_h">>, <<"alpha_h">>, <<"gdn_state", l>>, <<"gdn_out_h">>)
    \o <<I(<<"gdn_out_h">>, "gated_norm", <<"ssm_norm", l>>, <<<<"gdn_out_h">>, <<"z_h">>>>)>>
    \o Launch(<<"ssm_out", l>>, <<"gdn_out_h">>, <<"delta_h">>)

MixerGpu(l, p) ==
  CASE stack[l] \in {"attention", "qk_attention"} -> AttentionGpu(l, p)
    [] stack[l] = "short_conv"      -> ShortConvGpu(l)
    [] stack[l] = "gated_attention" -> GatedAttentionGpu(l, p)
    [] stack[l] = "gated_delta_net" -> GatedDeltaNetGpu(l)

(* launch_add_residual_rms_norm: the sum and the norm of the sum.          *)
AddNorm(d, w) == Residual(<<"x_h">>, d) \o Norm(w, <<"x_h">>, <<"xn_h">>)

FfnGpu(l) ==
  Launch(<<"ffn_gate", l>>, <<"xn_h">>, <<"gate_ffn_h">>)
    \o Launch(<<"ffn_up", l>>, <<"xn_h">>, <<"up_ffn_h">>)
    \o <<I(<<"act_h">>, "silu_mul", <<>>, <<<<"gate_ffn_h">>, <<"up_ffn_h">>>>)>>
    \o Launch(<<"ffn_down", l>>, <<"act_h">>, <<"down_h">>)

(* The norm that follows layer l: the next layer's, or the output norm.    *)
NextNorm(l) == IF l + 1 \in Layers THEN <<"attn_norm", l + 1>> ELSE <<"output_norm">>

RunGpuResident(p) ==
  <<I(<<"x_h">>, "embed", <<p>>, <<>>)>> \o Norm(<<"attn_norm", 1>>, <<"x_h">>, <<"xn_h">>)
    \o FlattenSeq([l \in Layers |->
          MixerGpu(l, p) \o AddNorm(<<"delta_h">>, <<"ffn_norm", l>>)
            \o FfnGpu(l) \o AddNorm(<<"down_h">>, NextNorm(l))])
    \o Launch(<<"lm_head">>, <<"xn_h">>, <<"logits">>)

-----------------------------------------------------------------------------
(* Execution.                                                              *)

Recurrent == {<<b, l>> : b \in {"conv_state", "gdn_conv_state", "gdn_state"}, l \in Layers}

Init ==
  /\ stack \in Stacks /\ scaling \in Scalings /\ calls \in Schedules
  /\ placed = 0 /\ todo = <<>>
  /\ mem = [b \in Recurrent |-> <<"zero">>]

Program(call) ==
  CASE call.via = "run"   -> FlattenSeq([t \in 1..call.n |-> Run(placed + t - 1)])
    [] call.via = "batch" -> RunBatch(placed, call.n)
    [] call.via = "gpu"   -> FlattenSeq([t \in 1..call.n |-> RunGpuResident(placed + t - 1)])

Call ==
  /\ todo = <<>> /\ calls # <<>>
  /\ todo' = Program(Head(calls))
  /\ placed' = placed + Head(calls).n
  /\ calls' = Tail(calls)
  /\ UNCHANGED <<stack, scaling, mem>>

Read(b) == IF b \in DOMAIN mem THEN mem[b] ELSE <<"unset">>

Step ==
  /\ todo # <<>>
  /\ LET i == Head(todo)
         value == IF i.op = "copy" THEN Read(i.src[1])
                  ELSE <<i.op, i.w>> \o [k \in DOMAIN i.src |-> Read(i.src[k])]
     IN mem' = (i.dst :> value) @@ mem
  /\ todo' = Tail(todo)
  /\ UNCHANGED <<stack, scaling, calls, placed>>

Next == Call \/ Step

Spec == Init /\ [][Next]_vars

-----------------------------------------------------------------------------
(* The network, layer by layer and position by position: definitions, no   *)
(* buffers and no order.  xs is the residual stream before the layer, at   *)
(* the positions 0..p.                                                     *)

T(op, w, args) == <<op, w>> \o args
Normed(w, x)   == T("rms_norm", w, <<x>>)
Mm(w, x)       == T("mm", w, <<x>>)

Gated(l)   == stack[l] = "gated_attention"
HasQk(l)   == stack[l] # "attention"
RotDims(l) == IF Gated(l) THEN "n_rot" ELSE "head_dim"
Turned(l, norm, x, p) ==
  T("rope", <<RotDims(l), p, FreqScale>>,
    <<IF HasQk(l) THEN T("qk_norm", <<norm, l>>, <<x>>) ELSE x>>)

Xn(l, xs, q)       == Normed(<<"attn_norm", l>>, xs[q])
KeyAt(l, xs, q)    == T("store", <<>>, <<Turned(l, "k_norm", Mm(<<"wk", l>>, Xn(l, xs, q)), q)>>)
ValueAt(l, xs, q)  == T("store", <<>>, <<Mm(<<"wv", l>>, Xn(l, xs, q))>>)

AttentionOf(l, xs, p) ==
  LET qg      == Mm(<<"wqg", l>>, Xn(l, xs, p))
      query   == Turned(l, "q_norm", IF Gated(l) THEN T("q_of", <<>>, <<qg>>)
                                     ELSE Mm(<<"wq", l>>, Xn(l, xs, p)), p)
      scores  == T("scores", <<>>, <<query>> \o [t \in 1..(p + 1) |-> KeyAt(l, xs, t - 1)])
      mixed   == T("attend", <<>>, <<T("softmax", <<>>, <<scores>>)>>
                                     \o [t \in 1..(p + 1) |-> ValueAt(l, xs, t - 1)])
  IN Mm(<<"wo", l>>, IF Gated(l)
                     THEN T("sigmoid_mul", <<>>, <<mixed, T("gate_of", <<>>, <<qg>>)>>)
                     ELSE mixed)

(* The history of a convolution is what was shifted in before position p.  *)
Bcx(l, xs, q) == Mm(<<"in_proj", l>>, Xn(l, xs, q))
Bx(l, xs, q)  == T("gate_b", <<>>, <<Bcx(l, xs, q)>>)
ConvStateAt(l, xs, p) ==
  LET H[q \in 0..p] == IF q = 0 THEN <<"zero">> ELSE T("shift", <<>>, <<H[q - 1], Bx(l, xs, q - 1)>>)
  IN H[p]
ShortConvOf(l, xs, p) ==
  Mm(<<"out_proj", l>>, T("gate_c", <<>>, <<Bcx(l, xs, p),
       T("conv", <<"conv_weight", l>>, <<ConvStateAt(l, xs, p), Bx(l, xs, p)>>)>>))

QkvAt(l, xs, q) == Mm(<<"wqkv", l>>, Xn(l, xs, q))
GdnConvStateAt(l, xs, p) ==
  LET H[q \in 0..p] == IF q = 0 THEN <<"zero">> ELSE T("shift", <<>>, <<H[q - 1], QkvAt(l, xs, q - 1)>>)
  IN H[p]
QkvNormed(l, xs, q) ==
  T("l2_norm", <<>>, <<T("conv_silu", <<"conv_weight", l>>,
                         <<GdnConvStateAt(l, xs, q), QkvAt(l, xs, q)>>)>>)
GdnStateAt(l, xs, p) ==
  LET S[q \in 0..p] ==
        IF q = 0 THEN <<"zero">>
        ELSE T("delta", <<>>,
               <<S[q - 1], QkvNormed(l, xs, q - 1),
                 T("sigmoid", <<>>, <<Mm(<<"ssm_beta", l>>, Xn(l, xs, q - 1))>>),
                 T("decay", <<"ssm_a", "dt_bias", l>>, <<Mm(<<"ssm_alpha", l>>, Xn(l, xs, q - 1))>>)>>)
  IN S[p]
GatedDeltaNetOf(l, xs, p) ==
  Mm(<<"ssm_out", l>>, T("gated_norm", <<"ssm_norm", l>>,
       <<T("query", <<>>, <<GdnStateAt(l, xs, p + 1), QkvNormed(l, xs, p)>>),
         Mm(<<"wgate", l>>, Xn(l, xs, p))>>))

MixerOf(l, xs, p) ==
  CASE stack[l] = "short_conv"      -> ShortConvOf(l, xs, p)
    [] stack[l] = "gated_delta_net" -> GatedDeltaNetOf(l, xs, p)
    [] OTHER                        -> AttentionOf(l, xs, p)

LayerOf(l, xs, p) ==
  LET y  == T("add", <<>>, <<xs[p], MixerOf(l, xs, p)>>)
      yn == Normed(<<"ffn_norm", l>>, y)
  IN T("add", <<>>, <<y, Mm(<<"ffn_down", l>>,
       T("silu_mul", <<>>, <<Mm(<<"ffn_gate", l>>, yn), Mm(<<"ffn_up", l>>, yn)>>))>>)

(* The residual stream after l layers, at every position.                  *)
Stream ==
  LET X[l \in 0..Len(stack)] ==
        IF l = 0 THEN [p \in 0..(placed - 1) |-> T("embed", <<p>>, <<>>)]
        ELSE LET xs == X[l - 1] IN [p \in 0..(placed - 1) |-> LayerOf(l, xs, p)]
  IN X

Returned == placed > 0 /\ todo = <<>>

(* A call that returns hands out the logits the network defines for the    *)
(* last token, given all tokens placed before it and the positions as the  *)
(* model's rope scaling counts them ("linear: 1/factor - divides the       *)
(* effective position", cpu_path.rs:24), whichever of run, run_batch and   *)
(* run_gpu_resident served the calls and however they split the tokens.    *)
LogitsAgree ==
  Returned =>
    mem[<<"logits">>] = Mm(<<"lm_head">>, Normed(<<"output_norm">>, Stream[Len(stack)][placed - 1]))

(* ... and it leaves the state the network defines: keys and values of     *)
(* every position in the cache, rotated and normalized, the convolution    *)
(* histories and the delta-rule states advanced by every token once.       *)
StateAgrees ==
  Returned =>
    \A l \in Layers :
      LET xs == Stream[l - 1]
      IN CASE stack[l] = "short_conv" ->
                Read(<<"conv_state", l>>) = ConvStateAt(l, xs, placed)
           [] stack[l] = "gated_delta_net" ->
                /\ Read(<<"gdn_conv_state", l>>) = GdnConvStateAt(l, xs, placed)
                /\ Read(<<"gdn_state", l>>) = GdnStateAt(l, xs, placed)
           [] OTHER ->
                \A p \in 0..(placed - 1) :
                  /\ Read(<<"kv_k", l, p>>) = KeyAt(l, xs, p)
                  /\ Read(<<"kv_v", l, p>>) = ValueAt(l, xs, p)
=============================================================================
