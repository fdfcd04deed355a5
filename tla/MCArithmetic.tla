---------------------------- MODULE MCArithmetic ----------------------------
(***************************************************************************)
(* What is computed, however it is computed: one launch of an elementwise  *)
(* kernel (Elementwise), the stack of layers in its three implementations  *)
(* (LayerPrograms), one row of quantized weights in its several walks      *)
(* (QuantLayout), each against the loops or definitions it stands for.  A  *)
(* behaviour is one of them, and the others stay as they are.              *)
(***************************************************************************)
EXTENDS Elementwise, QuantLayout, TLC

CONSTANTS Parts, Stacks, Schedules, Scalings

VARIABLES part,
  stack, scaling, calls, placed, todo, store

running == <<stack, scaling, calls, placed, todo, store>>

-----------------------------------------------------------------------------
Dims(h, kv, d, r, p, l, v) ==
  [heads |-> h, kv_heads |-> kv, head_dim |-> d, n_rot |-> r, pos |-> p, taps |-> l, v_dim |-> v]

(* Grouped heads and a full rotation; partial rotation and one KV head;    *)
(* an odd number of heads, the first position and a convolution without    *)
(* history.                                                                *)
MCShapes == {Dims(4, 2, 2, 2, 1, 3, 2), Dims(2, 1, 4, 2, 2, 2, 3), Dims(3, 3, 2, 2, 0, 1, 1),
             Dims(4, 4, 2, 2, 1, 4, 1)}

MCKernels ==
  {"silu_mul", "sigmoid_mul", "split_qg", "rope", "short_conv", "causal_conv1d_silu",
   "gdn_gate_decay", "gdn_recurrence", "kv_cache_write", "attention_scores",
   "attention_output", "attention_scores_q8_0", "attention_output_q8_0", "matmul"}

-----------------------------------------------------------------------------
LP == INSTANCE LayerPrograms WITH mem <- store
ASSUME InstanceAssumption == LP!InstanceAssumption

(* Every mixer alone, and the stacks of the hybrid models in small.        *)
MCStacks ==
  {<<"attention">>, <<"qk_attention">>, <<"short_conv">>, <<"gated_attention">>, <<"gated_delta_net">>}
    \cup {<<"short_conv", "qk_attention">>, <<"gated_delta_net", "gated_attention">>,
          <<"attention", "attention">>,
          <<"short_conv", "short_conv", "qk_attention">>,
          <<"gated_delta_net", "gated_delta_net", "gated_attention">>}

Via(path, n) == [via |-> path, n |-> n]

(* Token by token, a batch, a batch continued token by token, tokens       *)
(* continued by a batch, and the resident path.                            *)
MCSchedules ==
  {<<Via("run", 1), Via("run", 1), Via("run", 1)>>, <<Via("batch", 3)>>,
   <<Via("batch", 2), Via("run", 1)>>, <<Via("run", 1), Via("batch", 2), Via("batch", 1)>>,
   <<Via("gpu", 2), Via("gpu", 1)>>}

-----------------------------------------------------------------------------
(* Rows that TLC walks.                                                    *)
Walk(f, i, ns) == {[fmt |-> f, impl |-> i, n |-> n, row |-> r] : n \in ns, r \in 0..1}

(* Partial last blocks wherever the code supports them; an odd number of   *)
(* Q8_0 blocks, whose rows do not end at a word; more blocks or sub-units  *)
(* than lanes.                                                             *)
MCWalks ==
  Walk("Q8_0", "dequant", {32, 80, 96}) \cup Walk("Q8_0", "dot", {32, 80, 96})
    \cup Walk("Q8_0", "u8", {80, 96}) \cup Walk("Q8_0", "gpu", {80, 96, 2112})
    \cup Walk("Q5_0", "dequant", {32, 80}) \cup Walk("Q5_0", "dot", {64})
    \cup Walk("Q4_K", "dequant", {256, 300}) \cup Walk("Q4_K", "dot", {256, 300, 508, 512})
    \cup Walk("Q4_K", "u8", {300, 512}) \cup Walk("Q4_K", "gpu", {300, 2304})
    \cup Walk("Q4_K", "gpu_coop", {300, 512})
    \cup Walk("Q5_K", "dequant", {256, 300}) \cup Walk("Q5_K", "dot", {256, 508})
    \cup Walk("Q5_K", "q8k", {300, 512}) \cup Walk("Q5_K", "gpu", {300, 512})
    \cup Walk("Q6_K", "dequant", {256, 300}) \cup Walk("Q6_K", "dot", {300, 512})
    \cup Walk("Q6_K", "u8", {300}) \cup Walk("Q6_K", "gpu", {300, 512})
    \cup {[fmt |-> "Q2_K", impl |-> "dequant", n |-> n, row |-> 0] : n \in {256, 300, 512}}

(* The second row of a Q2_K tensor.                                        *)
Q2KRows == Walk("Q2_K", "dequant", {256})

-----------------------------------------------------------------------------
(* A part that does not run is in one of its initial states.               *)
IdleShape    == CHOOSE x \in Shapes : TRUE
IdleStack    == CHOOSE x \in Stacks : TRUE
IdleSchedule == CHOOSE x \in Schedules : TRUE
IdleWalk     == CHOOSE x \in Walks : TRUE
ArithmeticInit ==
  /\ part \in Parts
  /\ IF part = "launch" THEN TRUE ELSE kernel = "silu_mul" /\ shape = IdleShape
  /\ Init
  /\ IF part = "layers" THEN TRUE
     ELSE stack = IdleStack /\ scaling = "none" /\ calls = IdleSchedule
  /\ LP!Init
  /\ IF part = "row" THEN TRUE ELSE walk = IdleWalk
  /\ RowInit

LaunchStep == part = "launch" /\ Next /\ UNCHANGED <<part, running, rowVars>>
LayerStep  == part = "layers" /\ LP!Next /\ UNCHANGED <<part, vars, rowVars>>
WalkStep   == part = "row" /\ RowNext /\ UNCHANGED <<part, vars, running>>

ArithmeticNext == LaunchStep \/ LayerStep \/ WalkStep

ArithmeticSpec == ArithmeticInit /\ [][ArithmeticNext]_<<part, vars, running, rowVars>>

-----------------------------------------------------------------------------
(* The properties of the instances under their names.                      *)

(* The logits of a call are those the network defines, on every path.      *)
LogitsAgree == LP!LogitsAgree

(* The logits of a call are those the network defines, and so are the      *)
(* cache, the histories and the recurrent states it leaves.                *)
PathsAgree == LogitsAgree /\ LP!StateAgrees
=============================================================================
