--------------------------- MODULE ElementwiseInv ---------------------------
(***************************************************************************)
(* The inductive invariant behind LaunchExact.                             *)
(*                                                                         *)
(* Every element that a launch writes belongs to one thread, its owner.    *)
(* Until the owner is done the element is as the launch found it; after    *)
(* that it holds what the CPU path stores there.  So a thread that reads   *)
(* only elements that are its own, or nobody's, computes from the input,   *)
(* whatever the others have done.                                          *)
(***************************************************************************)
EXTENDS Elementwise

(* The thread that stores element k of array b.                            *)
Owner(b, k) ==
  CASE kernel = "rope"                           -> (k \div Dim) * Half + ((k % Dim) % Half)
    [] kernel \in {"short_conv", "causal_conv1d_silu"} /\ b = "history" -> k % KvDim
    [] kernel = "gdn_recurrence" /\ b = "state" -> ((k \div VDim) \div Dim) * VDim + (k % VDim)
    [] kernel = "kv_cache_write"                 -> k - Pos * KvDim
    [] kernel \in {"attention_scores", "attention_scores_q8_0"}
                                                 -> (k \div MaxSeq) * SeqLen + (k % MaxSeq)
    [] kernel = "matmul"                         -> k % OutDim
    [] OTHER                                     -> k

(* The stores of the CPU path that are thread i's to make.                 *)
Own(i) == {w \in CpuStores : Owner(w.buf, w.at) = i}

Cell(w, b, k) == w.buf = b /\ w.at = k

(* The memory as thread i wants to find it: what nobody else stores is as  *)
(* the launch found it.                                                    *)
Fresh(i) ==
  \A b \in DOMAIN Buffers : \A k \in 0..(Buffers[b] - 1) :
    (\A w \in CpuStores : Cell(w, b, k) => Owner(b, k) = i) => At(b, k) = In(b, k)

-----------------------------------------------------------------------------
(* What makes a kernel and its grid right: every store of the CPU path is  *)
(* inside an array bound and has an owner that runs; there is one value    *)
(* for a cell; and a thread that finds its memory fresh decodes its flat   *)
(* index to exactly its own stores.                                        *)

Placed ==
  /\ Launched.threads \in Nat /\ Covered \in Nat /\ Covered <= Launched.threads
  /\ \A w \in CpuStores :
       /\ w.buf \in DOMAIN Buffers /\ w.at \in 0..(Buffers[w.buf] - 1)
       /\ Owner(w.buf, w.at) \in 0..(Covered - 1)

Functional == \A w, v \in CpuStores : Cell(w, v.buf, v.at) => w.val = v.val

Decodes == \A i \in 0..(Covered - 1) : Fresh(i) => Stores(i) = Own(i)

Sound == Placed /\ Functional /\ Decodes

-----------------------------------------------------------------------------
(* The invariant.                                                          *)

LaunchType ==
  kernel \in KernelNames /\ shape \in Shapes /\ pc \in [Thread -> {"ready", "loaded", "done"}]

RegsHold ==
  /\ regs = [i \in Thread |-> IF pc[i] = "loaded" THEN Own(i) ELSE {}]
  /\ \A i \in Thread : pc[i] = "loaded" => i < Covered

Bound ==
  /\ DOMAIN mem = DOMAIN Buffers
  /\ \A b \in DOMAIN Buffers : DOMAIN mem[b] = 0..(Buffers[b] - 1)

(* Nobody has stored element k of array b yet.                             *)
Cleared(b, k) == \A w \in CpuStores : Cell(w, b, k) => pc[Owner(b, k)] # "done"

MemHolds ==
  \A b \in DOMAIN Buffers : \A k \in 0..(Buffers[b] - 1) :
    /\ Cleared(b, k) => mem[b][k] = In(b, k)
    /\ \A w \in CpuStores : Cell(w, b, k) /\ pc[Owner(b, k)] = "done" => mem[b][k] = w.val

IInv == LaunchType /\ RegsHold /\ Bound /\ MemHolds
=============================================================================
