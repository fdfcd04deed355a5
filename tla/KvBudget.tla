------------------------------- MODULE KvBudget -------------------------------
(***************************************************************************)
(* What the tools promise about the KV cache and what is allocated later   *)
(* (src/src/model/mod.rs).  gguf-info reads the metadata of a file through *)
(* ModelInfo and says how long a context fits into the memory that is      *)
(* left; a program that loads the same file reads it through ModelConfig   *)
(* and allocates a KvCache of that length.  The two read the metadata      *)
(* each in its own way.                                                    *)
(*                                                                         *)
(* A metadata key that is absent is NONE; head_count_kv is NONE, a number  *)
(* or, in hybrid models, an array with one number per layer.               *)
(***************************************************************************)
EXTENDS KvDtype, FiniteSets

CONSTANTS
  Infos,      \* the metadata of the files considered
  Budgets,    \* the bytes available for the cache
  MaxContext  \* bound: the longest context allocated

NONE == -1    \* an absent key
Count == Nat \ {0}

Scalar(n) == [kind |-> "scalar", n |-> n, per_layer |-> {}]
Absent    == [kind |-> "absent", n |-> 0, per_layer |-> {}]
Array(S)  == [kind |-> "array", n |-> 0, per_layer |-> S]

Metadata ==
  [head_count : Count, embedding_length : Nat, key_length : Nat \cup {NONE},
   block_count : Count,
   head_count_kv : [kind : {"absent", "scalar", "array"}, n : Nat, per_layer : SUBSET Nat]]

ASSUME InfosAssumption == Infos \subseteq Metadata
ASSUME BudgetsAssumption == Budgets \subseteq Nat /\ MaxContext \in Nat

VARIABLES
  info,       \* the metadata
  kv_dtype,   \* the KV dtype
  available,  \* bytes
  context,    \* the context promised, NONE before
  allocated   \* bytes of the K and V stores, NONE before

budgetVars == <<info, kv_dtype, available, context, allocated>>

-----------------------------------------------------------------------------
(* ModelInfo.                                                              *)

(* get_u64 gives None for an array, and None falls back to head_count.     *)
EffectiveHeadCountKv(f) ==
  IF f.head_count_kv.kind = "scalar" THEN f.head_count_kv.n ELSE f.head_count
HeadDim(f) == f.embedding_length \div f.head_count

KvBytesPerTokenPerLayer(f, d) == 2 * BytesPerToken(d, EffectiveHeadCountKv(f) * HeadDim(f))

(* The estimate for formats that do not exist yet: bits per element, flat. *)
BitsPerElement(d) == IF d = "F16" THEN 16 ELSE 9
MaxContextAtKvBits(f, avail, bits) ==
  LET per_layer == (2 * EffectiveHeadCountKv(f) * HeadDim(f) * bits) \div 8
  IN IF per_layer = 0 THEN 0 ELSE avail \div (per_layer * f.block_count)

FlatContext(f, avail, d) ==      \* broken: ignores the block overhead
  MaxContextAtKvBits(f, avail, BitsPerElement(d))
MaxContextAtKvDtype(f, avail, d) ==
  LET total_per_token == KvBytesPerTokenPerLayer(f, d) * f.block_count
  IN IF total_per_token = 0 THEN 0 ELSE avail \div total_per_token

-----------------------------------------------------------------------------
(* ModelConfig.                                                            *)

(* The largest positive entry of a per-layer array.                        *)
LargestKv(f) ==
  LET positive == {n \in f.head_count_kv.per_layer : n > 0}
  IN IF positive = {} THEN f.head_count
     ELSE CHOOSE n \in positive : \A m \in positive : m <= n

CfgHeadCountKv(f) ==
  CASE f.head_count_kv.kind = "scalar" -> f.head_count_kv.n
    [] f.head_count_kv.kind = "array"  -> LargestKv(f)
    [] f.head_count_kv.kind = "absent" -> f.head_count
CfgHeadDim(f) ==
  IF f.key_length = NONE THEN f.embedding_length \div f.head_count ELSE f.key_length

(* KvCache::new_with_dtype: the packed stores of K and V in every layer.   *)
CacheBytes(f, d, max_seq_len) ==
  2 * (f.block_count * (max_seq_len * BytesPerToken(d, CfgHeadCountKv(f) * CfgHeadDim(f))))

-----------------------------------------------------------------------------
BudgetInit ==
  /\ info \in Infos /\ kv_dtype \in KvDtypes /\ available \in Budgets
  /\ context = NONE /\ allocated = NONE

(* gguf-info prints the context that fits.                                 *)
Plan ==
  /\ context = NONE
  /\ context' = MaxContextAtKvDtype(info, available, kv_dtype)
  /\ UNCHANGED <<info, kv_dtype, available, allocated>>

(* A program allocates a cache of that length.                             *)
Allocate ==
  /\ context # NONE /\ allocated = NONE /\ context <= MaxContext
  /\ allocated' = CacheBytes(info, kv_dtype, context)
  /\ UNCHANGED <<info, kv_dtype, available, context>>

BudgetNext == Plan \/ Allocate

BudgetSpec == BudgetInit /\ [][BudgetNext]_budgetVars
-----------------------------------------------------------------------------
(* The files whose metadata the two readers take in the same way.          *)
SameReading ==
  /\ CfgHeadCountKv(info) = EffectiveHeadCountKv(info)
  /\ CfgHeadDim(info) = HeadDim(info)

(* What is allocated for the context promised fits into the budget, and a  *)
(* token more would not: the promise is exact (src/src/model/mod.rs:177).  *)
(* A model whose tokens take no bytes has no largest context.              *)
PlanIsTight ==
  allocated # NONE =>
    /\ allocated <= available
    /\ CacheBytes(info, kv_dtype, 1) > 0 => available < CacheBytes(info, kv_dtype, context + 1)

(* It is for the files that are read in the same way,                      *)
PlanIsTightForPlainFiles == SameReading => PlanIsTight
=============================================================================
