------------------------------- MODULE KvDtype -------------------------------
(***************************************************************************)
(* The two formats of the KV cache, and the bytes of a token in one layer  *)
(* (KvDtype in src/src/model/mod.rs): what the memory is planned with and  *)
(* what the slots are cut by.                                              *)
(***************************************************************************)
EXTENDS Integers

CONSTANTS
  KvBlock,    \* elements of a q8_0 block: 32
  ScaleBytes  \* bytes of its scale: 2

(* The two bytes of a scale are read one by one.                           *)
ASSUME DtypeAssumption == KvBlock \in Nat \ {0} /\ ScaleBytes = 2

KvDtypes == {"F16", "Q8_0"}

BlockLength == ScaleBytes + KvBlock
DivCeil(a, b) == (a + b - 1) \div b

BytesFloor(d, head_dim_kv) ==      \* broken: no room for a partial block
  IF d = "F16" THEN head_dim_kv * 2 ELSE (head_dim_kv \div KvBlock) * BlockLength
(* KvDtype::bytes_per_token: a partial q8_0 block takes a whole one.       *)
BytesPerToken(d, head_dim_kv) ==
  IF d = "F16" THEN head_dim_kv * 2 ELSE DivCeil(head_dim_kv, KvBlock) * BlockLength
=============================================================================
