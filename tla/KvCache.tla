------------------------------- MODULE KvCache -------------------------------
(***************************************************************************)
(* The KV cache of the CPU paths, byte by byte (KvDtype and KvCache in     *)
(* src/src/model/mod.rs): one array of packed keys and one of values for   *)
(* every layer, a slice of bytes_per_token for every position, and a       *)
(* scratch array into which read_up_to unpacks and of which it returns the *)
(* front.  The scratch is shared by all layers and never cleared.          *)
(*                                                                         *)
(* LlamaModel takes a cache for a map from layer and position to what was  *)
(* written there; this module shows that it is one (KvStore).              *)
(*                                                                         *)
(* A vector is a name, its elements are <<name, i>>.  The bytes of an      *)
(* element, and the scale made from a block of them, are terms.            *)
(***************************************************************************)
EXTENDS KvDtype, Sequences

CONSTANTS
  NLayers, MaxSeqLen,
  HeadDims,     \* the widths head_dim_kv considered
  Vectors,      \* names of the vectors written
  MaxRange      \* bound: positions of a write_range

ASSUME SizesAssumption ==
  {NLayers, MaxSeqLen, MaxRange} \subseteq Nat \ {0} /\ HeadDims \subseteq Nat \ {0}

Layer    == 0 .. (NLayers - 1)
Position == 0 .. (MaxSeqLen - 1)

VARIABLES
  dtype, head_dim_kv,
  k, v,                  \* [layer] -> bytes
  k_scratch, v_scratch,  \* floats
  read                   \* what the last read_up_to returned, by position

cacheVars == <<dtype, head_dim_kv, k, v, k_scratch, v_scratch, read>>

(* bpt in the code.                                                        *)
SlotBytes == BytesPerToken(dtype, head_dim_kv)

ZeroByte == <<"0">>
Zero     == <<"0.0">>
Garbage  == <<"garbage">>

(* The stored form of element i of x: an f16, or a byte under the scale of *)
(* its block.                                                              *)
F16(x, i) == <<"f16", x, i>>
Q8(x, i)  == <<"q8", x, i \div KvBlock, i>>

(* KvDtype::pack: byte o of a slot after x was packed over old.  Chunks    *)
(* and elements are zipped, so what has no partner is left as it was.      *)
PackByte(x, o, old) ==
  IF dtype = "F16"
  THEN IF o \div 2 < head_dim_kv THEN <<"f16", x, o \div 2, o % 2>> ELSE old
  ELSE LET b == o \div BlockLength
           j == o % BlockLength
           i == b * KvBlock + j - ScaleBytes
       IN IF j < ScaleBytes /\ b * KvBlock < head_dim_kv THEN <<"scale", x, b, j>>
          ELSE IF j >= ScaleBytes /\ i < head_dim_kv THEN <<"q8", x, b, i>> ELSE old

(* KvDtype::unpack: the floats of a slot, over what the scratch had.       *)
Unpack(bytes, old) ==
  [i \in DOMAIN old |->
     IF dtype = "F16"
     THEN IF 2 * i + 1 \notin DOMAIN bytes THEN old[i]
          ELSE LET lo == bytes[2 * i]
                   hi == bytes[2 * i + 1]
               IN IF lo = ZeroByte /\ hi = ZeroByte THEN Zero
                  ELSE IF lo # ZeroByte /\ hi # ZeroByte /\ lo[1] = "f16" /\ hi[1] = "f16"
                            /\ lo[2] = hi[2] /\ lo[3] = hi[3] /\ lo[4] = 0 /\ hi[4] = 1
                       THEN F16(lo[2], lo[3]) ELSE Garbage
     ELSE LET base == (i \div KvBlock) * BlockLength
              at   == base + ScaleBytes + (i % KvBlock)
          IN IF at \notin DOMAIN bytes THEN old[i]
             ELSE LET q  == bytes[at]
                      s0 == bytes[base]
                      s1 == bytes[base + 1]
                  IN IF {q, s0, s1} = {ZeroByte} THEN Zero
                     ELSE IF ZeroByte \notin {q, s0, s1} /\ q[1] = "q8" /\ s0[1] = "scale"
                               /\ s1[1] = "scale" /\ q[2] = s0[2] /\ q[3] = s0[3]
                               /\ s0[2] = s1[2] /\ s0[3] = s1[3] /\ s0[4] = 0 /\ s1[4] = 1
                          THEN <<"q8", q[2], q[3], q[4]>> ELSE Garbage]

(* The slice of a position, and the store with that slice replaced.        *)
Slot(bytes, p) == [o \in 0 .. (SlotBytes - 1) |-> bytes[p * SlotBytes + o]]
Packed(bytes, p, x) ==
  [o \in DOMAIN bytes |->
     IF o \div SlotBytes = p THEN PackByte(x, o % SlotBytes, bytes[o]) ELSE bytes[o]]

CacheInit ==
  /\ dtype \in KvDtypes
  /\ head_dim_kv \in HeadDims
  /\ LET bytes == [o \in 0 .. (MaxSeqLen * SlotBytes - 1) |-> ZeroByte]
     IN /\ k = [l \in Layer |-> bytes]
        /\ v = [l \in Layer |-> bytes]
  /\ k_scratch = [i \in 0 .. (MaxSeqLen * head_dim_kv - 1) |-> Zero]
  /\ v_scratch = k_scratch
  /\ read = << >>

(* write, for the keys and the values of the same token.                   *)
KeyOf(w) == <<w, "k">>
ValueOf(w) == <<w, "v">>
Write(l, p, w) ==
  /\ k' = [k EXCEPT ![l] = Packed(@, p, KeyOf(w))]
  /\ v' = [v EXCEPT ![l] = Packed(@, p, ValueOf(w))]
  /\ UNCHANGED <<dtype, head_dim_kv, k_scratch, v_scratch, read>>

(* write_range: the tokens ws, one after the other from pos_start.         *)
PackedRange(bytes, pos_start, xs) ==
  LET after[n \in 0 .. Len(xs)] ==
        IF n = 0 THEN bytes ELSE Packed(after[n - 1], pos_start + n - 1, xs[n])
  IN after[Len(xs)]
WriteRange(l, pos_start, ws) ==
  /\ pos_start + Len(ws) <= MaxSeqLen
  /\ k' = [k EXCEPT ![l] = PackedRange(@, pos_start, [i \in DOMAIN ws |-> KeyOf(ws[i])])]
  /\ v' = [v EXCEPT ![l] = PackedRange(@, pos_start, [i \in DOMAIN ws |-> ValueOf(ws[i])])]
  /\ UNCHANGED <<dtype, head_dim_kv, k_scratch, v_scratch, read>>

(* read_up_to: every slot up to pos is unpacked, the front of the scratch  *)
(* is returned.                                                            *)
Window(scratch, p) == [i \in 0 .. (head_dim_kv - 1) |-> scratch[p * head_dim_kv + i]]
Unpacked(bytes, scratch, pos) ==
  [i \in DOMAIN scratch |->
     LET p == i \div head_dim_kv
     IN IF p <= pos THEN Unpack(Slot(bytes, p), Window(scratch, p))[i % head_dim_kv]
                    ELSE scratch[i]]
ReadUpTo(l, pos) ==
  /\ k_scratch' = Unpacked(k[l], k_scratch, pos)
  /\ v_scratch' = Unpacked(v[l], v_scratch, pos)
  /\ read' = [i \in 1 .. (pos + 1) |->
                [k |-> Window(k_scratch', i - 1), v |-> Window(v_scratch', i - 1)]]
  /\ UNCHANGED <<dtype, head_dim_kv, k, v>>

CacheNext ==
  \E l \in Layer, p \in Position :
    \/ ReadUpTo(l, p)
    \/ \E w \in Vectors : Write(l, p, w)
    \/ \E n \in 2 .. MaxRange : \E ws \in [1 .. n -> Vectors] : WriteRange(l, p, ws)

CacheSpec == CacheInit /\ [][CacheNext]_cacheVars
-----------------------------------------------------------------------------
(* The token in a slot, by its bytes, and in what was read, by its floats. *)

SlotBlank(keys, values, p) ==
  \A o \in 0 .. (SlotBytes - 1) :
    /\ keys[p * SlotBytes + o] = ZeroByte
    /\ values[p * SlotBytes + o] = ZeroByte
SlotHolds(keys, values, p, w) ==
  \A o \in 0 .. (SlotBytes - 1) :
    /\ keys[p * SlotBytes + o] = PackByte(KeyOf(w), o, ZeroByte)
    /\ values[p * SlotBytes + o] = PackByte(ValueOf(w), o, ZeroByte)
SlotToken(keys, values, p) ==
  IF SlotBlank(keys, values, p) THEN "blank"
  ELSE IF \E w \in Vectors : SlotHolds(keys, values, p, w)
       THEN CHOOSE w \in Vectors : SlotHolds(keys, values, p, w) ELSE "garbage"

Element(x, i) == IF dtype = "F16" THEN F16(x, i) ELSE Q8(x, i)
ReadBlank(r) == \A i \in DOMAIN r.k : r.k[i] = Zero /\ r.v[i] = Zero
ReadHolds(r, w) ==
  \A i \in DOMAIN r.k : r.k[i] = Element(KeyOf(w), i) /\ r.v[i] = Element(ValueOf(w), i)
ReadToken(r) ==
  IF ReadBlank(r) THEN "blank"
  ELSE IF \E w \in Vectors : ReadHolds(r, w)
       THEN CHOOSE w \in Vectors : ReadHolds(r, w) ELSE "garbage"

Store == INSTANCE KvStore WITH
  Layers <- Layer, Positions <- Position,
  Writes <- UNION {[1 .. n -> Vectors] : n \in 1 .. MaxRange}, Blank <- "blank",
  slots  <- [l \in Layer |-> [p \in Position |-> SlotToken(k[l], v[l], p)]],
  read   <- [i \in DOMAIN read |-> ReadToken(read[i])]

(* The packed cache is a map from layer and position to what was written   *)
(* there last: no write spills into another slot, however the dtype packs  *)
(* and wherever a partial block ends, write_range is the writes one by     *)
(* one, and no read returns what the scratch held from another layer.      *)
ImplementsStore == Store!StoreSpec
=============================================================================
