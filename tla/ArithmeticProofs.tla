-------------------------- MODULE ArithmeticProofs --------------------------
(***************************************************************************)
(* Proofs about Elementwise, for every shape of model, every size of       *)
(* workgroup, grid, cache and block, and every order of the threads, and   *)
(* about QuantLayout, for every format, walk, length and number of rows.   *)
(*                                                                         *)
(* Elementwise: IInv is inductive for any kernel that is Sound, whatever   *)
(* it computes; that each of the fourteen kernels is Sound is arithmetic   *)
(* of its flat indices, without a step of the system in it.                *)
(*                                                                         *)
(* QuantLayout: an element is a place, (block, sub-block, lane of 32), and *)
(* Ref says once for each format which bits it is made of.  That every     *)
(* walk reads Ref of the places a unit owns, and nothing else, is          *)
(* arithmetic of the loops; the properties follow from Ref alone.          *)
(***************************************************************************)
EXTENDS ElementwiseInv, QuantLayout, FiniteSetTheorems, SequenceTheorems, TLAPS

-----------------------------------------------------------------------------
(* Arithmetic of flat indices.                                             *)

(* Naturals are closed under the product (a step of its own: the provers   *)
(* do not mix it with other facts).                                        *)
LEMMA Product == \A a, b \in Nat : a * b \in Nat
  OBVIOUS

(* A flat index q * n + r decodes to q and r.                              *)
LEMMA DivisionIsUnique ==
  ASSUME NEW n \in Nat \ {0}, NEW q \in Nat, NEW r \in 0 .. (n - 1)
  PROVE  (q * n + r) \div n = q /\ (q * n + r) % n = r
  OBVIOUS

(* Every index is the flat index of its quotient and remainder.            *)
LEMMA Division ==
  ASSUME NEW n \in Nat \ {0}, NEW i \in Nat
  PROVE  /\ i \div n \in Nat /\ i % n \in 0 .. (n - 1)
         /\ i = (i \div n) * n + (i % n)
<1>1. i % n \in 0 .. (n - 1)
  OBVIOUS
<1>2. i \div n \in Nat
  OBVIOUS
<1>3. i = (i \div n) * n + (i % n)
  OBVIOUS
<1> QED
  BY <1>1, <1>2, <1>3

(* Multiplying keeps the order.                                            *)
LEMMA Monotone ==
  ASSUME NEW a \in Nat, NEW b \in Nat, a <= b, NEW n \in Nat
  PROVE  a * n <= b * n
  OBVIOUS

(* Row a and column b of an m x n array lie in its m * n elements.         *)
LEMMA FlatInRange ==
  ASSUME NEW m \in Nat, NEW n \in Nat, NEW a \in 0 .. (m - 1), NEW b \in 0 .. (n - 1)
  PROVE  a * n + b \in 0 .. (m * n - 1)
<1>1. (a + 1) * n <= m * n
  BY Monotone
<1>2. (a + 1) * n = a * n + n
  OBVIOUS
<1>3. a * n \in Nat /\ m * n \in Nat
  BY Product
<1> QED
  BY <1>1, <1>2, <1>3

(* An index below m * n has its row below m and its column below n.        *)
LEMMA RowInRange ==
  ASSUME NEW m \in Nat, NEW n \in Nat \ {0}, NEW i \in 0 .. (m * n - 1)
  PROVE  i \div n \in 0 .. (m - 1) /\ i % n \in 0 .. (n - 1) /\ i = (i \div n) * n + (i % n)
<1>1. m * n \in Nat
  BY Product
<1>2. i \in Nat
  BY <1>1
<1>3. i \div n \in Nat /\ i % n \in 0 .. (n - 1) /\ i = (i \div n) * n + (i % n)
  BY <1>2, Division
<1>4. ~(m <= i \div n)
  <2> SUFFICES ASSUME m <= i \div n PROVE FALSE
    OBVIOUS
  <2>1. m * n <= (i \div n) * n
    BY <1>3, Monotone
  <2>2. (i \div n) * n \in Nat
    BY <1>3, Product
  <2> QED
    BY <1>1, <1>3, <2>1, <2>2
<1> QED
  BY <1>3, <1>4

(* Both directions: the indices below m * n are exactly the pairs of a row *)
(* and a column.                                                           *)
LEMMA Grid ==
  ASSUME NEW m \in Nat, NEW n \in Nat \ {0}
  PROVE  /\ \A i \in 0 .. (m * n - 1) :
              i \div n \in 0 .. (m - 1) /\ i % n \in 0 .. (n - 1) /\ (i \div n) * n + (i % n) = i
         /\ \A a \in 0 .. (m - 1), b \in 0 .. (n - 1) :
              \E i \in 0 .. (m * n - 1) : i \div n = a /\ i % n = b /\ i = a * n + b
<1>1. ASSUME NEW i \in 0 .. (m * n - 1)
      PROVE  i \div n \in 0 .. (m - 1) /\ i % n \in 0 .. (n - 1) /\ (i \div n) * n + (i % n) = i
  BY RowInRange
<1>2. ASSUME NEW a \in 0 .. (m - 1), NEW b \in 0 .. (n - 1)
      PROVE  \E i \in 0 .. (m * n - 1) : i \div n = a /\ i % n = b /\ i = a * n + b
  <2>1. a * n + b \in 0 .. (m * n - 1)
    BY FlatInRange
  <2>2. (a * n + b) \div n = a /\ (a * n + b) % n = b
    BY DivisionIsUnique
  <2> QED
    BY <2>1, <2>2
<1> QED
  BY <1>1, <1>2

-----------------------------------------------------------------------------
(* The launch: each step keeps the invariant when the kernel is sound.     *)

(* The kernel and its dimensions do not change during a launch.            *)
LEMMA LaunchStays ==
  kernel' = kernel /\ shape' = shape =>
    /\ CpuStores' = CpuStores /\ Thread' = Thread /\ Buffers' = Buffers /\ Covered' = Covered
    /\ \A b, k : Owner(b, k)' = Owner(b, k)
<1> SUFFICES ASSUME kernel' = kernel, shape' = shape
             PROVE  /\ CpuStores' = CpuStores /\ Thread' = Thread /\ Buffers' = Buffers
                    /\ Covered' = Covered /\ \A b, k : Owner(b, k)' = Owner(b, k)
  OBVIOUS
<1>1. CpuStores' = CpuStores
  BY DEF CpuStores, CpuConv, CpuHistory, CpuShortConv, CpuCausalConv, CpuRope, CpuDeltaRule,
    WrittenF16, WrittenQ8, CpuScoresOf, CpuAttendedOf, CpuScores, CpuAttended, WordsPerToken, Rotated,
    QDim, KvDim, Taps, Heads, KvHeads, Dim, Half, VDim, Pos
<1>2. Launched' = Launched
  BY DEF Launched, LaunchSiluMul, LaunchSigmoidMul, LaunchSplitQg, LaunchRope, LaunchShortConv,
    LaunchCausalConv1dSilu, LaunchGdnGateDecay, LaunchGdnRecurrence, LaunchKvCacheWrite, LaunchScores,
    LaunchOutput, LaunchAttention, LaunchAttentionQ8, LaunchMatmul, GridX, GridY, OutDim, WordsPerToken,
    QDim, KvDim, Taps, SeqLen, Heads, KvHeads, Dim, Half, VDim, Pos
<1>3. Covered' = Covered
  BY DEF Covered, Rows, OutDim, QDim, KvDim, SeqLen, Heads, KvHeads, Dim, Half, VDim, Pos
<1>4. ASSUME NEW b, NEW k PROVE Owner(b, k)' = Owner(b, k)
  BY DEF Owner, OutDim, QDim, KvDim, SeqLen, Heads, KvHeads, Dim, Half, VDim, Pos
<1> QED
  BY <1>1, <1>2, <1>3, <1>4 DEF Thread, Buffers

(* The owner of a cell is a thread of the launch.                          *)
LEMMA OwnerRuns ==
  ASSUME Placed, NEW w \in CpuStores
  PROVE  Owner(w.buf, w.at) \in Thread
  BY DEF Placed, Thread

(* A launch begins in the invariant: nobody has stored anything.           *)
LEMMA InitKeeps ==
  ASSUME Kernels \subseteq KernelNames, Init, Placed
  PROVE  IInv
<1>1. pc \in [Thread -> {"ready", "loaded", "done"}] /\ \A i \in Thread : pc[i] = "ready"
  BY DEF Init
<1>2. regs = [i \in Thread |-> IF pc[i] = "loaded" THEN Own(i) ELSE {}]
  BY <1>1 DEF Init
<1>3. /\ DOMAIN mem = DOMAIN Buffers
      /\ \A b \in DOMAIN Buffers : DOMAIN mem[b] = 0 .. (Buffers[b] - 1)
      /\ \A b \in DOMAIN Buffers : \A k \in 0 .. (Buffers[b] - 1) : mem[b][k] = In(b, k)
  BY DEF Init
<1>4. ASSUME NEW b, NEW k, NEW w \in CpuStores, Cell(w, b, k)
      PROVE  pc[Owner(b, k)] # "done"
  BY <1>1, <1>4, OwnerRuns DEF Cell
<1>5. MemHolds
  BY <1>3, <1>4 DEF MemHolds
<1>6. LaunchType
  BY <1>1 DEF Init, LaunchType
<1> QED
  BY <1>1, <1>2, <1>3, <1>5, <1>6 DEF IInv, RegsHold, Bound

(* A stuttering step keeps the invariant.                                  *)
LEMMA Stutters ==
  ASSUME IInv, UNCHANGED vars
  PROVE  IInv'
<1>1. kernel' = kernel /\ shape' = shape /\ pc' = pc /\ regs' = regs /\ mem' = mem
  BY DEF vars
<1>2. /\ CpuStores' = CpuStores /\ Thread' = Thread /\ Buffers' = Buffers /\ Covered' = Covered
      /\ \A b, k : Owner(b, k)' = Owner(b, k)
  BY <1>1, LaunchStays
<1>3. \A i : Own(i)' = Own(i)
  BY <1>2 DEF Own
<1>4. \A b, k : Cleared(b, k)' = Cleared(b, k)
  BY <1>1, <1>2 DEF Cleared, Cell
<1> QED
  BY <1>1, <1>2, <1>3, <1>4 DEF IInv, LaunchType, RegsHold, Bound, MemHolds, In, Cell

(* A thread beyond the outputs owns nothing: its end disturbs no cell.     *)
LEMMA TerminateKeeps ==
  ASSUME IInv, Placed, NEW i \in Thread, Terminate(i)
  PROVE  IInv'
<1>1. /\ kernel' = kernel /\ shape' = shape /\ regs' = regs /\ mem' = mem
      /\ pc' = [pc EXCEPT ![i] = "done"] /\ pc[i] = "ready" /\ i >= Covered
  BY DEF Terminate
<1>2. /\ CpuStores' = CpuStores /\ Thread' = Thread /\ Buffers' = Buffers /\ Covered' = Covered
      /\ \A b, k : Owner(b, k)' = Owner(b, k)
  BY <1>1, LaunchStays
<1>3. \A j : Own(j)' = Own(j)
  BY <1>2 DEF Own
<1>4. /\ pc' \in [Thread' -> {"ready", "loaded", "done"}]
      /\ \A j \in Thread : pc'[j] = "loaded" <=> pc[j] = "loaded"
      /\ \A j \in Thread : j # i => pc'[j] = pc[j]
  BY <1>1, <1>2 DEF IInv, LaunchType
<1>5. ASSUME NEW w \in CpuStores
      PROVE  pc'[Owner(w.buf, w.at)] = pc[Owner(w.buf, w.at)]
  <2>1. Owner(w.buf, w.at) \in Thread /\ Owner(w.buf, w.at) # i
    BY <1>1, OwnerRuns DEF Placed
  <2> QED
    BY <2>1, <1>4
<1>6. regs' = [j \in Thread' |-> IF pc'[j] = "loaded" THEN Own(j)' ELSE {}]
  BY <1>1, <1>2, <1>3, <1>4 DEF IInv, RegsHold
<1>7. ASSUME NEW b \in DOMAIN Buffers, NEW k \in 0 .. (Buffers[b] - 1)
      PROVE  /\ Cleared(b, k)' => mem[b][k] = In(b, k)
             /\ \A w \in CpuStores :
                  Cell(w, b, k) /\ pc'[Owner(b, k)] = "done" => mem[b][k] = w.val
  BY <1>2, <1>5 DEF IInv, MemHolds, Cleared, Cell
<1>8. LaunchType'
  BY <1>1, <1>4 DEF IInv, LaunchType
<1>9. RegsHold'
  BY <1>1, <1>2, <1>4, <1>6 DEF IInv, RegsHold
<1>10. Bound'
  BY <1>1, <1>2 DEF IInv, Bound
<1>11. MemHolds'
  BY <1>1, <1>2, <1>7 DEF MemHolds, In, Cell
<1> QED
  BY <1>8, <1>9, <1>10, <1>11 DEF IInv

(* A thread that loads finds its memory fresh, since it has stored nothing *)
(* itself, and so computes its own stores.                                 *)
LEMMA LoadKeeps ==
  ASSUME IInv, Placed, Decodes, NEW i \in Thread, Load(i)
  PROVE  IInv'
<1>1. /\ kernel' = kernel /\ shape' = shape /\ mem' = mem
      /\ pc' = [pc EXCEPT ![i] = "loaded"] /\ pc[i] = "ready" /\ i < Covered
      /\ regs' = [regs EXCEPT ![i] = Stores(i)]
  BY DEF Load
<1>2. /\ CpuStores' = CpuStores /\ Thread' = Thread /\ Buffers' = Buffers /\ Covered' = Covered
      /\ \A b, k : Owner(b, k)' = Owner(b, k)
  BY <1>1, LaunchStays
<1>3. \A j : Own(j)' = Own(j)
  BY <1>2 DEF Own
<1>4. /\ pc' \in [Thread' -> {"ready", "loaded", "done"}]
      /\ \A j \in Thread : pc'[j] = "done" <=> pc[j] = "done"
      /\ \A j \in Thread : pc'[j] = IF j = i THEN "loaded" ELSE pc[j]
  BY <1>1, <1>2 DEF IInv, LaunchType
<1>5. Fresh(i)
  <2> SUFFICES ASSUME NEW b \in DOMAIN Buffers, NEW k \in 0 .. (Buffers[b] - 1),
                      \A w \in CpuStores : Cell(w, b, k) => Owner(b, k) = i
               PROVE  mem[b][k] = In(b, k)
    BY DEF Fresh, At
  <2>1. Cleared(b, k)
    BY <1>1 DEF Cleared
  <2> QED
    BY <2>1 DEF IInv, MemHolds
<1>6. Stores(i) = Own(i)
  <2>1. i \in 0 .. (Covered - 1)
    BY <1>1 DEF Placed, Thread
  <2> QED
    BY <2>1, <1>5 DEF Decodes
<1>7. regs' = [j \in Thread' |-> IF pc'[j] = "loaded" THEN Own(j)' ELSE {}]
  BY <1>1, <1>2, <1>3, <1>4, <1>6 DEF IInv, RegsHold
<1>8. ASSUME NEW w \in CpuStores
      PROVE  pc'[Owner(w.buf, w.at)] = "done" <=> pc[Owner(w.buf, w.at)] = "done"
  BY <1>4, OwnerRuns
<1>9. ASSUME NEW b \in DOMAIN Buffers, NEW k \in 0 .. (Buffers[b] - 1)
      PROVE  /\ Cleared(b, k)' => mem[b][k] = In(b, k)
             /\ \A w \in CpuStores :
                  Cell(w, b, k) /\ pc'[Owner(b, k)] = "done" => mem[b][k] = w.val
  BY <1>2, <1>8 DEF IInv, MemHolds, Cleared, Cell
<1>10. \A j \in Thread' : pc'[j] = "loaded" => j < Covered'
  BY <1>1, <1>2, <1>4 DEF IInv, RegsHold
<1>11. LaunchType'
  BY <1>1, <1>4 DEF IInv, LaunchType
<1>12. RegsHold'
  BY <1>7, <1>10 DEF RegsHold
<1>13. Bound'
  BY <1>1, <1>2 DEF IInv, Bound
<1>14. MemHolds'
  BY <1>1, <1>2, <1>9 DEF MemHolds, In, Cell
<1> QED
  BY <1>11, <1>12, <1>13, <1>14 DEF IInv

(* A thread that stores settles exactly the cells it owns.                 *)
LEMMA StoreKeeps ==
  ASSUME IInv, Placed, Functional, NEW i \in Thread, Store(i)
  PROVE  IInv'
<1>1. /\ kernel' = kernel /\ shape' = shape /\ pc[i] = "loaded"
      /\ pc' = [pc EXCEPT ![i] = "done"]
      /\ regs' = [regs EXCEPT ![i] = {}]
      /\ mem' = [b \in DOMAIN mem |-> [j \in DOMAIN mem[b] |->
                   IF \E w \in regs[i] : w.buf = b /\ w.at = j
                   THEN (CHOOSE w \in regs[i] : w.buf = b /\ w.at = j).val
                   ELSE mem[b][j]]]
  BY DEF Store
<1>2. /\ CpuStores' = CpuStores /\ Thread' = Thread /\ Buffers' = Buffers /\ Covered' = Covered
      /\ \A b, k : Owner(b, k)' = Owner(b, k)
  BY <1>1, LaunchStays
<1>3. \A j : Own(j)' = Own(j)
  BY <1>2 DEF Own
<1>4. /\ pc' \in [Thread' -> {"ready", "loaded", "done"}]
      /\ \A j \in Thread : pc'[j] = IF j = i THEN "done" ELSE pc[j]
  BY <1>1, <1>2 DEF IInv, LaunchType
<1>5. regs[i] = Own(i)
  BY <1>1 DEF IInv, RegsHold
<1>6. regs' = [j \in Thread' |-> IF pc'[j] = "loaded" THEN Own(j)' ELSE {}]
  BY <1>1, <1>2, <1>3, <1>4 DEF IInv, RegsHold
<1>7. /\ DOMAIN mem' = DOMAIN Buffers
      /\ \A b \in DOMAIN Buffers : DOMAIN mem'[b] = 0 .. (Buffers[b] - 1)
  BY <1>1 DEF IInv, Bound
<1>8. ASSUME NEW b \in DOMAIN Buffers, NEW k \in 0 .. (Buffers[b] - 1)
      PROVE  /\ Cleared(b, k)' => mem'[b][k] = In(b, k)
             /\ \A w \in CpuStores :
                  Cell(w, b, k) /\ pc'[Owner(b, k)] = "done" => mem'[b][k] = w.val
  <2>1. mem'[b][k] = IF \E w \in Own(i) : Cell(w, b, k)
                     THEN (CHOOSE w \in Own(i) : Cell(w, b, k)).val ELSE mem[b][k]
    BY <1>1, <1>5 DEF IInv, Bound, Cell
  <2>2. CASE \E w \in Own(i) : Cell(w, b, k)
    <3> DEFINE v == CHOOSE w \in Own(i) : Cell(w, b, k)
    <3>1. v \in Own(i) /\ Cell(v, b, k)
      BY <2>2
    <3>2. v \in CpuStores /\ Owner(b, k) = i
      BY <3>1 DEF Own, Cell
    <3>3. mem'[b][k] = v.val
      BY <2>1, <2>2
    <3>4. ASSUME NEW w \in CpuStores, Cell(w, b, k)
          PROVE  w.val = v.val
      BY <3>1, <3>2, <3>4 DEF Functional, Cell
    <3>5. ~Cleared(b, k)'
      BY <1>2, <1>4, <3>1, <3>2 DEF Cleared, Cell
    <3> QED
      BY <3>3, <3>4, <3>5
  <2>3. CASE ~\E w \in Own(i) : Cell(w, b, k)
    <3>1. mem'[b][k] = mem[b][k]
      BY <2>1, <2>3
    <3>2. ASSUME NEW w \in CpuStores, Cell(w, b, k)
          PROVE  pc'[Owner(b, k)] = pc[Owner(b, k)]
      <4>1. Owner(b, k) # i
        BY <2>3, <3>2 DEF Own, Cell
      <4>2. Owner(b, k) \in Thread
        BY <3>2, OwnerRuns DEF Cell
      <4> QED
        BY <1>4, <4>1, <4>2
    <3>3. Cleared(b, k)' => Cleared(b, k)
      BY <1>2, <3>2 DEF Cleared, Cell
    <3> QED
      BY <3>1, <3>2, <3>3 DEF IInv, MemHolds
  <2> QED
    BY <2>2, <2>3
<1>9. \A j \in Thread' : pc'[j] = "loaded" => j < Covered'
  BY <1>1, <1>2, <1>4 DEF IInv, RegsHold
<1>10. LaunchType'
  BY <1>1, <1>4 DEF IInv, LaunchType
<1>11. RegsHold'
  BY <1>6, <1>9 DEF RegsHold
<1>12. Bound'
  BY <1>2, <1>7 DEF Bound
<1>13. MemHolds'
  BY <1>2, <1>8 DEF MemHolds, In, Cell
<1> QED
  BY <1>10, <1>11, <1>12, <1>13 DEF IInv

(* When all threads are done, every cell the CPU path stores to is settled *)
(* and every other one untouched.                                          *)
LEMMA IInvIsExact ==
  ASSUME IInv, Placed, Functional
  PROVE  LaunchExact
<1>1. InBounds
  <2> SUFFICES ASSUME NEW i \in Thread, NEW w \in regs[i]
               PROVE  w.buf \in DOMAIN mem /\ w.at \in DOMAIN mem[w.buf]
    BY DEF InBounds
  <2>1. w \in CpuStores
    BY DEF IInv, RegsHold, Own
  <2> QED
    BY <2>1 DEF Placed, IInv, Bound
<1>2. ASSUME \A i \in Thread : pc[i] = "done",
             NEW b \in DOMAIN Buffers, NEW j \in 0 .. (Buffers[b] - 1)
      PROVE  LET stores == {w \in CpuStores : w.buf = b /\ w.at = j}
             IN IF stores = {} THEN mem[b][j] = In(b, j) ELSE {w.val : w \in stores} = {mem[b][j]}
  <2> DEFINE stores == {w \in CpuStores : w.buf = b /\ w.at = j}
  <2>1. ASSUME stores = {} PROVE mem[b][j] = In(b, j)
    BY <2>1 DEF IInv, MemHolds, Cleared, Cell
  <2>2. ASSUME NEW w \in stores PROVE w.val = mem[b][j]
    <3>1. w \in CpuStores /\ Cell(w, b, j) /\ Owner(b, j) \in Thread
      BY <2>2, OwnerRuns DEF Cell
    <3> QED
      BY <1>2, <3>1 DEF IInv, MemHolds
  <2>3. ASSUME stores # {} PROVE {w.val : w \in stores} = {mem[b][j]}
    BY <2>2, <2>3
  <2> QED
    BY <2>1, <2>3
<1> QED
  BY <1>1, <1>2 DEF LaunchExact

-----------------------------------------------------------------------------
(* The dimensions.                                                         *)

(* The constants of the kernels.                                           *)
LEMMA Sizes ==
  /\ CubeDim \in Nat \ {0} /\ MaxGrid \in Nat \ {0} /\ MaxSeq \in Nat \ {0}
  /\ KvBlock \in Nat \ {0} /\ Pack \in Nat \ {0} /\ Batch \in Nat \ {0}
  /\ KvBlock % Pack = 0
  BY SizesAssumption

(* The dimensions of a shape and the products of them that lay out the     *)
(* arrays.                                                                 *)
LEMMA Dims ==
  ASSUME shape \in Shapes
  PROVE  /\ Heads \in Nat \ {0} /\ KvHeads \in Nat \ {0} /\ Heads % KvHeads = 0
         /\ Dim \in Nat \ {0} /\ Half \in Nat \ {0} /\ 2 * Half <= Dim
         /\ Pos \in Nat /\ Pos < MaxSeq /\ SeqLen \in Nat \ {0} /\ SeqLen = Pos + 1
         /\ Taps \in Nat \ {0} /\ VDim \in Nat \ {0}
         /\ QDim \in Nat \ {0} /\ QDim = Heads * Dim /\ KvDim \in Nat \ {0} /\ KvDim = KvHeads * Dim
<1>1. /\ shape \in ShapeType
      /\ shape.kv_heads > 0 /\ shape.heads > 0 /\ shape.heads % shape.kv_heads = 0
      /\ shape.head_dim > 0
      /\ shape.n_rot % 2 = 0 /\ shape.n_rot > 0 /\ shape.n_rot <= shape.head_dim
      /\ shape.taps > 0 /\ shape.v_dim > 0 /\ shape.pos < MaxSeq
  BY ShapesAssumption
<1>2. /\ Heads \in Nat \ {0} /\ KvHeads \in Nat \ {0} /\ Heads % KvHeads = 0
      /\ Dim \in Nat \ {0} /\ Pos \in Nat /\ Pos < MaxSeq /\ Taps \in Nat \ {0} /\ VDim \in Nat \ {0}
  BY <1>1 DEF ShapeType, Heads, KvHeads, Dim, Pos, Taps, VDim
<1>3. Half \in Nat \ {0} /\ 2 * Half <= Dim
  BY <1>1 DEF ShapeType, Half, Dim
<1>4. \A a, b \in Nat \ {0} : a * b \in Nat \ {0}
  OBVIOUS
<1> QED
  BY <1>2, <1>3, <1>4 DEF QDim, KvDim, SeqLen

(* A division that rounds up covers what it divides.                       *)
LEMMA Rounded ==
  ASSUME NEW n \in Nat, NEW d \in Nat \ {0}
  PROVE  DivCeil(n, d) \in Nat /\ n <= DivCeil(n, d) * d
<1> DEFINE m == n + d - 1
<1>1. m \in Nat /\ DivCeil(n, d) = m \div d
  BY DEF DivCeil
<1>2. m \div d \in Nat /\ m % d \in 0 .. (d - 1) /\ m = (m \div d) * d + (m % d)
  BY <1>1, Division
<1>3. (m \div d) * d \in Nat
  BY <1>2, Product
<1> QED
  BY <1>1, <1>2, <1>3

(* Whole workgroups cover the outputs.                                     *)
LEMMA GroupsCover ==
  ASSUME NEW n \in Nat
  PROVE  GroupsFor(n) \in Nat /\ n <= GroupsFor(n)
  BY Sizes, Rounded, Product DEF GroupsFor

(* The fields of a store.                                                  *)
LEMMA StoreFields ==
  \A b, i, v : W(b, i, v).buf = b /\ W(b, i, v).at = i /\ W(b, i, v).val = v
  BY DEF W

-----------------------------------------------------------------------------
(* The kernels, one by one.                                                *)

(* silu_mul: one output per thread.                                        *)
LEMMA SiluMulSound ==
  ASSUME shape \in Shapes, kernel = "silu_mul"
  PROVE  Sound
<1>1. Covered = QDim
  BY DEF Covered
<1>2. Launched = Launch([gate |-> QDim, up |-> QDim, out |-> QDim], GroupsFor(QDim))
  BY DEF Launched, LaunchSiluMul
<1>3. CpuStores = {W("out", r, Gated(In("up", r), "silu", In("gate", r))) : r \in 0 .. (QDim - 1)}
  BY DEF CpuStores
<1>4. \A b, k : Owner(b, k) = k
  BY DEF Owner
<1>5. \A i : Stores(i) = SiluMul(i)
  BY DEF Stores
<1>6. Placed
  BY <1>1, <1>2, <1>3, <1>4, Dims, GroupsCover, StoreFields DEF Placed, Launch, Buffers
<1>7. Functional
  BY <1>3, StoreFields DEF Functional, Cell
<1>8. Decodes
  <2> SUFFICES ASSUME NEW i \in 0 .. (QDim - 1), Fresh(i)
               PROVE  SiluMul(i) = Own(i)
    BY <1>1, <1>5 DEF Decodes
  <2>1. At("up", i) = In("up", i) /\ At("gate", i) = In("gate", i)
    BY <1>2, <1>3, StoreFields DEF Fresh, Buffers, Launch, Cell
  <2>2. Own(i) = {W("out", i, Gated(In("up", i), "silu", In("gate", i)))}
    BY <1>3, <1>4, StoreFields DEF Own
  <2> QED
    BY <2>1, <2>2 DEF SiluMul
<1> QED
  BY <1>6, <1>7, <1>8 DEF Sound

(* sigmoid_mul: the same with its own inputs.                              *)
LEMMA SigmoidMulSound ==
  ASSUME shape \in Shapes, kernel = "sigmoid_mul"
  PROVE  Sound
<1>1. Covered = QDim
  BY DEF Covered
<1>2. Launched = Launch([attn |-> QDim, gate |-> QDim, out |-> QDim], GroupsFor(QDim))
  BY DEF Launched, LaunchSigmoidMul
<1>3. CpuStores = {W("out", r, Gated(In("attn", r), "sigmoid", In("gate", r))) : r \in 0 .. (QDim - 1)}
  BY DEF CpuStores
<1>4. \A b, k : Owner(b, k) = k
  BY DEF Owner
<1>5. \A i : Stores(i) = SigmoidMul(i)
  BY DEF Stores
<1>6. Placed
  BY <1>1, <1>2, <1>3, <1>4, Dims, GroupsCover, StoreFields DEF Placed, Launch, Buffers
<1>7. Functional
  BY <1>3, StoreFields DEF Functional, Cell
<1>8. Decodes
  <2> SUFFICES ASSUME NEW i \in 0 .. (QDim - 1), Fresh(i)
               PROVE  SigmoidMul(i) = Own(i)
    BY <1>1, <1>5 DEF Decodes
  <2>1. At("attn", i) = In("attn", i) /\ At("gate", i) = In("gate", i)
    BY <1>2, <1>3, StoreFields DEF Fresh, Buffers, Launch, Cell
  <2>2. Own(i) = {W("out", i, Gated(In("attn", i), "sigmoid", In("gate", i)))}
    BY <1>3, <1>4, StoreFields DEF Own
  <2> QED
    BY <2>1, <2>2 DEF SigmoidMul
<1> QED
  BY <1>6, <1>7, <1>8 DEF Sound

(* gdn_gate_decay: overwrites the two values of a head that it reads.      *)
LEMMA GdnGateDecaySound ==
  ASSUME shape \in Shapes, kernel = "gdn_gate_decay"
  PROVE  Sound
<1> DEFINE beta(h)  == W("beta", h, Sigmoid(In("beta", h)))
           alpha(h) == W("alpha", h, DecayOf(In("ssm_a", h), In("alpha", h), In("dt_bias", h)))
<1>1. Covered = Heads
  BY DEF Covered
<1>2. Launched = Launch([beta |-> Heads, alpha |-> Heads, ssm_a |-> Heads, dt_bias |-> Heads],
                        GroupsFor(Heads))
  BY DEF Launched, LaunchGdnGateDecay
<1>3. CpuStores = UNION {{beta(h), alpha(h)} : h \in 0 .. (Heads - 1)}
  BY DEF CpuStores
<1>4. \A b, k : Owner(b, k) = k
  BY DEF Owner
<1>5. \A i : Stores(i) = GdnGateDecay(i)
  BY DEF Stores
<1>6. \A w \in CpuStores : w.at \in 0 .. (Heads - 1) /\ w \in {beta(w.at), alpha(w.at)}
  BY <1>3, StoreFields
<1>7. Placed
  BY <1>1, <1>2, <1>4, <1>6, Dims, GroupsCover, StoreFields DEF Placed, Launch, Buffers
<1>8. Functional
  BY <1>6, StoreFields DEF Functional, Cell
<1>9. Decodes
  <2> SUFFICES ASSUME NEW i \in 0 .. (Heads - 1), Fresh(i)
               PROVE  GdnGateDecay(i) = Own(i)
    BY <1>1, <1>5 DEF Decodes
  <2>1. \A b \in {"beta", "alpha", "ssm_a", "dt_bias"} : At(b, i) = In(b, i)
    BY <1>2, <1>4 DEF Fresh, Buffers, Launch
  <2>2. Own(i) = {beta(i), alpha(i)}
    BY <1>3, <1>4, <1>6, StoreFields DEF Own
  <2> QED
    BY <2>1, <2>2 DEF GdnGateDecay
<1> QED
  BY <1>7, <1>8, <1>9 DEF Sound

(* kv_cache_write: the slot of position Pos and no other.                  *)
LEMMA KvCacheWriteSound ==
  ASSUME shape \in Shapes, kernel = "kv_cache_write"
  PROVE  Sound
<1> DEFINE base == Pos * KvDim
           k_slot(e) == W("k_cache", base + e, In("new_k", e))
           v_slot(e) == W("v_cache", base + e, In("new_v", e))
<1>1. Covered = KvDim
  BY DEF Covered
<1>2. Launched = Launch([new_k |-> KvDim, new_v |-> KvDim, k_cache |-> base + KvDim,
                         v_cache |-> base + KvDim], GroupsFor(KvDim))
  BY DEF Launched, LaunchKvCacheWrite
<1>3. CpuStores = UNION {{k_slot(e), v_slot(e)} : e \in 0 .. (KvDim - 1)}
  BY DEF CpuStores
<1>4. \A b, k : Owner(b, k) = k - base
  BY DEF Owner
<1>5. \A i : Stores(i) = KvCacheWrite(i)
  BY DEF Stores
<1>6. base \in Nat /\ KvDim \in Nat \ {0}
  BY Dims, Product
<1> HIDE DEF base
<1>7. \A w \in CpuStores : \E e \in 0 .. (KvDim - 1) : w \in {k_slot(e), v_slot(e)} /\ w.at = base + e
  BY <1>3, StoreFields
<1>8. Placed
  BY <1>1, <1>2, <1>4, <1>6, <1>7, GroupsCover, StoreFields DEF Placed, Launch, Buffers
<1>9. Functional
  BY <1>6, <1>7, StoreFields DEF Functional, Cell
<1>10. Decodes
  <2> SUFFICES ASSUME NEW i \in 0 .. (KvDim - 1), Fresh(i)
               PROVE  KvCacheWrite(i) = Own(i)
    BY <1>1, <1>5 DEF Decodes
  <2>1. \A b \in {"new_k", "new_v"} : At(b, i) = In(b, i)
    BY <1>2, <1>7, StoreFields DEF Fresh, Buffers, Launch, Cell
  <2>2. Own(i) = {k_slot(i), v_slot(i)}
    <3>1. k_slot(i) \in Own(i) /\ v_slot(i) \in Own(i)
      BY <1>3, <1>4, <1>6, StoreFields DEF Own
    <3>2. \A w \in Own(i) : w \in {k_slot(i), v_slot(i)}
      BY <1>4, <1>6, <1>7 DEF Own
    <3> QED
      BY <3>1, <3>2
  <2> QED
    BY <2>1, <2>2 DEF KvCacheWrite, base
<1> QED
  BY <1>8, <1>9, <1>10 DEF Sound

(* A kernel is sound when the stores of the CPU path are those of its      *)
(* threads, each with the cells it owns.                                   *)
LEMMA Family ==
  ASSUME NEW F,
         Launched.threads \in Nat, Covered \in Nat, Covered <= Launched.threads,
         \A w : w \in CpuStores <=> \E i \in 0 .. (Covered - 1) : w \in F[i],
         \A i \in 0 .. (Covered - 1) : \A w \in F[i] :
           /\ Owner(w.buf, w.at) = i
           /\ w.buf \in DOMAIN Buffers /\ w.at \in 0 .. (Buffers[w.buf] - 1),
         \A i \in 0 .. (Covered - 1) : \A w, v \in F[i] : Cell(w, v.buf, v.at) => w = v,
         \A i \in 0 .. (Covered - 1) : Fresh(i) => Stores(i) = F[i]
  PROVE  Sound
<1>1. Placed
  BY DEF Placed
<1>2. Functional
  BY DEF Functional, Cell
<1>3. \A i \in 0 .. (Covered - 1) : Own(i) = F[i]
  BY DEF Own
<1> QED
  BY <1>1, <1>2, <1>3 DEF Sound, Decodes

(* Nobody stores into an array that is only read.                          *)
LEMMA ReadOnly ==
  ASSUME NEW i, Fresh(i), NEW b, NEW n, b \in DOMAIN Buffers, Buffers[b] = n,
         \A w \in CpuStores : w.buf # b
  PROVE  \A k \in 0 .. (n - 1) : At(b, k) = In(b, k)
  BY DEF Fresh, Cell

(* split_qg: the flat index is divided into a head and a dimension of the  *)
(* interleaved rows.                                                       *)
LEMMA SplitQgSound ==
  ASSUME shape \in Shapes, kernel = "split_qg"
  PROVE  Sound
<1> DEFINE both(h, d) == {W("q", h * Dim + d, In("qg_raw", 2 * h * Dim + d)),
                          W("gate", h * Dim + d, In("qg_raw", 2 * h * Dim + Dim + d))}
           F == [i \in 0 .. (Heads * Dim - 1) |-> both(i \div Dim, i % Dim)]
<1>1. Covered = Heads * Dim
  BY DEF Covered, QDim
<1>2. Buffers = [qg_raw |-> 2 * QDim, q |-> QDim, gate |-> QDim]
      /\ Launched.threads = GroupsFor(QDim)
  BY DEF Launched, LaunchSplitQg, Launch, Buffers
<1>3. CpuStores = UNION {both(h, d) : h \in 0 .. (Heads - 1), d \in 0 .. (Dim - 1)}
  BY DEF CpuStores
<1>4. \A h, d : \A w \in both(h, d) : w.buf \in {"q", "gate"} /\ w.at = h * Dim + d
  BY StoreFields
<1>5. \A h, d : \A w, v \in both(h, d) : w.buf = v.buf => w = v
  BY StoreFields
<1> HIDE DEF both
<1>6. \A w : w \in CpuStores <=> \E h \in 0 .. (Heads - 1), d \in 0 .. (Dim - 1) : w \in both(h, d)
  BY <1>3
<1>7. \A b, k : Owner(b, k) = k
  BY DEF Owner
<1>8. Heads \in Nat /\ Dim \in Nat \ {0} /\ QDim \in Nat /\ QDim = Heads * Dim
  BY Dims
<1>9. \A i \in 0 .. (Heads * Dim - 1) :
        /\ i \div Dim \in 0 .. (Heads - 1) /\ i % Dim \in 0 .. (Dim - 1)
        /\ (i \div Dim) * Dim + (i % Dim) = i
  BY <1>8, Grid
<1>10. \A h \in 0 .. (Heads - 1), d \in 0 .. (Dim - 1) :
         \E i \in 0 .. (Heads * Dim - 1) : i \div Dim = h /\ i % Dim = d /\ i = h * Dim + d
  BY <1>8, Grid
<1>11. \A w : w \in CpuStores <=> \E i \in 0 .. (Heads * Dim - 1) : w \in F[i]
  <2>1. ASSUME NEW w \in CpuStores PROVE \E i \in 0 .. (Heads * Dim - 1) : w \in F[i]
    <3>1. PICK h \in 0 .. (Heads - 1), d \in 0 .. (Dim - 1) : w \in both(h, d)
      BY <1>6
    <3>2. PICK i \in 0 .. (Heads * Dim - 1) : i \div Dim = h /\ i % Dim = d
      BY <1>10
    <3> QED
      BY <3>1, <3>2
  <2>2. ASSUME NEW i \in 0 .. (Heads * Dim - 1), NEW w \in F[i] PROVE w \in CpuStores
    BY <1>6, <1>9
  <2> QED
    BY <2>1, <2>2
<1>12. \A i \in 0 .. (Heads * Dim - 1) : \A w \in F[i] :
         Owner(w.buf, w.at) = i /\ w.buf \in {"q", "gate"} /\ w.at = i
  BY <1>4, <1>7, <1>9
<1>13. ASSUME NEW i \in 0 .. (Heads * Dim - 1), Fresh(i)
       PROVE  Stores(i) = F[i]
  <2> DEFINE h == i \div Dim
             d == i % Dim
  <2>1. h \in 0 .. (Heads - 1) /\ d \in 0 .. (Dim - 1) /\ h * Dim + d = i
    BY <1>9
  <2>2. Stores(i) = {W("q", i, At("qg_raw", h * 2 * Dim + d)),
                     W("gate", i, At("qg_raw", h * 2 * Dim + Dim + d))}
    BY DEF Stores, SplitQg
  <2> HIDE DEF h, d
  <2>3. /\ h * 2 * Dim + d = 2 * h * Dim + d /\ h * 2 * Dim + Dim + d = 2 * h * Dim + Dim + d
        /\ 2 * h * Dim + d \in 0 .. (2 * QDim - 1) /\ 2 * h * Dim + Dim + d \in 0 .. (2 * QDim - 1)
    <3>1. /\ 2 * h * Dim + d = 2 * (h * Dim) + d /\ 2 * h * Dim + Dim + d = 2 * (h * Dim) + Dim + d
          /\ h * 2 * Dim + d = 2 * (h * Dim) + d /\ h * 2 * Dim + Dim + d = 2 * (h * Dim) + Dim + d
      BY <2>1, <1>8
    <3>2. (h + 1) * Dim <= QDim /\ (h + 1) * Dim = h * Dim + Dim /\ h * Dim \in Nat
      BY <2>1, <1>8, Monotone, Product
    <3>3. \A row, all, dim, e \in Nat : row + dim <= all /\ e < dim =>
            2 * row + e \in 0 .. (2 * all - 1) /\ 2 * row + dim + e \in 0 .. (2 * all - 1)
      OBVIOUS
    <3>4. 2 * (h * Dim) + d \in 0 .. (2 * QDim - 1) /\ 2 * (h * Dim) + Dim + d \in 0 .. (2 * QDim - 1)
      BY <2>1, <3>2, <3>3, <1>8
    <3> QED
      BY <3>1, <3>4, Zenon
  <2>4. \A k \in 0 .. (2 * QDim - 1) : At("qg_raw", k) = In("qg_raw", k)
    <3>1. "qg_raw" \in DOMAIN Buffers /\ Buffers["qg_raw"] = 2 * QDim
      BY <1>2
    <3>2. \A w \in CpuStores : w.buf # "qg_raw"
      BY <1>4, <1>6
    <3> QED
      BY <1>13, <3>1, <3>2, ReadOnly
  <2>5. F[i] = both(h, d)
    BY DEF h, d
  <2>6. /\ At("qg_raw", h * 2 * Dim + d) = In("qg_raw", 2 * h * Dim + d)
        /\ At("qg_raw", h * 2 * Dim + Dim + d) = In("qg_raw", 2 * h * Dim + Dim + d)
    BY <2>3, <2>4
  <2> QED
    BY <2>1, <2>2, <2>5, <2>6, Zenon DEF both
<1>14. \A i \in 0 .. (Heads * Dim - 1) : \A w, v \in F[i] : Cell(w, v.buf, v.at) => w = v
  BY <1>5 DEF Cell
<1> HIDE DEF F
<1> QED
  BY <1>1, <1>2, <1>8, <1>11, <1>12, <1>13, <1>14, GroupsCover, Family

(* rope: rotates its pair in place; the pairs of two threads are disjoint, *)
(* and the dimensions beyond n_rot stay as they are.                       *)
LEMMA RopeSound ==
  ASSUME shape \in Shapes, kernel = "rope"
  PROVE  Sound
<1> DEFINE low(h, d)  == h * Dim + d
           high(h, d) == h * Dim + d + Half
           x0(h, d)   == In("x", low(h, d))
           x1(h, d)   == In("x", high(h, d))
           pair(h, d) == {W("x", low(h, d), Rotated(x0(h, d), x1(h, d), d, "low")),
                          W("x", high(h, d), Rotated(x0(h, d), x1(h, d), d, "high"))}
           F == [i \in 0 .. (Heads * Half - 1) |-> pair(i \div Half, i % Half)]
<1>1. Covered = Heads * Half
  BY DEF Covered
<1>2. Buffers = [x |-> QDim] /\ Launched.threads = GroupsFor(Heads * Half)
  BY DEF Launched, LaunchRope, Launch, Buffers
<1>3. CpuStores = UNION {pair(h, d) : h \in 0 .. (Heads - 1), d \in 0 .. (Half - 1)}
  BY DEF CpuStores, CpuRope
<1>4. /\ Heads \in Nat /\ Dim \in Nat \ {0} /\ Half \in Nat \ {0} /\ 2 * Half <= Dim
      /\ QDim \in Nat /\ QDim = Heads * Dim /\ Heads * Half \in Nat
  BY Dims, Product
<1>5. \A i \in 0 .. (Heads * Half - 1) :
        /\ i \div Half \in 0 .. (Heads - 1) /\ i % Half \in 0 .. (Half - 1)
        /\ (i \div Half) * Half + (i % Half) = i
  BY <1>4, Grid
<1>6. \A h \in 0 .. (Heads - 1), d \in 0 .. (Half - 1) :
        \E i \in 0 .. (Heads * Half - 1) : i \div Half = h /\ i % Half = d /\ i = h * Half + d
  BY <1>4, Grid
<1>7. ASSUME NEW h \in 0 .. (Heads - 1), NEW d \in 0 .. (Half - 1)
      PROVE  /\ low(h, d) \in 0 .. (QDim - 1) /\ high(h, d) \in 0 .. (QDim - 1)
             /\ low(h, d) # high(h, d)
             /\ \A b : Owner(b, low(h, d)) = h * Half + d /\ Owner(b, high(h, d)) = h * Half + d
  <2>1. d \in 0 .. (Dim - 1) /\ d + Half \in 0 .. (Dim - 1)
    BY <1>4
  <2>2. h * Dim + d \in 0 .. (QDim - 1) /\ h * Dim + (d + Half) \in 0 .. (QDim - 1)
    BY <2>1, <1>4, FlatInRange
  <2>3. /\ (h * Dim + d) \div Dim = h /\ (h * Dim + d) % Dim = d
        /\ (h * Dim + (d + Half)) \div Dim = h /\ (h * Dim + (d + Half)) % Dim = d + Half
    BY <2>1, <1>4, DivisionIsUnique
  <2>4. d % Half = d /\ (d + Half) % Half = d
    BY <1>4
  <2>5. h * Dim + (d + Half) = h * Dim + d + Half
    BY <1>4
  <2>6. \A b, k : Owner(b, k) = (k \div Dim) * Half + ((k % Dim) % Half)
    BY DEF Owner
  <2>7. low(h, d) # high(h, d)
    BY <1>4, <2>2
  <2> QED
    BY <2>2, <2>3, <2>4, <2>5, <2>6, <2>7
<1> HIDE DEF low, high
<1>8. \A h, d : \A w \in pair(h, d) : w.buf = "x" /\ w.at \in {low(h, d), high(h, d)}
  BY StoreFields
<1>9. \A h \in 0 .. (Heads - 1), d \in 0 .. (Half - 1) :
        \A w, v \in pair(h, d) : w.at = v.at => w = v
  BY <1>7, StoreFields
<1>10. ASSUME NEW i \in 0 .. (Heads * Half - 1), Fresh(i)
       PROVE  Stores(i) = F[i]
  <2> DEFINE h == i \div Half
             d == i % Half
  <2>1. h \in 0 .. (Heads - 1) /\ d \in 0 .. (Half - 1) /\ h * Half + d = i
    BY <1>5
  <2>2. Stores(i) = {W("x", h * Dim + d, Rotated(At("x", h * Dim + d), At("x", h * Dim + d + Half), d, "low")),
                     W("x", h * Dim + d + Half,
                       Rotated(At("x", h * Dim + d), At("x", h * Dim + d + Half), d, "high"))}
    BY DEF Stores, Rope
  <2> HIDE DEF h, d
  <2>3. At("x", low(h, d)) = x0(h, d) /\ At("x", high(h, d)) = x1(h, d)
    <3>1. "x" \in DOMAIN Buffers /\ Buffers["x"] = QDim
      BY <1>2
    <3>2. Owner("x", low(h, d)) = i /\ Owner("x", high(h, d)) = i
      BY <1>7, <2>1
    <3> QED
      BY <1>7, <1>10, <2>1, <3>1, <3>2 DEF Fresh
  <2>4. F[i] = pair(h, d)
    BY DEF h, d
  <2>5. Stores(i) = {W("x", low(h, d), Rotated(At("x", low(h, d)), At("x", high(h, d)), d, "low")),
                     W("x", high(h, d), Rotated(At("x", low(h, d)), At("x", high(h, d)), d, "high"))}
    BY <2>2 DEF low, high
  <2> QED
    BY <2>3, <2>4, <2>5
<1> HIDE DEF pair
<1>11. \A w : w \in CpuStores <=> \E h \in 0 .. (Heads - 1), d \in 0 .. (Half - 1) : w \in pair(h, d)
  BY <1>3
<1>12. \A w : w \in CpuStores <=> \E i \in 0 .. (Heads * Half - 1) : w \in F[i]
  <2>1. ASSUME NEW w \in CpuStores PROVE \E i \in 0 .. (Heads * Half - 1) : w \in F[i]
    <3>1. PICK h \in 0 .. (Heads - 1), d \in 0 .. (Half - 1) : w \in pair(h, d)
      BY <1>11
    <3>2. PICK i \in 0 .. (Heads * Half - 1) : i \div Half = h /\ i % Half = d
      BY <1>6
    <3> QED
      BY <3>1, <3>2
  <2>2. ASSUME NEW i \in 0 .. (Heads * Half - 1), NEW w \in F[i] PROVE w \in CpuStores
    BY <1>11, <1>5
  <2> QED
    BY <2>1, <2>2
<1>13. ASSUME NEW i \in 0 .. (Heads * Half - 1), NEW w \in F[i]
       PROVE  Owner(w.buf, w.at) = i /\ w.buf = "x" /\ w.at \in 0 .. (QDim - 1)
  <2>1. i \div Half \in 0 .. (Heads - 1) /\ i % Half \in 0 .. (Half - 1)
        /\ (i \div Half) * Half + (i % Half) = i
    BY <1>5
  <2>2. w.buf = "x" /\ w.at \in {low(i \div Half, i % Half), high(i \div Half, i % Half)}
    BY <1>8
  <2> QED
    BY <2>1, <2>2, <1>7
<1>14. \A i \in 0 .. (Heads * Half - 1) : \A w, v \in F[i] : Cell(w, v.buf, v.at) => w = v
  BY <1>5, <1>9 DEF Cell
<1> HIDE DEF F
<1> QED
  BY <1>1, <1>2, <1>4, <1>10, <1>12, <1>13, <1>14, GroupsCover, Family

(* matmul: the two-dimensional grid counts the rows without a gap, and the *)
(* rows beyond the last end at once.                                       *)
LEMMA MatmulSound ==
  ASSUME shape \in Shapes, kernel = "matmul"
  PROVE  Sound
<1> DEFINE cell(r, t) == W("out", t * QDim + r, <<"row", r, t>>)
           F == [i \in 0 .. (QDim - 1) |-> {cell(i, t) : t \in 0 .. (Batch - 1)}]
<1>1. Covered = QDim
  BY DEF Covered, Rows, OutDim
<1>2. Buffers = [out |-> Batch * QDim] /\ Launched.threads = GridX * GridY
  BY DEF Launched, LaunchMatmul, Launch, Buffers, OutDim
<1>3. CpuStores = {cell(r, t) : r \in 0 .. (QDim - 1), t \in 0 .. (Batch - 1)}
  BY DEF CpuStores
<1>4. QDim \in Nat \ {0} /\ Batch \in Nat \ {0} /\ MaxGrid \in Nat \ {0}
  BY Dims, Sizes
<1>5. \A b, k : Owner(b, k) = k % QDim
  BY DEF Owner, OutDim
<1>6. GridX \in Nat \ {0} /\ GridY \in Nat /\ GridX * GridY \in Nat /\ QDim <= GridX * GridY
  <2>1. GridX \in Nat \ {0}
    BY <1>4 DEF GridX, OutDim
  <2>2. GridY \in Nat /\ QDim <= GridY * GridX
    BY <2>1, <1>4, Rounded DEF GridY, OutDim
  <2>3. GridY * GridX = GridX * GridY /\ GridY * GridX \in Nat
    BY <2>1, <2>2, Product
  <2> QED
    BY <2>1, <2>2, <2>3
<1>7. \A r, t : cell(r, t).buf = "out" /\ cell(r, t).at = t * QDim + r
  BY StoreFields
<1>8. ASSUME NEW i \in 0 .. (QDim - 1)
      PROVE  Stores(i) = F[i]
  <2>1. (i \div GridX) * GridX + (i % GridX) = i
    BY <1>4, <1>6, Division
  <2>2. Stores(i) = {cell((i \div GridX) * GridX + (i % GridX), t) : t \in 0 .. (Batch - 1)}
    BY DEF Stores, Matmul, OutDim
  <2> QED
    BY <2>1, <2>2, Zenon
<1> HIDE DEF cell
<1>9. \A w : w \in CpuStores <=> \E r \in 0 .. (QDim - 1), t \in 0 .. (Batch - 1) : w = cell(r, t)
  BY <1>3
<1>10. \A w : w \in CpuStores <=> \E i \in 0 .. (QDim - 1) : w \in F[i]
  BY <1>9
<1>11. ASSUME NEW i \in 0 .. (QDim - 1), NEW w \in F[i]
       PROVE  /\ Owner(w.buf, w.at) = i /\ w.buf = "out" /\ w.at \in 0 .. (Batch * QDim - 1)
              /\ w = cell(i, w.at \div QDim)
  <2>1. PICK t \in 0 .. (Batch - 1) : w = cell(i, t)
    OBVIOUS
  <2>2. w.buf = "out" /\ w.at = t * QDim + i
    BY <2>1, <1>7
  <2>3. t * QDim + i \in 0 .. (Batch * QDim - 1)
    BY <1>4, FlatInRange
  <2>4. w.at \div QDim = t /\ w.at % QDim = i
    <3>1. (t * QDim + i) \div QDim = t /\ (t * QDim + i) % QDim = i
      BY <1>4, DivisionIsUnique
    <3> QED
      BY <2>2, <3>1
  <2>5. w = cell(i, w.at \div QDim)
    BY <2>1, <2>4, Zenon
  <2>6. Owner(w.buf, w.at) = i
    BY <2>4, <1>5
  <2> QED
    BY <2>2, <2>3, <2>5, <2>6
<1>12. \A i \in 0 .. (QDim - 1) : \A w, v \in F[i] : Cell(w, v.buf, v.at) => w = v
  BY <1>11 DEF Cell
<1> HIDE DEF F
<1> QED
  BY <1>1, <1>2, <1>4, <1>6, <1>8, <1>10, <1>11, <1>12, Family

-----------------------------------------------------------------------------
(* The convolutions: the history of a channel.                             *)

(* The cells of the histories: position k of a channel, owned by its       *)
(* thread.                                                                 *)
LEMMA HistoryCells ==
  ASSUME shape \in Shapes, NEW ch \in 0 .. (KvDim - 1), NEW k \in 0 .. (Taps - 2)
  PROVE  k * KvDim + ch \in 0 .. (KvDim * (Taps - 1) - 1) /\ (k * KvDim + ch) % KvDim = ch
         /\ (k * KvDim + ch) \div KvDim = k
<1>1. KvDim \in Nat \ {0} /\ Taps - 1 \in Nat /\ k \in 0 .. ((Taps - 1) - 1)
  BY Dims
<1>2. k * KvDim + ch \in 0 .. ((Taps - 1) * KvDim - 1)
  BY <1>1, FlatInRange
<1>3. (Taps - 1) * KvDim = KvDim * (Taps - 1)
  BY <1>1
<1>4. (k * KvDim + ch) \div KvDim = k /\ (k * KvDim + ch) % KvDim = ch
  <2>1. k \in Nat
    BY <1>1
  <2> QED
    BY <2>1, <1>1, DivisionIsUnique
<1> QED
  BY <1>2, <1>3, <1>4

(* What the CPU path leaves of a history: the shifted one, also when there *)
(* is one tap or two.                                                      *)
LEMMA HistoryStores ==
  ASSUME shape \in Shapes, NEW ch \in 0 .. (KvDim - 1), NEW last
  PROVE  \A w \in CpuHistory(ch, last) :
           \E k \in 0 .. (Taps - 2) :
             /\ w.buf = "history" /\ w.at = k * KvDim + ch
             /\ w.val = IF k < Taps - 2 THEN In("history", (k + 1) * KvDim + ch) ELSE last
             /\ w = W("history", k * KvDim + ch,
                      IF k < Taps - 2 THEN In("history", (k + 1) * KvDim + ch) ELSE last)
<1> SUFFICES ASSUME NEW w \in CpuHistory(ch, last)
             PROVE  \E k \in 0 .. (Taps - 2) :
               w = W("history", k * KvDim + ch,
                     IF k < Taps - 2 THEN In("history", (k + 1) * KvDim + ch) ELSE last)
  BY StoreFields
<1>1. Taps \in Nat \ {0}
  BY Dims
<1>2. CASE \E k \in 0 .. (Taps - 3) : w = W("history", k * KvDim + ch, In("history", (k + 1) * KvDim + ch))
  <2>1. PICK k \in 0 .. (Taps - 3) : w = W("history", k * KvDim + ch, In("history", (k + 1) * KvDim + ch))
    BY <1>2
  <2>2. k \in 0 .. (Taps - 2) /\ k < Taps - 2
    BY <1>1
  <2> QED
    BY <2>1, <2>2
<1>3. CASE Taps >= 2 /\ w = W("history", (Taps - 2) * KvDim + ch, last)
  <2>1. Taps - 2 \in 0 .. (Taps - 2) /\ ~(Taps - 2 < Taps - 2)
    BY <1>1, <1>3
  <2> QED
    BY <2>1, <1>3
<1> QED
  BY <1>2, <1>3 DEF CpuHistory

(* A thread that finds the history of its channel fresh convolves and      *)
(* shifts as the CPU path does.                                            *)
LEMMA ConvolutionAgrees ==
  ASSUME shape \in Shapes, NEW ch \in 0 .. (KvDim - 1), NEW last,
         \A k \in 0 .. (KvDim * Taps - 1) : At("taps", k) = In("taps", k),
         \A k \in 0 .. (Taps - 2) :
           At("history", k * KvDim + ch) = In("history", k * KvDim + ch)
  PROVE  Conv(ch, last) = CpuConv(ch, last) /\ Shifted(ch, last) = CpuHistory(ch, last)
<1>1. Taps \in Nat \ {0} /\ KvDim \in Nat \ {0}
  BY Dims
<1>2. ASSUME NEW k \in 0 .. (Taps - 1)
      PROVE  At("taps", ch * Taps + k) = In("taps", ch * Taps + k)
  <2>1. ch * Taps + k \in 0 .. (KvDim * Taps - 1)
    BY <1>1, FlatInRange
  <2> QED
    BY <2>1
<1>3. Conv(ch, last) = CpuConv(ch, last)
  <2> DEFINE gpu == {<<At("taps", ch * Taps + k),
                       IF k < Taps - 1 THEN At("history", k * KvDim + ch) ELSE last>> : k \in 0 .. (Taps - 1)}
             cpu == {<<In("taps", ch * Taps + k), In("history", k * KvDim + ch)>> : k \in 0 .. (Taps - 2)}
             end == <<In("taps", ch * Taps + Taps - 1), last>>
  <2>1. ch * Taps + Taps - 1 = ch * Taps + (Taps - 1)
    BY <1>1
  <2>2. ASSUME NEW x \in gpu PROVE x \in cpu \cup {end}
    <3>1. PICK k \in 0 .. (Taps - 1) :
            x = <<At("taps", ch * Taps + k), IF k < Taps - 1 THEN At("history", k * KvDim + ch) ELSE last>>
      OBVIOUS
    <3>2. CASE k < Taps - 1
      <4>1. k \in 0 .. (Taps - 2)
        BY <1>1, <3>2
      <4>2. x = <<In("taps", ch * Taps + k), In("history", k * KvDim + ch)>>
        BY <3>1, <3>2, <4>1, <1>2
      <4> QED
        BY <4>1, <4>2
    <3>3. CASE ~(k < Taps - 1)
      <4>1. k = Taps - 1
        BY <1>1, <3>3
      <4>2. x = <<In("taps", ch * Taps + k), last>>
        BY <3>1, <3>3, <1>2
      <4> QED
        BY <4>1, <4>2, <2>1
    <3> QED
      BY <3>2, <3>3
  <2>3. ASSUME NEW x \in cpu PROVE x \in gpu
    <3>1. PICK k \in 0 .. (Taps - 2) : x = <<In("taps", ch * Taps + k), In("history", k * KvDim + ch)>>
      OBVIOUS
    <3>2. k \in 0 .. (Taps - 1) /\ k < Taps - 1
      BY <1>1
    <3>3. x = <<At("taps", ch * Taps + k), IF k < Taps - 1 THEN At("history", k * KvDim + ch) ELSE last>>
      BY <3>1, <3>2, <1>2
    <3> QED
      BY <3>2, <3>3
  <2>4. end \in gpu
    <3>1. Taps - 1 \in 0 .. (Taps - 1) /\ ~(Taps - 1 < Taps - 1)
      BY <1>1
    <3>2. At("taps", ch * Taps + (Taps - 1)) = In("taps", ch * Taps + (Taps - 1))
      BY <3>1, <1>2
    <3>3. <<At("taps", ch * Taps + (Taps - 1)),
            IF Taps - 1 < Taps - 1 THEN At("history", (Taps - 1) * KvDim + ch) ELSE last>> \in gpu
      BY <3>1
    <3> QED
      BY <3>1, <3>2, <3>3, <2>1
  <2>5. gpu = cpu \cup {end}
    <3> HIDE DEF gpu, cpu, end
    <3> QED
      BY <2>2, <2>3, <2>4
  <2> QED
    BY <2>5, Zenon DEF Conv, CpuConv
<1>4. Shifted(ch, last) = CpuHistory(ch, last)
  <2> DEFINE turn(k) == W("history", k * KvDim + ch,
                          IF k < Taps - 2 THEN In("history", (k + 1) * KvDim + ch) ELSE last)
  <2>1. ASSUME NEW k \in 0 .. (Taps - 2)
        PROVE  W("history", k * KvDim + ch,
                 IF k < Taps - 2 THEN At("history", (k + 1) * KvDim + ch) ELSE last) = turn(k)
    <3>1. CASE k < Taps - 2
      <4>1. k + 1 \in 0 .. (Taps - 2)
        BY <1>1, <3>1
      <4>2. At("history", (k + 1) * KvDim + ch) = In("history", (k + 1) * KvDim + ch)
        BY <4>1
      <4> QED
        BY <3>1, <4>2
    <3> QED
      BY <3>1
  <2>2. Shifted(ch, last) = {turn(k) : k \in 0 .. (Taps - 2)}
    BY <2>1 DEF Shifted
  <2>3. ASSUME NEW w \in CpuHistory(ch, last) PROVE \E k \in 0 .. (Taps - 2) : w = turn(k)
    BY HistoryStores
  <2>4. ASSUME NEW k \in 0 .. (Taps - 2) PROVE turn(k) \in CpuHistory(ch, last)
    <3>1. CASE k < Taps - 2
      <4>1. k \in 0 .. (Taps - 3)
        BY <1>1, <3>1
      <4> QED
        BY <3>1, <4>1 DEF CpuHistory
    <3>2. CASE ~(k < Taps - 2)
      <4>1. k = Taps - 2 /\ Taps >= 2
        BY <1>1, <3>2
      <4> QED
        BY <3>2, <4>1 DEF CpuHistory
    <3> QED
      BY <3>1, <3>2
  <2> HIDE DEF turn
  <2> QED
    BY <2>2, <2>3, <2>4
<1> QED
  BY <1>3, <1>4

(* Both kernels that convolve store an output of their channel and shift   *)
(* its history.                                                            *)
LEMMA ConvolutionSound ==
  ASSUME shape \in Shapes, kernel \in {"short_conv", "causal_conv1d_silu"},
         NEW out, NEW last,
         \A ch \in 0 .. (KvDim - 1) : out[ch].buf = "out" /\ out[ch].at = ch,
         \A w : w \in CpuStores <=> \E ch \in 0 .. (KvDim - 1) : w \in {out[ch]} \cup CpuHistory(ch, last[ch]),
         "history" \in DOMAIN Buffers, Buffers["history"] = KvDim * (Taps - 1),
         "out" \in DOMAIN Buffers, Buffers["out"] = KvDim,
         Covered = KvDim, Launched.threads = GroupsFor(KvDim),
         \A ch \in 0 .. (KvDim - 1) : Fresh(ch) => Stores(ch) = {out[ch]} \cup CpuHistory(ch, last[ch])
  PROVE  Sound
<1> DEFINE of(ch) == {out[ch]} \cup CpuHistory(ch, last[ch])
           F == [ch \in 0 .. (KvDim - 1) |-> of(ch)]
<1>1. KvDim \in Nat \ {0}
  BY Dims
<1>2. \A ch \in 0 .. (KvDim - 1) : \A w \in of(ch) :
        \/ w = out[ch] /\ w.buf = "out" /\ w.at = ch
        \/ \E k \in 0 .. (Taps - 2) :
             /\ w.buf = "history" /\ w.at = k * KvDim + ch
             /\ w = W("history", k * KvDim + ch,
                      IF k < Taps - 2 THEN In("history", (k + 1) * KvDim + ch) ELSE last[ch])
  BY HistoryStores
<1>3. ASSUME NEW ch \in 0 .. (KvDim - 1), NEW w \in F[ch]
      PROVE  /\ Owner(w.buf, w.at) = ch
             /\ w.buf \in DOMAIN Buffers /\ w.at \in 0 .. (Buffers[w.buf] - 1)
  <2>1. CASE w.buf = "out" /\ w.at = ch
    BY <2>1 DEF Owner
  <2>2. CASE \E k \in 0 .. (Taps - 2) : w.buf = "history" /\ w.at = k * KvDim + ch
    <3>1. PICK k \in 0 .. (Taps - 2) : w.buf = "history" /\ w.at = k * KvDim + ch
      BY <2>2
    <3>2. k * KvDim + ch \in 0 .. (KvDim * (Taps - 1) - 1) /\ (k * KvDim + ch) % KvDim = ch
      BY HistoryCells
    <3>3. Owner("history", w.at) = w.at % KvDim
      BY DEF Owner
    <3> QED
      BY <3>1, <3>2, <3>3
  <2> QED
    BY <1>2, <2>1, <2>2
<1>4. ASSUME NEW ch \in 0 .. (KvDim - 1), NEW w \in F[ch], NEW v \in F[ch], Cell(w, v.buf, v.at)
      PROVE  w = v
  <2>1. CASE w = out[ch] /\ v = out[ch]
    BY <2>1
  <2>2. CASE w.buf = "history" /\ v.buf = "history"
    <3>1. PICK k \in 0 .. (Taps - 2) :
            /\ w.at = k * KvDim + ch
            /\ w = W("history", k * KvDim + ch,
                     IF k < Taps - 2 THEN In("history", (k + 1) * KvDim + ch) ELSE last[ch])
      BY <1>2, <2>2
    <3>2. PICK l \in 0 .. (Taps - 2) :
            /\ v.at = l * KvDim + ch
            /\ v = W("history", l * KvDim + ch,
                     IF l < Taps - 2 THEN In("history", (l + 1) * KvDim + ch) ELSE last[ch])
      BY <1>2, <2>2
    <3>3. (k * KvDim + ch) \div KvDim = k /\ (l * KvDim + ch) \div KvDim = l
      BY HistoryCells
    <3>4. k * KvDim + ch = l * KvDim + ch
      BY <1>4, <3>1, <3>2 DEF Cell
    <3>5. k = l
      BY <3>3, <3>4
    <3> QED
      BY <3>1, <3>2, <3>5
  <2> QED
    BY <1>2, <1>4, <2>1, <2>2 DEF Cell
<1>5. \A w : w \in CpuStores <=> \E ch \in 0 .. (KvDim - 1) : w \in F[ch]
  OBVIOUS
<1>6. \A ch \in 0 .. (KvDim - 1) : Fresh(ch) => Stores(ch) = F[ch]
  OBVIOUS
<1> HIDE DEF F
<1> QED
  BY <1>1, <1>3, <1>4, <1>5, <1>6, GroupsCover, Family

(* The convolutions store only outputs and histories.                      *)
LEMMA ConvolutionBuffers ==
  ASSUME shape \in Shapes, NEW out, NEW last,
         \A ch \in 0 .. (KvDim - 1) : out[ch].buf = "out" /\ out[ch].at = ch,
         \A w : w \in CpuStores <=> \E ch \in 0 .. (KvDim - 1) : w \in {out[ch]} \cup CpuHistory(ch, last[ch])
  PROVE  \A w \in CpuStores : w.buf \in {"out", "history"}
  BY HistoryStores

(* The history of its channel is a thread's own, so it finds it fresh.     *)
LEMMA OwnHistoryIsFresh ==
  ASSUME shape \in Shapes, kernel \in {"short_conv", "causal_conv1d_silu"},
         NEW ch \in 0 .. (KvDim - 1), Fresh(ch),
         "history" \in DOMAIN Buffers, Buffers["history"] = KvDim * (Taps - 1)
  PROVE  \A k \in 0 .. (Taps - 2) : At("history", k * KvDim + ch) = In("history", k * KvDim + ch)
<1> SUFFICES ASSUME NEW k \in 0 .. (Taps - 2)
             PROVE  At("history", k * KvDim + ch) = In("history", k * KvDim + ch)
  OBVIOUS
<1>1. k * KvDim + ch \in 0 .. (KvDim * (Taps - 1) - 1) /\ (k * KvDim + ch) % KvDim = ch
  BY HistoryCells
<1>2. Owner("history", k * KvDim + ch) = ch
  BY <1>1 DEF Owner
<1> QED
  BY <1>1, <1>2 DEF Fresh

(* short_conv: the convolution of a gated input.                           *)
LEMMA ShortConvSound ==
  ASSUME shape \in Shapes, kernel = "short_conv"
  PROVE  Sound
<1> DEFINE bx(ch) == Gated(In("bcx", ch), "mul", In("bcx", 2 * KvDim + ch))
           last   == [ch \in 0 .. (KvDim - 1) |-> bx(ch)]
           out    == [ch \in 0 .. (KvDim - 1) |->
                        W("out", ch, Gated(CpuConv(ch, bx(ch)), "mul", In("bcx", KvDim + ch)))]
<1>1. Covered = KvDim
  BY DEF Covered
<1>2. /\ Buffers = [bcx |-> 3 * KvDim, taps |-> KvDim * Taps, history |-> KvDim * (Taps - 1), out |-> KvDim]
      /\ Launched.threads = GroupsFor(KvDim)
  BY DEF Launched, LaunchShortConv, Launch, Buffers
<1>3. \A w : w \in CpuStores <=> \E ch \in 0 .. (KvDim - 1) : w \in {out[ch]} \cup CpuHistory(ch, last[ch])
  <2> DEFINE of(ch) == {out[ch]} \cup CpuHistory(ch, last[ch])
  <2>1. CpuStores = UNION {of(ch) : ch \in 0 .. (KvDim - 1)}
    BY DEF CpuStores, CpuShortConv
  <2> HIDE DEF of
  <2>2. \A w : w \in CpuStores <=> \E ch \in 0 .. (KvDim - 1) : w \in of(ch)
    BY <2>1
  <2> QED
    BY <2>2 DEF of
<1>4. KvDim \in Nat \ {0}
  BY Dims
<1>5. \A ch \in 0 .. (KvDim - 1) : out[ch].buf = "out" /\ out[ch].at = ch
  BY StoreFields
<1>6. \A w \in CpuStores : w.buf \in {"out", "history"}
  <2> HIDE DEF out, last
  <2> QED
    BY <1>3, <1>5, ConvolutionBuffers
<1>7. ASSUME NEW ch \in 0 .. (KvDim - 1), Fresh(ch)
      PROVE  Stores(ch) = {out[ch]} \cup CpuHistory(ch, last[ch])
  <2>1. \A k \in 0 .. (KvDim * Taps - 1) : At("taps", k) = In("taps", k)
    BY <1>2, <1>6, <1>7, ReadOnly
  <2>2. \A k \in 0 .. (3 * KvDim - 1) : At("bcx", k) = In("bcx", k)
    BY <1>2, <1>6, <1>7, ReadOnly
  <2>3. /\ At("bcx", ch) = In("bcx", ch) /\ At("bcx", KvDim + ch) = In("bcx", KvDim + ch)
        /\ At("bcx", 2 * KvDim + ch) = In("bcx", 2 * KvDim + ch)
    BY <2>2, <1>4
  <2>4. \A k \in 0 .. (Taps - 2) : At("history", k * KvDim + ch) = In("history", k * KvDim + ch)
    BY <1>2, <1>7, OwnHistoryIsFresh
  <2>5. Conv(ch, bx(ch)) = CpuConv(ch, bx(ch)) /\ Shifted(ch, bx(ch)) = CpuHistory(ch, bx(ch))
    BY <2>1, <2>4, ConvolutionAgrees
  <2>6. Stores(ch) = ShortConv(ch)
    BY DEF Stores
  <2>7. ShortConv(ch) = {W("out", ch, Gated(Conv(ch, bx(ch)), "mul", In("bcx", KvDim + ch)))}
                          \cup Shifted(ch, bx(ch))
    BY <2>3 DEF ShortConv
  <2> QED
    BY <2>5, <2>6, <2>7
<1> HIDE DEF out, last
<1> QED
  BY <1>1, <1>2, <1>3, <1>5, <1>7, ConvolutionSound

(* causal_conv1d_silu: the convolution of the input itself.                *)
LEMMA CausalConv1dSiluSound ==
  ASSUME shape \in Shapes, kernel = "causal_conv1d_silu"
  PROVE  Sound
<1> DEFINE last == [ch \in 0 .. (KvDim - 1) |-> In("input", ch)]
           out  == [ch \in 0 .. (KvDim - 1) |-> W("out", ch, <<"silu", CpuConv(ch, In("input", ch))>>)]
<1>1. Covered = KvDim
  BY DEF Covered
<1>2. /\ Buffers = [input |-> KvDim, taps |-> KvDim * Taps, history |-> KvDim * (Taps - 1), out |-> KvDim]
      /\ Launched.threads = GroupsFor(KvDim)
  BY DEF Launched, LaunchCausalConv1dSilu, Launch, Buffers
<1>3. \A w : w \in CpuStores <=> \E ch \in 0 .. (KvDim - 1) : w \in {out[ch]} \cup CpuHistory(ch, last[ch])
  <2> DEFINE of(ch) == {out[ch]} \cup CpuHistory(ch, last[ch])
  <2>1. CpuStores = UNION {of(ch) : ch \in 0 .. (KvDim - 1)}
    BY DEF CpuStores, CpuCausalConv
  <2> HIDE DEF of
  <2>2. \A w : w \in CpuStores <=> \E ch \in 0 .. (KvDim - 1) : w \in of(ch)
    BY <2>1
  <2> QED
    BY <2>2 DEF of
<1>4. \A ch \in 0 .. (KvDim - 1) : out[ch].buf = "out" /\ out[ch].at = ch
  BY StoreFields
<1>5. \A w \in CpuStores : w.buf \in {"out", "history"}
  <2> HIDE DEF out, last
  <2> QED
    BY <1>3, <1>4, ConvolutionBuffers
<1>6. ASSUME NEW ch \in 0 .. (KvDim - 1), Fresh(ch)
      PROVE  Stores(ch) = {out[ch]} \cup CpuHistory(ch, last[ch])
  <2>1. \A k \in 0 .. (KvDim * Taps - 1) : At("taps", k) = In("taps", k)
    BY <1>2, <1>5, <1>6, ReadOnly
  <2>2. \A k \in 0 .. (KvDim - 1) : At("input", k) = In("input", k)
    BY <1>2, <1>5, <1>6, ReadOnly
  <2>3. \A k \in 0 .. (Taps - 2) : At("history", k * KvDim + ch) = In("history", k * KvDim + ch)
    BY <1>2, <1>6, OwnHistoryIsFresh
  <2>4. /\ Conv(ch, In("input", ch)) = CpuConv(ch, In("input", ch))
        /\ Shifted(ch, In("input", ch)) = CpuHistory(ch, In("input", ch))
    BY <2>1, <2>3, ConvolutionAgrees
  <2>5. Stores(ch) = CausalConv1dSilu(ch)
    BY DEF Stores
  <2>6. CausalConv1dSilu(ch) = {W("out", ch, <<"silu", Conv(ch, In("input", ch))>>)}
                                 \cup Shifted(ch, In("input", ch))
    BY <2>2 DEF CausalConv1dSilu
  <2> QED
    BY <2>4, <2>5, <2>6
<1> HIDE DEF out, last
<1> QED
  BY <1>1, <1>2, <1>3, <1>4, <1>6, ConvolutionSound

-----------------------------------------------------------------------------
(* The delta rule: a thread for each column of each head's state.          *)

StateCell(h, a, b) == h * Dim * VDim + a * VDim + b

(* Column b of the state of head h belongs to the thread of h and b.       *)
LEMMA StateCells ==
  ASSUME shape \in Shapes, kernel = "gdn_recurrence",
         NEW h \in 0 .. (Heads - 1), NEW a \in 0 .. (Dim - 1), NEW b \in 0 .. (VDim - 1)
  PROVE  /\ StateCell(h, a, b) \in 0 .. (Heads * Dim * VDim - 1)
         /\ Owner("state", StateCell(h, a, b)) = h * VDim + b
         /\ (StateCell(h, a, b) \div VDim) % Dim = a
<1>1. Heads \in Nat /\ Dim \in Nat \ {0} /\ VDim \in Nat \ {0} /\ Heads * Dim \in Nat
  BY Dims, Product
<1>2. h * Dim + a \in 0 .. (Heads * Dim - 1)
  BY <1>1, FlatInRange
<1>3. PICK row \in 0 .. (Heads * Dim - 1) : row = h * Dim + a
  BY <1>2
<1>4. StateCell(h, a, b) = row * VDim + b
  BY <1>1, <1>3 DEF StateCell
<1>5. row * VDim + b \in 0 .. (Heads * Dim * VDim - 1)
  BY <1>1, FlatInRange
<1>6. (row * VDim + b) \div VDim = row /\ (row * VDim + b) % VDim = b
  <2>1. row \in Nat
    BY <1>1
  <2> QED
    BY <2>1, <1>1, DivisionIsUnique
<1>7. row \div Dim = h /\ row % Dim = a
  <2>1. (h * Dim + a) \div Dim = h /\ (h * Dim + a) % Dim = a
    BY <1>1, DivisionIsUnique
  <2> QED
    BY <2>1, <1>3
<1>8. Owner("state", StateCell(h, a, b))
        = ((StateCell(h, a, b) \div VDim) \div Dim) * VDim + (StateCell(h, a, b) % VDim)
  BY DEF Owner
<1> QED
  BY <1>4, <1>5, <1>6, <1>7, <1>8

(* gdn_recurrence: a thread reads and overwrites one column of the state   *)
(* of one head, and the keys, queries and values it shares with others are *)
(* only read.                                                              *)
LEMMA GdnRecurrenceSound ==
  ASSUME shape \in Shapes, kernel = "gdn_recurrence"
  PROVE  Sound
<1> DEFINE key(h, a)    == In("conv_out", KvDim + (h % KvHeads) * Dim + a)
           dl(h, b)     == Delta(In("beta", h), In("conv_out", 2 * KvDim + h * VDim + b),
                                 Dot({<<In("state", StateCell(h, a, b)), key(h, a)>> : a \in 0 .. (Dim - 1)}))
           new(h, a, b) == Decayed(In("alpha", h), In("state", StateCell(h, a, b)), key(h, a), dl(h, b))
           state(h, a, b) == W("state", StateCell(h, a, b), new(h, a, b))
           out(h, b)    == W("out", h * VDim + b,
                             Dot({<<In("conv_out", (h % KvHeads) * Dim + a), new(h, a, b)>> : a \in 0 .. (Dim - 1)}))
           of(h, b)     == {state(h, a, b) : a \in 0 .. (Dim - 1)} \cup {out(h, b)}
           head(h)      == {state(h, a, b) : a \in 0 .. (Dim - 1), b \in 0 .. (VDim - 1)}
                             \cup {out(h, b) : b \in 0 .. (VDim - 1)}
           F == [i \in 0 .. (Heads * VDim - 1) |-> of(i \div VDim, i % VDim)]
<1>1. Covered = Heads * VDim
  BY DEF Covered
<1>2. /\ Buffers = [state |-> Heads * Dim * VDim, conv_out |-> 2 * KvDim + Heads * VDim,
                    beta |-> Heads, alpha |-> Heads, out |-> Heads * VDim]
      /\ Launched.threads = Heads * VDim
  BY DEF Launched, LaunchGdnRecurrence, Launch, Buffers
<1>3. CpuStores = UNION {head(h) : h \in 0 .. (Heads - 1)}
  BY DEF CpuStores, CpuDeltaRule, StateCell
<1>4. /\ Heads \in Nat /\ VDim \in Nat \ {0} /\ Dim \in Nat \ {0} /\ KvHeads \in Nat \ {0}
      /\ KvDim \in Nat /\ KvDim = KvHeads * Dim /\ Heads * VDim \in Nat
  BY Dims, Product
<1>5. \A i \in 0 .. (Heads * VDim - 1) :
        /\ i \div VDim \in 0 .. (Heads - 1) /\ i % VDim \in 0 .. (VDim - 1)
        /\ (i \div VDim) * VDim + (i % VDim) = i
  BY <1>4, Grid
<1>6. \A h \in 0 .. (Heads - 1), b \in 0 .. (VDim - 1) :
        \E i \in 0 .. (Heads * VDim - 1) : i \div VDim = h /\ i % VDim = b /\ i = h * VDim + b
  BY <1>4, Grid
<1>7. ASSUME NEW i \in 0 .. (Heads * VDim - 1), Fresh(i),
             \A w \in CpuStores : w.buf \in {"state", "out"}
      PROVE  Stores(i) = F[i]
  <2> DEFINE h == i \div VDim
             b == i % VDim
             key0(a) == At("conv_out", KvDim + (h % KvHeads) * Dim + a)
             pred0   == Dot({<<At("state", StateCell(h, a, b)), key0(a)>> : a \in 0 .. (Dim - 1)})
             dl0     == Delta(At("beta", h), At("conv_out", 2 * KvDim + h * VDim + b), pred0)
             new0(a) == Decayed(At("alpha", h), At("state", StateCell(h, a, b)), key0(a), dl0)
  <2>1. h \in 0 .. (Heads - 1) /\ b \in 0 .. (VDim - 1) /\ h * VDim + b = i
    BY <1>5
  <2>2. GdnRecurrence(i) = {W("state", StateCell(h, a, b), new0(a)) : a \in 0 .. (Dim - 1)}
          \cup {W("out", i, Dot({<<At("conv_out", (h % KvHeads) * Dim + a), new0(a)>> : a \in 0 .. (Dim - 1)}))}
    BY DEF GdnRecurrence, StateCell
  <2>3. Stores(i) = GdnRecurrence(i)
    BY DEF Stores
  <2>4. F[i] = of(h, b)
    OBVIOUS
  <2> HIDE DEF h, b
  <2>5. \A k \in 0 .. ((2 * KvDim + Heads * VDim) - 1) : At("conv_out", k) = In("conv_out", k)
    <3>1. "conv_out" \in DOMAIN Buffers /\ Buffers["conv_out"] = 2 * KvDim + Heads * VDim
      BY <1>2
    <3>2. \A w \in CpuStores : w.buf # "conv_out"
      BY <1>7
    <3> QED
      BY <1>7, <3>1, <3>2, ReadOnly
  <2>6. At("beta", h) = In("beta", h) /\ At("alpha", h) = In("alpha", h)
    BY <1>2, <1>7, <2>1, ReadOnly
  <2>7. ASSUME NEW a \in 0 .. (Dim - 1)
        PROVE  At("state", StateCell(h, a, b)) = In("state", StateCell(h, a, b))
    <3>1. "state" \in DOMAIN Buffers /\ Buffers["state"] = Heads * Dim * VDim
      BY <1>2
    <3>2. /\ StateCell(h, a, b) \in 0 .. (Heads * Dim * VDim - 1)
          /\ Owner("state", StateCell(h, a, b)) = i
      BY <2>1, StateCells
    <3> QED
      BY <1>7, <3>1, <3>2 DEF Fresh
  <2>8. ASSUME NEW a \in 0 .. (Dim - 1)
        PROVE  /\ key0(a) = key(h, a)
               /\ At("conv_out", (h % KvHeads) * Dim + a) = In("conv_out", (h % KvHeads) * Dim + a)
    <3>1. h % KvHeads \in 0 .. (KvHeads - 1)
      BY <2>1, <1>4
    <3>2. (h % KvHeads) * Dim + a \in 0 .. (KvHeads * Dim - 1)
      BY <3>1, <1>4, FlatInRange
    <3>3. PICK k \in 0 .. (KvDim - 1) : k = (h % KvHeads) * Dim + a
      BY <3>2, <1>4
    <3>4. KvDim + (h % KvHeads) * Dim + a = KvDim + k
      <4>1. PICK p \in Nat : p = (h % KvHeads) * Dim
        BY <3>1, <1>4, Product
      <4> QED
        BY <4>1, <3>3, <1>4
    <3>5. At("conv_out", k) = In("conv_out", k) /\ At("conv_out", KvDim + k) = In("conv_out", KvDim + k)
      BY <2>5, <3>3, <1>4
    <3> QED
      BY <3>3, <3>4, <3>5
  <2>9. At("conv_out", 2 * KvDim + h * VDim + b) = In("conv_out", 2 * KvDim + h * VDim + b)
    <3>1. PICK p \in Nat : p = h * VDim
      BY <2>1, <1>4, Product
    <3>2. 2 * KvDim + h * VDim + b = 2 * KvDim + i
      BY <2>1, <3>1, <1>4
    <3>3. At("conv_out", 2 * KvDim + i) = In("conv_out", 2 * KvDim + i)
      BY <2>5, <1>4
    <3> QED
      BY <3>2, <3>3
  <2> HIDE DEF key0, key
  <2>10. dl0 = dl(h, b)
    <3>1. {<<At("state", StateCell(h, a, b)), key0(a)>> : a \in 0 .. (Dim - 1)}
            = {<<In("state", StateCell(h, a, b)), key(h, a)>> : a \in 0 .. (Dim - 1)}
      BY <2>7, <2>8
    <3> QED
      BY <2>6, <2>9, <3>1
  <2> HIDE DEF dl0, dl
  <2>11. \A a \in 0 .. (Dim - 1) : new0(a) = new(h, a, b)
    BY <2>6, <2>7, <2>8, <2>10
  <2> HIDE DEF new0, new
  <2>12. {W("state", StateCell(h, a, b), new0(a)) : a \in 0 .. (Dim - 1)}
           = {state(h, a, b) : a \in 0 .. (Dim - 1)}
    BY <2>11
  <2>13. {<<At("conv_out", (h % KvHeads) * Dim + a), new0(a)>> : a \in 0 .. (Dim - 1)}
           = {<<In("conv_out", (h % KvHeads) * Dim + a), new(h, a, b)>> : a \in 0 .. (Dim - 1)}
    BY <2>8, <2>11
  <2> QED
    BY <2>1, <2>2, <2>3, <2>4, <2>12, <2>13
<1>8. /\ \A h, a, b : state(h, a, b).buf = "state" /\ state(h, a, b).at = StateCell(h, a, b)
      /\ \A h, b : out(h, b).buf = "out" /\ out(h, b).at = h * VDim + b
  BY StoreFields
<1> HIDE DEF state, out
<1>9. ASSUME NEW h \in 0 .. (Heads - 1), NEW b \in 0 .. (VDim - 1), NEW w \in of(h, b)
      PROVE  \/ w = out(h, b) /\ w.buf = "out"
             \/ w.buf = "state" /\ \E a \in 0 .. (Dim - 1) : w = state(h, a, b)
  BY <1>8
<1>10. \A w : w \in CpuStores <=> \E h \in 0 .. (Heads - 1), b \in 0 .. (VDim - 1) : w \in of(h, b)
  <2>1. \A h : \A w : w \in head(h) <=> \E b \in 0 .. (VDim - 1) : w \in of(h, b)
    OBVIOUS
  <2> HIDE DEF head, of
  <2>2. \A w : w \in CpuStores <=> \E h \in 0 .. (Heads - 1) : w \in head(h)
    BY <1>3
  <2> QED
    BY <2>1, <2>2
<1> HIDE DEF of
<1>11. \A w : w \in CpuStores <=> \E i \in 0 .. (Heads * VDim - 1) : w \in F[i]
  <2>1. ASSUME NEW w \in CpuStores PROVE \E i \in 0 .. (Heads * VDim - 1) : w \in F[i]
    <3>1. PICK h \in 0 .. (Heads - 1), b \in 0 .. (VDim - 1) : w \in of(h, b)
      BY <1>10
    <3>2. PICK i \in 0 .. (Heads * VDim - 1) : i \div VDim = h /\ i % VDim = b
      BY <1>6
    <3> QED
      BY <3>1, <3>2
  <2>2. ASSUME NEW i \in 0 .. (Heads * VDim - 1), NEW w \in F[i] PROVE w \in CpuStores
    BY <1>10, <1>5
  <2> QED
    BY <2>1, <2>2
<1>12. \A w \in CpuStores : w.buf \in {"state", "out"}
  BY <1>9, <1>10
<1>13. ASSUME NEW i \in 0 .. (Heads * VDim - 1), NEW w \in F[i]
       PROVE  /\ Owner(w.buf, w.at) = i
              /\ w.buf \in DOMAIN Buffers /\ w.at \in 0 .. (Buffers[w.buf] - 1)
  <2>1. PICK h \in 0 .. (Heads - 1), b \in 0 .. (VDim - 1) :
          w \in of(h, b) /\ h * VDim + b = i
    BY <1>5
  <2>2. CASE w = out(h, b)
    <3>1. Owner("out", i) = i
      BY DEF Owner
    <3> QED
      BY <1>2, <1>8, <2>1, <2>2, <3>1
  <2>3. CASE \E a \in 0 .. (Dim - 1) : w = state(h, a, b)
    <3>1. PICK a \in 0 .. (Dim - 1) : w = state(h, a, b)
      BY <2>3
    <3>2. w.buf = "state" /\ w.at = StateCell(h, a, b)
      BY <1>8, <3>1
    <3>3. /\ StateCell(h, a, b) \in 0 .. (Heads * Dim * VDim - 1)
          /\ Owner("state", StateCell(h, a, b)) = i
      BY <2>1, StateCells
    <3> QED
      BY <1>2, <3>2, <3>3
  <2> QED
    BY <1>9, <2>1, <2>2, <2>3
<1>14. ASSUME NEW i \in 0 .. (Heads * VDim - 1), NEW w \in F[i], NEW v \in F[i], Cell(w, v.buf, v.at)
       PROVE  w = v
  <2>1. PICK h \in 0 .. (Heads - 1), b \in 0 .. (VDim - 1) : w \in of(h, b) /\ v \in of(h, b)
    BY <1>5
  <2>2. CASE w = out(h, b) /\ v = out(h, b)
    BY <2>2
  <2>3. CASE /\ \E a \in 0 .. (Dim - 1) : w = state(h, a, b)
             /\ \E c \in 0 .. (Dim - 1) : v = state(h, c, b)
    <3>1. PICK a \in 0 .. (Dim - 1) : w = state(h, a, b)
      BY <2>3
    <3>2. PICK c \in 0 .. (Dim - 1) : v = state(h, c, b)
      BY <2>3
    <3>3. StateCell(h, a, b) = StateCell(h, c, b)
      BY <1>8, <1>14, <3>1, <3>2 DEF Cell
    <3>4. (StateCell(h, a, b) \div VDim) % Dim = a /\ (StateCell(h, c, b) \div VDim) % Dim = c
      BY StateCells
    <3> QED
      BY <3>1, <3>2, <3>3, <3>4
  <2> QED
    BY <1>9, <1>14, <2>1, <2>2, <2>3 DEF Cell
<1> HIDE DEF F
<1>15. \A i \in 0 .. (Heads * VDim - 1) : Fresh(i) => Stores(i) = F[i]
  BY <1>7, <1>12
<1> QED
  BY <1>1, <1>2, <1>4, <1>11, <1>13, <1>14, <1>15, Family


-----------------------------------------------------------------------------
(* Attention: the addresses of the cache.                                  *)

(* Grouped heads: every query head has a KV head.                          *)
LEMMA KvHeadInRange ==
  ASSUME shape \in Shapes, NEW h \in 0 .. (Heads - 1)
  PROVE  KvHead(h) \in 0 .. (KvHeads - 1)
<1> DEFINE group == Heads \div KvHeads
<1>1. Heads \in Nat \ {0} /\ KvHeads \in Nat \ {0} /\ Heads % KvHeads = 0
  BY Dims
<1>2. group \in Nat /\ Heads = group * KvHeads
  <2>1. /\ Heads \div KvHeads \in Nat
        /\ Heads = (Heads \div KvHeads) * KvHeads + (Heads % KvHeads)
    BY <1>1, Division
  <2>2. (Heads \div KvHeads) * KvHeads \in Nat
    BY <1>1, <2>1, Product
  <2> QED
    BY <1>1, <2>1, <2>2
<1> HIDE DEF group
<1>3. group \in Nat \ {0} /\ Heads = KvHeads * group
  BY <1>1, <1>2
<1>4. h \in 0 .. (KvHeads * group - 1)
  BY <1>3
<1>5. h \div group \in 0 .. (KvHeads - 1)
  BY <1>1, <1>3, <1>4, RowInRange
<1> QED
  BY <1>5 DEF KvHead, group

(* The element of a KV head's dimension lies in a token's record.          *)
LEMMA KvElement ==
  ASSUME shape \in Shapes, NEW h \in 0 .. (Heads - 1), NEW d \in 0 .. (Dim - 1)
  PROVE  KvHead(h) * Dim + d \in 0 .. (KvDim - 1)
<1>1. KvHeads \in Nat /\ Dim \in Nat /\ KvDim = KvHeads * Dim
  BY Dims
<1>2. KvHead(h) \in 0 .. (KvHeads - 1)
  BY KvHeadInRange
<1>3. KvHead(h) * Dim + d \in 0 .. (KvHeads * Dim - 1)
  BY <1>1, <1>2, FlatInRange
<1> QED
  BY <1>1, <1>3

(* An f16 cache: element e of token t is read where it was written.        *)
LEMMA F16Agrees ==
  ASSUME shape \in Shapes, NEW cache,
         \A k \in 0 .. (MaxSeq * KvDim - 1) : At(cache, k) = In(cache, k),
         NEW t \in 0 .. Pos, NEW e \in 0 .. (KvDim - 1)
  PROVE  CacheF16(cache, t, e) = WrittenF16(cache, t, e)
<1>1. MaxSeq \in Nat /\ KvDim \in Nat /\ t \in 0 .. (MaxSeq - 1)
  BY Sizes, Dims
<1>2. t * KvDim + e \in 0 .. (MaxSeq * KvDim - 1)
  BY <1>1, FlatInRange
<1> QED
  BY <1>2 DEF CacheF16, WrittenF16

(* A q8_0 cache: the only block, word and byte that hold element e are     *)
(* those the kernel divides it into, inside the token's record.            *)
LEMMA Q8Place ==
  ASSUME NEW e \in Nat
  PROVE  /\ e \div KvBlock \in Nat
         /\ (e % KvBlock) \div Pack \in 0 .. ((KvBlock \div Pack) - 1)
         /\ (e % KvBlock) % Pack \in 0 .. (Pack - 1)
         /\ e = (e \div KvBlock) * KvBlock + ((e % KvBlock) \div Pack) * Pack + ((e % KvBlock) % Pack)
         /\ \A b \in Nat, g \in 0 .. ((KvBlock \div Pack) - 1), j \in 0 .. (Pack - 1) :
              e = b * KvBlock + g * Pack + j =>
                b = e \div KvBlock /\ g = (e % KvBlock) \div Pack /\ j = (e % KvBlock) % Pack
<1> DEFINE words == KvBlock \div Pack
           lane  == e % KvBlock
<1>1. KvBlock \in Nat \ {0} /\ Pack \in Nat \ {0} /\ KvBlock % Pack = 0
  BY Sizes
<1>2. words \in Nat /\ KvBlock = words * Pack
  <2>1. /\ KvBlock \div Pack \in Nat
        /\ KvBlock = (KvBlock \div Pack) * Pack + (KvBlock % Pack)
    BY <1>1, Division
  <2>2. (KvBlock \div Pack) * Pack \in Nat
    BY <1>1, <2>1, Product
  <2> QED
    BY <1>1, <2>1, <2>2
<1>3. e \div KvBlock \in Nat /\ lane \in 0 .. (KvBlock - 1) /\ e = (e \div KvBlock) * KvBlock + lane
  BY <1>1, Division
<1> HIDE DEF words, lane
<1>4. lane \in 0 .. (words * Pack - 1)
  BY <1>2, <1>3
<1>5. /\ lane \div Pack \in 0 .. (words - 1) /\ lane % Pack \in 0 .. (Pack - 1)
      /\ lane = (lane \div Pack) * Pack + (lane % Pack)
  <2>1. words \in Nat /\ Pack \in Nat \ {0}
    BY <1>1, <1>2
  <2> QED
    BY <2>1, <1>4, RowInRange
<1>6. e = (e \div KvBlock) * KvBlock + (lane \div Pack) * Pack + (lane % Pack)
  <2>1. PICK p \in Nat : p = (e \div KvBlock) * KvBlock
    BY <1>1, <1>3, Product
  <2>2. PICK r \in Nat : r = (lane \div Pack) * Pack
    BY <1>1, <1>2, <1>5, Product
  <2>3. e = p + lane /\ lane = r + (lane % Pack)
    BY <1>3, <1>5, <2>1, <2>2
  <2>4. e = p + r + (lane % Pack)
    BY <1>5, <2>3
  <2> QED
    BY <2>1, <2>2, <2>4, Zenon
<1>7. ASSUME NEW b \in Nat, NEW g \in 0 .. (words - 1), NEW j \in 0 .. (Pack - 1),
             e = b * KvBlock + g * Pack + j
      PROVE  b = e \div KvBlock /\ g = lane \div Pack /\ j = lane % Pack
  <2>1. g * Pack + j \in 0 .. (words * Pack - 1)
    BY <1>1, <1>2, FlatInRange
  <2>2. PICK r \in 0 .. (KvBlock - 1) : r = g * Pack + j
    BY <1>2, <2>1
  <2>3. e = b * KvBlock + r
    <3>1. PICK p \in Nat : p = b * KvBlock
      BY <1>1, Product
    <3>2. PICK s \in Nat : s = g * Pack
      BY <1>1, <1>2, Product
    <3>3. e = p + s + j
      BY <1>7, <3>1, <3>2, Zenon
    <3>4. r = s + j
      BY <2>2, <3>2
    <3>5. e = p + r
      BY <3>3, <3>4
    <3> QED
      BY <3>1, <3>5
  <2>4. (b * KvBlock + r) \div KvBlock = b /\ (b * KvBlock + r) % KvBlock = r
    BY <1>1, DivisionIsUnique
  <2>5. b = e \div KvBlock /\ lane = r
    BY <2>3, <2>4 DEF lane
  <2>6. (g * Pack + j) \div Pack = g /\ (g * Pack + j) % Pack = j
    <3>1. g \in Nat
      BY <1>2
    <3> QED
      BY <1>1, <3>1, DivisionIsUnique
  <2> QED
    BY <2>2, <2>5, <2>6
<1> QED
  BY <1>3, <1>5, <1>6, <1>7 DEF words, lane

(* The scale and the byte of an element lie in the cache.                  *)
LEMMA Q8Addresses ==
  ASSUME shape \in Shapes, NEW t \in 0 .. Pos, NEW e \in 0 .. (KvDim - 1),
         NEW g \in 0 .. ((KvBlock \div Pack) - 1), NEW j \in 0 .. (Pack - 1)
  PROVE  LET block == t * WordsPerToken + (e \div KvBlock) * BlockWords
         IN /\ block * Pack \in 0 .. (MaxSeq * WordsPerToken * Pack - 1)
            /\ (block + 1 + g) * Pack + j \in 0 .. (MaxSeq * WordsPerToken * Pack - 1)
            /\ e \div KvBlock \in 0 .. (KvDim - 1)
<1> DEFINE blocks == DivCeil(KvDim, KvBlock)
           words  == KvBlock \div Pack
           b      == e \div KvBlock
           block  == t * WordsPerToken + b * BlockWords
<1>1. /\ KvBlock \in Nat \ {0} /\ Pack \in Nat \ {0} /\ MaxSeq \in Nat /\ KvDim \in Nat
      /\ t \in 0 .. (MaxSeq - 1) /\ e \in Nat
  BY Sizes, Dims
<1>2. words \in Nat
  BY <1>1, Division
<1>3. blocks \in Nat /\ KvDim <= blocks * KvBlock /\ blocks * KvBlock \in Nat
  BY <1>1, Rounded, Product
<1>4. BlockWords = 1 + words /\ WordsPerToken = blocks * BlockWords
  BY DEF BlockWords, WordsPerToken
<1> HIDE DEF blocks, words
<1>5. b \in 0 .. (blocks - 1)
  <2>1. e \in 0 .. (blocks * KvBlock - 1)
    BY <1>1, <1>3
  <2> QED
    BY <2>1, <1>1, <1>3, RowInRange
<1>6. b \in 0 .. (KvDim - 1)
  <2>1. b \in Nat /\ e = b * KvBlock + (e % KvBlock) /\ e % KvBlock \in Nat
    <3>1. b \in Nat /\ e % KvBlock \in 0 .. (KvBlock - 1) /\ e = b * KvBlock + (e % KvBlock)
      BY <1>1, Division
    <3> QED
      BY <1>1, <3>1
  <2> HIDE DEF b
  <2>2. 1 <= KvBlock /\ 1 \in Nat /\ KvBlock \in Nat
    BY <1>1
  <2>3. 1 * b <= KvBlock * b
    BY <2>1, <2>2, Monotone
  <2>4. KvBlock * b = b * KvBlock /\ b * KvBlock \in Nat
    BY <2>1, <1>1, Product
  <2>5. PICK m \in Nat : m = b * KvBlock
    BY <2>4
  <2>6. b <= m /\ m <= e
    BY <2>1, <2>3, <2>4, <2>5
  <2> QED
    BY <1>1, <2>1, <2>6
<1> HIDE DEF b
<1>7. BlockWords \in Nat /\ WordsPerToken \in Nat
  BY <1>2, <1>3, <1>4, Product
<1>8. ASSUME NEW s \in 0 .. words, NEW l \in 0 .. (Pack - 1)
      PROVE  (block + s) * Pack + l \in 0 .. (MaxSeq * WordsPerToken * Pack - 1)
  <2>1. s \in 0 .. (BlockWords - 1)
    BY <1>2, <1>4
  <2>2. b * BlockWords + s \in 0 .. (WordsPerToken - 1)
    BY <2>1, <1>3, <1>4, <1>5, <1>7, FlatInRange
  <2>3. PICK r \in 0 .. (WordsPerToken - 1) : r = b * BlockWords + s
    BY <2>2
  <2>4. t * WordsPerToken + r \in 0 .. (MaxSeq * WordsPerToken - 1)
    BY <1>1, <1>7, FlatInRange
  <2>5. block + s = t * WordsPerToken + r
    <3>1. PICK x \in Nat : x = t * WordsPerToken
      BY <1>1, <1>7, Product
    <3>2. PICK y \in Nat : y = b * BlockWords
      BY <1>5, <1>7, Product
    <3>3. r = y + s /\ block = x + y
      BY <2>3, <3>1, <3>2
    <3>4. block + s = x + r
      BY <3>3, <1>2
    <3> QED
      BY <3>1, <3>4
  <2>6. PICK word \in 0 .. (MaxSeq * WordsPerToken - 1) : word = block + s
    BY <2>4, <2>5
  <2>7. MaxSeq * WordsPerToken \in Nat /\ Pack \in Nat
    BY <1>1, <1>7, Product
  <2>8. word * Pack + l \in 0 .. ((MaxSeq * WordsPerToken) * Pack - 1)
    BY <2>7, FlatInRange
  <2> QED
    BY <2>6, <2>8
<1>9. block \in Nat
  BY <1>1, <1>5, <1>7, Product
<1>10. block * Pack \in 0 .. (MaxSeq * WordsPerToken * Pack - 1)
  <2>1. (block + 0) * Pack + 0 \in 0 .. (MaxSeq * WordsPerToken * Pack - 1)
    BY <1>1, <1>2, <1>8
  <2>2. block + 0 = block /\ block * Pack \in Nat
    BY <1>1, <1>9, Product
  <2>3. (block + 0) * Pack + 0 = block * Pack
    BY <2>2
  <2> QED
    BY <2>1, <2>3
<1>11. (block + 1 + g) * Pack + j \in 0 .. (MaxSeq * WordsPerToken * Pack - 1)
  <2>1. 1 + g \in 0 .. words /\ block + (1 + g) = block + 1 + g
    BY <1>2, <1>9 DEF words
  <2>2. (block + (1 + g)) * Pack + j \in 0 .. (MaxSeq * WordsPerToken * Pack - 1)
    BY <2>1, <1>8
  <2> QED
    BY <2>1, <2>2
<1> QED
  BY <1>6, <1>10, <1>11 DEF b

(* The kernel dequantizes the element that the writer packed.              *)
LEMMA Q8Agrees ==
  ASSUME shape \in Shapes, NEW cache,
         \A k \in 0 .. (MaxSeq * WordsPerToken * Pack - 1) : At(cache, k) = In(cache, k),
         NEW t \in 0 .. Pos, NEW e \in 0 .. (KvDim - 1)
  PROVE  CacheQ8(cache, t, e) = WrittenQ8(cache, t, e)
<1> DEFINE b    == e \div KvBlock
           g    == (e % KvBlock) \div Pack
           j    == (e % KvBlock) % Pack
           base == t * WordsPerToken + b * BlockWords
           places == (0 .. (KvDim - 1)) \X (0 .. (KvBlock \div Pack - 1)) \X (0 .. (Pack - 1))
           holds(p) == e = p[1] * KvBlock + p[2] * Pack + p[3]
           place == CHOOSE p \in places : holds(p)
<1>1. e \in Nat
  BY Dims
<1>2. /\ g \in 0 .. ((KvBlock \div Pack) - 1) /\ j \in 0 .. (Pack - 1)
      /\ e = b * KvBlock + g * Pack + j
      /\ \A b0 \in Nat, g0 \in 0 .. ((KvBlock \div Pack) - 1), j0 \in 0 .. (Pack - 1) :
           e = b0 * KvBlock + g0 * Pack + j0 => b0 = b /\ g0 = g /\ j0 = j
  BY <1>1, Q8Place
<1>3. /\ base * Pack \in 0 .. (MaxSeq * WordsPerToken * Pack - 1)
      /\ (base + 1 + g) * Pack + j \in 0 .. (MaxSeq * WordsPerToken * Pack - 1)
      /\ b \in 0 .. (KvDim - 1)
  BY <1>2, Q8Addresses
<1>4. CacheQ8(cache, t, e) = Deq(At(cache, base * Pack), At(cache, (base + 1 + g) * Pack + j))
  BY DEF CacheQ8
<1>5. WrittenQ8(cache, t, e)
        = Deq(In(cache, (t * WordsPerToken + place[1] * BlockWords) * Pack),
              In(cache, ((t * WordsPerToken + place[1] * BlockWords) + 1 + place[2]) * Pack + place[3]))
  BY DEF WrittenQ8
<1> HIDE DEF b, g, j
<1>6. place[1] = b /\ place[2] = g /\ place[3] = j
  <2>1. <<b, g, j>> \in places /\ holds(<<b, g, j>>)
    BY <1>2, <1>3
  <2> HIDE DEF holds
  <2>2. place \in places /\ holds(place)
    BY <2>1
  <2>3. /\ place[1] \in Nat /\ place[2] \in 0 .. ((KvBlock \div Pack) - 1)
        /\ place[3] \in 0 .. (Pack - 1)
    BY <2>2
  <2>4. e = place[1] * KvBlock + place[2] * Pack + place[3]
    BY <2>2 DEF holds
  <2> HIDE DEF place
  <2> QED
    BY <2>3, <2>4, <1>2, Zenon
<1> HIDE DEF place
<1>7. WrittenQ8(cache, t, e) = Deq(In(cache, base * Pack), In(cache, (base + 1 + g) * Pack + j))
  BY <1>5, <1>6, Zenon
<1> QED
  BY <1>3, <1>4, <1>7

(* The first launch: one thread for each head and position up to Pos, in   *)
(* rows of MaxSeq scores.  val[t][e] is the element of the cache.          *)
ScoreFrom(val, h, t) ==
  W("scores", h * MaxSeq + t,
    Dot({<<In("q", h * Dim + d), val[t][KvHead(h) * Dim + d]>> : d \in 0 .. (Dim - 1)}))
ScoreNow(val, h, t) ==
  W("scores", h * MaxSeq + t,
    Dot({<<At("q", h * Dim + d), val[t][KvHead(h) * Dim + d]>> : d \in 0 .. (Dim - 1)}))

ScoresFrom(val, len) ==
  /\ \A w : w \in CpuStores <=>
              \E h \in 0 .. (Heads - 1), t \in 0 .. Pos : w = ScoreFrom(val, h, t)
  /\ \A i : (\A k \in 0 .. (len - 1) : At("k_cache", k) = In("k_cache", k)) =>
        \A h \in 0 .. (Heads - 1), t \in 0 .. Pos :
          h = i \div SeqLen /\ t = i % SeqLen => Stores(i) = {ScoreNow(val, h, t)}

(* The scores, given that the elements of the cache are val.               *)
LEMMA ScoresSoundWith ==
  ASSUME shape \in Shapes, NEW val, NEW len,
         kernel \in {"attention_scores", "attention_scores_q8_0"},
         Launched = LaunchScores(len), ScoresFrom(val, len)
  PROVE  Sound
<1> DEFINE score(h, t) == ScoreFrom(val, h, t)
           F == [i \in 0 .. (Heads * SeqLen - 1) |-> {score(i \div SeqLen, i % SeqLen)}]
<1>1. Covered = Heads * SeqLen
  BY DEF Covered
<1>2. Buffers = [q |-> QDim, k_cache |-> len, scores |-> Heads * MaxSeq]
      /\ Launched.threads = GroupsFor(Heads * SeqLen)
  BY DEF LaunchScores, Launch, Buffers
<1>3. \A w : w \in CpuStores <=> \E h \in 0 .. (Heads - 1), t \in 0 .. Pos : w = score(h, t)
  BY DEF ScoresFrom
<1>4. \A h, t : score(h, t).buf = "scores" /\ score(h, t).at = h * MaxSeq + t
  BY StoreFields DEF ScoreFrom
<1>5. /\ Heads \in Nat /\ SeqLen \in Nat \ {0} /\ SeqLen = Pos + 1 /\ Pos \in Nat /\ Pos < MaxSeq
      /\ Dim \in Nat /\ QDim = Heads * Dim /\ MaxSeq \in Nat \ {0} /\ Heads * SeqLen \in Nat
  BY Dims, Sizes, Product
<1>6. \A i \in 0 .. (Heads * SeqLen - 1) :
        /\ i \div SeqLen \in 0 .. (Heads - 1) /\ i % SeqLen \in 0 .. (SeqLen - 1)
        /\ (i \div SeqLen) * SeqLen + (i % SeqLen) = i
  BY <1>5, Grid
<1>7. \A h \in 0 .. (Heads - 1), t \in 0 .. (SeqLen - 1) :
        \E i \in 0 .. (Heads * SeqLen - 1) : i \div SeqLen = h /\ i % SeqLen = t /\ i = h * SeqLen + t
  BY <1>5, Grid
<1>8. ASSUME NEW h \in 0 .. (Heads - 1), NEW t \in 0 .. (SeqLen - 1)
      PROVE  /\ h * MaxSeq + t \in 0 .. (Heads * MaxSeq - 1)
             /\ Owner("scores", h * MaxSeq + t) = h * SeqLen + t
  <2>1. t \in 0 .. (MaxSeq - 1)
    BY <1>5
  <2>2. h * MaxSeq + t \in 0 .. (Heads * MaxSeq - 1)
    BY <2>1, <1>5, FlatInRange
  <2>3. (h * MaxSeq + t) \div MaxSeq = h /\ (h * MaxSeq + t) % MaxSeq = t
    BY <2>1, <1>5, DivisionIsUnique
  <2>4. \A k : Owner("scores", k) = (k \div MaxSeq) * SeqLen + (k % MaxSeq)
    BY DEF Owner
  <2>5. Owner("scores", h * MaxSeq + t)
          = ((h * MaxSeq + t) \div MaxSeq) * SeqLen + ((h * MaxSeq + t) % MaxSeq)
    BY <2>4
  <2>6. Owner("scores", h * MaxSeq + t) = h * SeqLen + t
    BY <2>3, <2>5, Zenon
  <2> QED
    BY <2>2, <2>6
<1>9. ASSUME NEW i \in 0 .. (Heads * SeqLen - 1), Fresh(i), \A w \in CpuStores : w.buf = "scores"
      PROVE  Stores(i) = F[i]
  <2>1. PICK h \in 0 .. (Heads - 1), t \in 0 .. Pos : h = i \div SeqLen /\ t = i % SeqLen
    <3>1. i \div SeqLen \in 0 .. (Heads - 1) /\ i % SeqLen \in 0 .. (SeqLen - 1)
      BY <1>6
    <3>2. 0 .. (SeqLen - 1) = 0 .. Pos
      BY <1>5
    <3> QED
      BY <3>1, <3>2, Zenon
  <2>2. \A k \in 0 .. (len - 1) : At("k_cache", k) = In("k_cache", k)
    <3>1. "k_cache" \in DOMAIN Buffers /\ Buffers["k_cache"] = len
      BY <1>2
    <3>2. \A w \in CpuStores : w.buf # "k_cache"
      BY <1>9
    <3> QED
      BY <1>9, <3>1, <3>2, ReadOnly
  <2>3. \A k \in 0 .. (QDim - 1) : At("q", k) = In("q", k)
    <3>1. "q" \in DOMAIN Buffers /\ Buffers["q"] = QDim
      BY <1>2
    <3>2. \A w \in CpuStores : w.buf # "q"
      BY <1>9
    <3> QED
      BY <1>9, <3>1, <3>2, ReadOnly
  <2>4. ASSUME NEW d \in 0 .. (Dim - 1) PROVE At("q", h * Dim + d) = In("q", h * Dim + d)
    <3>1. h * Dim + d \in 0 .. (Heads * Dim - 1)
      BY <1>5, FlatInRange
    <3> QED
      BY <1>5, <2>3, <3>1
  <2>5. {<<At("q", h * Dim + d), val[t][KvHead(h) * Dim + d]>> : d \in 0 .. (Dim - 1)}
          = {<<In("q", h * Dim + d), val[t][KvHead(h) * Dim + d]>> : d \in 0 .. (Dim - 1)}
    BY <2>4
  <2>6. Stores(i) = {ScoreNow(val, h, t)}
    BY <2>1, <2>2 DEF ScoresFrom
  <2>7. Stores(i) = {score(h, t)}
    BY <2>5, <2>6, Zenon DEF ScoreFrom, ScoreNow
  <2>8. F[i] = {score(i \div SeqLen, i % SeqLen)}
    OBVIOUS
  <2> HIDE DEF score, F
  <2> QED
    BY <2>1, <2>7, <2>8
<1> HIDE DEF score
<1>10. \A w : w \in CpuStores <=> \E i \in 0 .. (Heads * SeqLen - 1) : w \in F[i]
  <2>1. 0 .. Pos = 0 .. (SeqLen - 1)
    BY <1>5
  <2>2. \A w : w \in CpuStores <=> \E h \in 0 .. (Heads - 1), t \in 0 .. (SeqLen - 1) : w = score(h, t)
    BY <1>3, <2>1, Zenon
  <2>3. ASSUME NEW w \in CpuStores PROVE \E i \in 0 .. (Heads * SeqLen - 1) : w \in F[i]
    <3>1. PICK h \in 0 .. (Heads - 1), t \in 0 .. (SeqLen - 1) : w = score(h, t)
      BY <2>2
    <3>2. PICK i \in 0 .. (Heads * SeqLen - 1) : i \div SeqLen = h /\ i % SeqLen = t
      BY <1>7
    <3> QED
      BY <3>1, <3>2
  <2>4. ASSUME NEW i \in 0 .. (Heads * SeqLen - 1), NEW w \in F[i] PROVE w \in CpuStores
    BY <2>2, <1>6
  <2> QED
    BY <2>3, <2>4
<1>11. \A w \in CpuStores : w.buf = "scores"
  BY <1>3, <1>4
<1>12. ASSUME NEW i \in 0 .. (Heads * SeqLen - 1), NEW w \in F[i]
       PROVE  /\ Owner(w.buf, w.at) = i
              /\ w.buf \in DOMAIN Buffers /\ w.at \in 0 .. (Buffers[w.buf] - 1)
  <2>1. PICK h \in 0 .. (Heads - 1), t \in 0 .. (SeqLen - 1) : w = score(h, t) /\ h * SeqLen + t = i
    BY <1>6
  <2>2. w.buf = "scores" /\ w.at = h * MaxSeq + t
    BY <2>1, <1>4
  <2> QED
    BY <1>2, <1>8, <2>1, <2>2
<1>13. \A i \in 0 .. (Heads * SeqLen - 1) : \A w, v \in F[i] : Cell(w, v.buf, v.at) => w = v
  OBVIOUS
<1>14. GroupsFor(Heads * SeqLen) \in Nat /\ Heads * SeqLen <= GroupsFor(Heads * SeqLen)
  BY <1>5, GroupsCover
<1> HIDE DEF F
<1>15. \A i \in 0 .. (Heads * SeqLen - 1) : Fresh(i) => Stores(i) = F[i]
  BY <1>9, <1>11
<1> QED
  BY <1>1, <1>2, <1>5, <1>10, <1>12, <1>13, <1>14, <1>15, Family

(* attention_scores over an f16 cache.                                     *)
LEMMA AttentionScoresSound ==
  ASSUME shape \in Shapes, kernel = "attention_scores"
  PROVE  Sound
<1> DEFINE val == [t \in 0 .. Pos |-> [e \in 0 .. (KvDim - 1) |-> WrittenF16("k_cache", t, e)]]
<1>1. Launched = LaunchScores(MaxSeq * KvDim)
  BY DEF Launched, LaunchAttention
<1>2. CpuStores = {W("scores", h * MaxSeq + t,
                     Dot({<<In("q", h * Dim + d), WrittenF16("k_cache", t, KvHead(h) * Dim + d)>>
                            : d \in 0 .. (Dim - 1)}))
                     : h \in 0 .. (Heads - 1), t \in 0 .. Pos}
  BY DEF CpuStores, CpuScores, CpuScoresOf, KvHead
<1>3. \A h \in 0 .. (Heads - 1), t \in 0 .. Pos, d \in 0 .. (Dim - 1) :
        val[t][KvHead(h) * Dim + d] = WrittenF16("k_cache", t, KvHead(h) * Dim + d)
  BY KvElement
<1>4. ASSUME NEW i, \A k \in 0 .. (MaxSeq * KvDim - 1) : At("k_cache", k) = In("k_cache", k),
             NEW h \in 0 .. (Heads - 1), NEW t \in 0 .. Pos, h = i \div SeqLen, t = i % SeqLen
      PROVE  Stores(i) = {ScoreNow(val, h, t)}
  <2>1. Stores(i) = {W("scores", h * MaxSeq + t,
                       Dot({<<At("q", h * Dim + d), CacheF16("k_cache", t, KvHead(h) * Dim + d)>>
                              : d \in 0 .. (Dim - 1)}))}
    BY <1>4 DEF Stores, AttentionScores, ScoresOf
  <2>2. \A d \in 0 .. (Dim - 1) :
          CacheF16("k_cache", t, KvHead(h) * Dim + d) = val[t][KvHead(h) * Dim + d]
    BY <1>3, <1>4, KvElement, F16Agrees
  <2> HIDE DEF val
  <2>3. {<<At("q", h * Dim + d), CacheF16("k_cache", t, KvHead(h) * Dim + d)>> : d \in 0 .. (Dim - 1)}
          = {<<At("q", h * Dim + d), val[t][KvHead(h) * Dim + d]>> : d \in 0 .. (Dim - 1)}
    BY <2>2
  <2> QED
    BY <2>1, <2>3, Zenon DEF ScoreNow
<1> HIDE DEF val
<1>5. \A w : w \in CpuStores <=>
                \E h \in 0 .. (Heads - 1), t \in 0 .. Pos : w = ScoreFrom(val, h, t)
  <2> DEFINE wr(h, t) ==
               W("scores", h * MaxSeq + t,
                 Dot({<<In("q", h * Dim + d), WrittenF16("k_cache", t, KvHead(h) * Dim + d)>> : d \in 0 .. (Dim - 1)}))
  <2>1. ASSUME NEW h \in 0 .. (Heads - 1), NEW t \in 0 .. Pos
        PROVE  {<<In("q", h * Dim + d), WrittenF16("k_cache", t, KvHead(h) * Dim + d)>> : d \in 0 .. (Dim - 1)}
                 = {<<In("q", h * Dim + d), val[t][KvHead(h) * Dim + d]>> : d \in 0 .. (Dim - 1)}
    BY <1>3
  <2>2. \A h \in 0 .. (Heads - 1), t \in 0 .. Pos : wr(h, t) = ScoreFrom(val, h, t)
    BY <2>1 DEF ScoreFrom
  <2>3. CpuStores = {wr(h, t) : h \in 0 .. (Heads - 1), t \in 0 .. Pos}
    BY <1>2
  <2> HIDE DEF wr
  <2>4. \A w : w \in CpuStores <=> \E h \in 0 .. (Heads - 1), t \in 0 .. Pos : w = wr(h, t)
    BY <2>3
  <2> QED
    BY <2>2, <2>4
<1>6. ScoresFrom(val, MaxSeq * KvDim)
  BY <1>4, <1>5 DEF ScoresFrom
<1> QED
  BY <1>1, <1>6, ScoresSoundWith

(* attention_scores_q8_0 over a q8_0 cache.                                *)
LEMMA AttentionScoresQ8Sound ==
  ASSUME shape \in Shapes, kernel = "attention_scores_q8_0"
  PROVE  Sound
<1> DEFINE val == [t \in 0 .. Pos |-> [e \in 0 .. (KvDim - 1) |-> WrittenQ8("k_cache", t, e)]]
<1>1. Launched = LaunchScores(MaxSeq * WordsPerToken * Pack)
  BY DEF Launched, LaunchAttentionQ8
<1>2. CpuStores = {W("scores", h * MaxSeq + t,
                     Dot({<<In("q", h * Dim + d), WrittenQ8("k_cache", t, KvHead(h) * Dim + d)>>
                            : d \in 0 .. (Dim - 1)}))
                     : h \in 0 .. (Heads - 1), t \in 0 .. Pos}
  BY DEF CpuStores, CpuScoresOf, KvHead
<1>3. \A h \in 0 .. (Heads - 1), t \in 0 .. Pos, d \in 0 .. (Dim - 1) :
        val[t][KvHead(h) * Dim + d] = WrittenQ8("k_cache", t, KvHead(h) * Dim + d)
  BY KvElement
<1>4. ASSUME NEW i, \A k \in 0 .. (MaxSeq * WordsPerToken * Pack - 1) : At("k_cache", k) = In("k_cache", k),
             NEW h \in 0 .. (Heads - 1), NEW t \in 0 .. Pos, h = i \div SeqLen, t = i % SeqLen
      PROVE  Stores(i) = {ScoreNow(val, h, t)}
  <2>1. Stores(i) = {W("scores", h * MaxSeq + t,
                       Dot({<<At("q", h * Dim + d), CacheQ8("k_cache", t, KvHead(h) * Dim + d)>>
                              : d \in 0 .. (Dim - 1)}))}
    BY <1>4 DEF Stores, AttentionScoresQ8, ScoresOf
  <2>2. \A d \in 0 .. (Dim - 1) :
          CacheQ8("k_cache", t, KvHead(h) * Dim + d) = val[t][KvHead(h) * Dim + d]
    BY <1>3, <1>4, KvElement, Q8Agrees
  <2> HIDE DEF val
  <2>3. {<<At("q", h * Dim + d), CacheQ8("k_cache", t, KvHead(h) * Dim + d)>> : d \in 0 .. (Dim - 1)}
          = {<<At("q", h * Dim + d), val[t][KvHead(h) * Dim + d]>> : d \in 0 .. (Dim - 1)}
    BY <2>2
  <2> QED
    BY <2>1, <2>3, Zenon DEF ScoreNow
<1> HIDE DEF val
<1>5. \A w : w \in CpuStores <=>
                \E h \in 0 .. (Heads - 1), t \in 0 .. Pos : w = ScoreFrom(val, h, t)
  <2> DEFINE wr(h, t) ==
               W("scores", h * MaxSeq + t,
                 Dot({<<In("q", h * Dim + d), WrittenQ8("k_cache", t, KvHead(h) * Dim + d)>> : d \in 0 .. (Dim - 1)}))
  <2>1. ASSUME NEW h \in 0 .. (Heads - 1), NEW t \in 0 .. Pos
        PROVE  {<<In("q", h * Dim + d), WrittenQ8("k_cache", t, KvHead(h) * Dim + d)>> : d \in 0 .. (Dim - 1)}
                 = {<<In("q", h * Dim + d), val[t][KvHead(h) * Dim + d]>> : d \in 0 .. (Dim - 1)}
    BY <1>3
  <2>2. \A h \in 0 .. (Heads - 1), t \in 0 .. Pos : wr(h, t) = ScoreFrom(val, h, t)
    BY <2>1 DEF ScoreFrom
  <2>3. CpuStores = {wr(h, t) : h \in 0 .. (Heads - 1), t \in 0 .. Pos}
    BY <1>2
  <2> HIDE DEF wr
  <2>4. \A w : w \in CpuStores <=> \E h \in 0 .. (Heads - 1), t \in 0 .. Pos : w = wr(h, t)
    BY <2>3
  <2> QED
    BY <2>2, <2>4
<1>6. ScoresFrom(val, MaxSeq * WordsPerToken * Pack)
  BY <1>4, <1>5 DEF ScoresFrom
<1> QED
  BY <1>1, <1>6, ScoresSoundWith

(* The third launch: one thread for each output.                           *)
OutputFrom(val, h, d) ==
  W("out", h * Dim + d,
    Gated(Dot({<<In("weights", h * MaxSeq + t), val[t][KvHead(h) * Dim + d]>> : t \in 0 .. Pos}),
          "over", In("sums", h)))
OutputNow(val, h, d) ==
  W("out", h * Dim + d,
    Gated(Dot({<<At("weights", h * MaxSeq + t), val[t][KvHead(h) * Dim + d]>> : t \in 0 .. Pos}),
          "over", At("sums", h)))

OutputsFrom(val, len) ==
  /\ \A w : w \in CpuStores <=>
              \E h \in 0 .. (Heads - 1), d \in 0 .. (Dim - 1) : w = OutputFrom(val, h, d)
  /\ \A i : (\A k \in 0 .. (len - 1) : At("v_cache", k) = In("v_cache", k)) =>
        \A h \in 0 .. (Heads - 1), d \in 0 .. (Dim - 1) :
          h = i \div Dim /\ d = i % Dim /\ i = h * Dim + d => Stores(i) = {OutputNow(val, h, d)}

(* The outputs, given that the elements of the cache are val.              *)
LEMMA OutputSoundWith ==
  ASSUME shape \in Shapes, NEW val, NEW len,
         kernel \in {"attention_output", "attention_output_q8_0"},
         Launched = LaunchOutput(len), OutputsFrom(val, len)
  PROVE  Sound
<1> DEFINE out(h, d) == OutputFrom(val, h, d)
           F == [i \in 0 .. (Heads * Dim - 1) |-> {out(i \div Dim, i % Dim)}]
<1>1. Covered = Heads * Dim
  BY DEF Covered, QDim
<1>2. Buffers = [v_cache |-> len, weights |-> Heads * MaxSeq, sums |-> Heads, out |-> QDim]
      /\ Launched.threads = GroupsFor(QDim)
  BY DEF LaunchOutput, Launch, Buffers
<1>3. \A w : w \in CpuStores <=> \E h \in 0 .. (Heads - 1), d \in 0 .. (Dim - 1) : w = out(h, d)
  BY DEF OutputsFrom
<1>4. \A h, d : out(h, d).buf = "out" /\ out(h, d).at = h * Dim + d
  BY StoreFields DEF OutputFrom
<1>5. /\ Heads \in Nat /\ Dim \in Nat \ {0} /\ QDim = Heads * Dim /\ QDim \in Nat
      /\ MaxSeq \in Nat /\ Pos \in Nat /\ Pos < MaxSeq
  BY Dims, Sizes
<1>6. \A i \in 0 .. (Heads * Dim - 1) :
        /\ i \div Dim \in 0 .. (Heads - 1) /\ i % Dim \in 0 .. (Dim - 1)
        /\ (i \div Dim) * Dim + (i % Dim) = i
  BY <1>5, Grid
<1>7. \A h \in 0 .. (Heads - 1), d \in 0 .. (Dim - 1) :
        \E i \in 0 .. (Heads * Dim - 1) : i \div Dim = h /\ i % Dim = d /\ i = h * Dim + d
  BY <1>5, Grid
<1>8. \A b, k : Owner(b, k) = k
  BY DEF Owner
<1>9. \A w \in CpuStores : w.buf = "out"
  BY <1>3, <1>4
<1>10. ASSUME NEW i \in 0 .. (Heads * Dim - 1), Fresh(i)
       PROVE  Stores(i) = F[i]
  <2>1. PICK h \in 0 .. (Heads - 1), d \in 0 .. (Dim - 1) :
          h = i \div Dim /\ d = i % Dim /\ i = h * Dim + d
    BY <1>6
  <2>2. \A k \in 0 .. (len - 1) : At("v_cache", k) = In("v_cache", k)
    <3>1. "v_cache" \in DOMAIN Buffers /\ Buffers["v_cache"] = len
      BY <1>2
    <3>2. \A w \in CpuStores : w.buf # "v_cache"
      BY <1>9
    <3> QED
      BY <1>10, <3>1, <3>2, ReadOnly
  <2>3. \A k \in 0 .. (Heads * MaxSeq - 1) : At("weights", k) = In("weights", k)
    <3>1. "weights" \in DOMAIN Buffers /\ Buffers["weights"] = Heads * MaxSeq
      BY <1>2
    <3>2. \A w \in CpuStores : w.buf # "weights"
      BY <1>9
    <3> QED
      BY <1>10, <3>1, <3>2, ReadOnly
  <2>4. At("sums", h) = In("sums", h)
    <3>1. "sums" \in DOMAIN Buffers /\ Buffers["sums"] = Heads
      BY <1>2
    <3>2. \A w \in CpuStores : w.buf # "sums"
      BY <1>9
    <3> QED
      BY <1>10, <3>1, <3>2, ReadOnly
  <2>5. ASSUME NEW t \in 0 .. Pos
        PROVE  At("weights", h * MaxSeq + t) = In("weights", h * MaxSeq + t)
    <3>1. t \in 0 .. (MaxSeq - 1)
      BY <1>5
    <3>2. h * MaxSeq + t \in 0 .. (Heads * MaxSeq - 1)
      BY <1>5, <3>1, FlatInRange
    <3> QED
      BY <2>3, <3>2
  <2>6. {<<At("weights", h * MaxSeq + t), val[t][KvHead(h) * Dim + d]>> : t \in 0 .. Pos}
          = {<<In("weights", h * MaxSeq + t), val[t][KvHead(h) * Dim + d]>> : t \in 0 .. Pos}
    BY <2>5
  <2>7. Stores(i) = {OutputNow(val, h, d)}
    BY <2>1, <2>2 DEF OutputsFrom
  <2>8. Stores(i) = {out(h, d)}
    BY <2>4, <2>6, <2>7, Zenon DEF OutputFrom, OutputNow
  <2>9. F[i] = {out(i \div Dim, i % Dim)}
    OBVIOUS
  <2> HIDE DEF out, F
  <2> QED
    BY <2>1, <2>8, <2>9
<1> HIDE DEF out
<1>11. \A w : w \in CpuStores <=> \E i \in 0 .. (Heads * Dim - 1) : w \in F[i]
  <2>1. ASSUME NEW w \in CpuStores PROVE \E i \in 0 .. (Heads * Dim - 1) : w \in F[i]
    <3>1. PICK h \in 0 .. (Heads - 1), d \in 0 .. (Dim - 1) : w = out(h, d)
      BY <1>3
    <3>2. PICK i \in 0 .. (Heads * Dim - 1) : i \div Dim = h /\ i % Dim = d
      BY <1>7
    <3> QED
      BY <3>1, <3>2
  <2>2. ASSUME NEW i \in 0 .. (Heads * Dim - 1), NEW w \in F[i] PROVE w \in CpuStores
    BY <1>3, <1>6
  <2> QED
    BY <2>1, <2>2
<1>12. ASSUME NEW i \in 0 .. (Heads * Dim - 1), NEW w \in F[i]
       PROVE  /\ Owner(w.buf, w.at) = i
              /\ w.buf \in DOMAIN Buffers /\ w.at \in 0 .. (Buffers[w.buf] - 1)
  <2>1. w.buf = "out" /\ w.at = i
    BY <1>4, <1>6
  <2> QED
    BY <1>2, <1>5, <1>8, <2>1
<1>13. \A i \in 0 .. (Heads * Dim - 1) : \A w, v \in F[i] : Cell(w, v.buf, v.at) => w = v
  OBVIOUS
<1>14. GroupsFor(QDim) \in Nat /\ QDim <= GroupsFor(QDim)
  BY <1>5, GroupsCover
<1> HIDE DEF F
<1> QED
  BY <1>1, <1>2, <1>5, <1>10, <1>11, <1>12, <1>13, <1>14, Family

(* attention_output over an f16 cache.                                     *)
LEMMA AttentionOutputSound ==
  ASSUME shape \in Shapes, kernel = "attention_output"
  PROVE  Sound
<1> DEFINE val == [t \in 0 .. Pos |-> [e \in 0 .. (KvDim - 1) |-> WrittenF16("v_cache", t, e)]]
<1>1. Launched = LaunchOutput(MaxSeq * KvDim)
  BY DEF Launched, LaunchAttention
<1>2. CpuStores = {W("out", h * Dim + d,
                     Gated(Dot({<<In("weights", h * MaxSeq + t), WrittenF16("v_cache", t, KvHead(h) * Dim + d)>>
                                  : t \in 0 .. Pos}), "over", In("sums", h)))
                     : h \in 0 .. (Heads - 1), d \in 0 .. (Dim - 1)}
  BY DEF CpuStores, CpuAttended, CpuAttendedOf, KvHead
<1>3. \A h \in 0 .. (Heads - 1), t \in 0 .. Pos, d \in 0 .. (Dim - 1) :
        val[t][KvHead(h) * Dim + d] = WrittenF16("v_cache", t, KvHead(h) * Dim + d)
  BY KvElement
<1>4. ASSUME NEW i, \A k \in 0 .. (MaxSeq * KvDim - 1) : At("v_cache", k) = In("v_cache", k),
             NEW h \in 0 .. (Heads - 1), NEW d \in 0 .. (Dim - 1),
             h = i \div Dim, d = i % Dim, i = h * Dim + d
      PROVE  Stores(i) = {OutputNow(val, h, d)}
  <2>1. Stores(i) = {W("out", i,
                       Gated(Dot({<<At("weights", h * MaxSeq + t), CacheF16("v_cache", t, KvHead(h) * Dim + d)>>
                                    : t \in 0 .. Pos}), "over", At("sums", h)))}
    BY <1>4 DEF Stores, AttentionOutput, OutputOf
  <2>2. \A t \in 0 .. Pos :
          CacheF16("v_cache", t, KvHead(h) * Dim + d) = val[t][KvHead(h) * Dim + d]
    BY <1>3, <1>4, KvElement, F16Agrees
  <2> HIDE DEF val
  <2>3. {<<At("weights", h * MaxSeq + t), CacheF16("v_cache", t, KvHead(h) * Dim + d)>> : t \in 0 .. Pos}
          = {<<At("weights", h * MaxSeq + t), val[t][KvHead(h) * Dim + d]>> : t \in 0 .. Pos}
    BY <2>2
  <2> QED
    BY <1>4, <2>1, <2>3, Zenon DEF OutputNow
<1> HIDE DEF val
<1>5. \A w : w \in CpuStores <=>
                \E h \in 0 .. (Heads - 1), d \in 0 .. (Dim - 1) : w = OutputFrom(val, h, d)
  <2> DEFINE wr(h, d) ==
               W("out", h * Dim + d,
                 Gated(Dot({<<In("weights", h * MaxSeq + t), WrittenF16("v_cache", t, KvHead(h) * Dim + d)>>
                              : t \in 0 .. Pos}), "over", In("sums", h)))
  <2>1. ASSUME NEW h \in 0 .. (Heads - 1), NEW d \in 0 .. (Dim - 1)
        PROVE  {<<In("weights", h * MaxSeq + t), WrittenF16("v_cache", t, KvHead(h) * Dim + d)>> : t \in 0 .. Pos}
                 = {<<In("weights", h * MaxSeq + t), val[t][KvHead(h) * Dim + d]>> : t \in 0 .. Pos}
    BY <1>3
  <2>2. \A h \in 0 .. (Heads - 1), d \in 0 .. (Dim - 1) : wr(h, d) = OutputFrom(val, h, d)
    BY <2>1 DEF OutputFrom
  <2>3. CpuStores = {wr(h, d) : h \in 0 .. (Heads - 1), d \in 0 .. (Dim - 1)}
    BY <1>2
  <2> HIDE DEF wr
  <2>4. \A w : w \in CpuStores <=> \E h \in 0 .. (Heads - 1), d \in 0 .. (Dim - 1) : w = wr(h, d)
    BY <2>3
  <2> QED
    BY <2>2, <2>4
<1>6. OutputsFrom(val, MaxSeq * KvDim)
  BY <1>4, <1>5 DEF OutputsFrom
<1> QED
  BY <1>1, <1>6, OutputSoundWith

(* attention_output_q8_0 over a q8_0 cache.                                *)
LEMMA AttentionOutputQ8Sound ==
  ASSUME shape \in Shapes, kernel = "attention_output_q8_0"
  PROVE  Sound
<1> DEFINE val == [t \in 0 .. Pos |-> [e \in 0 .. (KvDim - 1) |-> WrittenQ8("v_cache", t, e)]]
<1>1. Launched = LaunchOutput(MaxSeq * WordsPerToken * Pack)
  BY DEF Launched, LaunchAttentionQ8
<1>2. CpuStores = {W("out", h * Dim + d,
                     Gated(Dot({<<In("weights", h * MaxSeq + t), WrittenQ8("v_cache", t, KvHead(h) * Dim + d)>>
                                  : t \in 0 .. Pos}), "over", In("sums", h)))
                     : h \in 0 .. (Heads - 1), d \in 0 .. (Dim - 1)}
  BY DEF CpuStores, CpuAttendedOf, KvHead
<1>3. \A h \in 0 .. (Heads - 1), t \in 0 .. Pos, d \in 0 .. (Dim - 1) :
        val[t][KvHead(h) * Dim + d] = WrittenQ8("v_cache", t, KvHead(h) * Dim + d)
  BY KvElement
<1>4. ASSUME NEW i, \A k \in 0 .. (MaxSeq * WordsPerToken * Pack - 1) : At("v_cache", k) = In("v_cache", k),
             NEW h \in 0 .. (Heads - 1), NEW d \in 0 .. (Dim - 1),
             h = i \div Dim, d = i % Dim, i = h * Dim + d
      PROVE  Stores(i) = {OutputNow(val, h, d)}
  <2>1. Stores(i) = {W("out", i,
                       Gated(Dot({<<At("weights", h * MaxSeq + t), CacheQ8("v_cache", t, KvHead(h) * Dim + d)>>
                                    : t \in 0 .. Pos}), "over", At("sums", h)))}
    BY <1>4 DEF Stores, AttentionOutputQ8, OutputOf
  <2>2. \A t \in 0 .. Pos :
          CacheQ8("v_cache", t, KvHead(h) * Dim + d) = val[t][KvHead(h) * Dim + d]
    BY <1>3, <1>4, KvElement, Q8Agrees
  <2> HIDE DEF val
  <2>3. {<<At("weights", h * MaxSeq + t), CacheQ8("v_cache", t, KvHead(h) * Dim + d)>> : t \in 0 .. Pos}
          = {<<At("weights", h * MaxSeq + t), val[t][KvHead(h) * Dim + d]>> : t \in 0 .. Pos}
    BY <2>2
  <2> QED
    BY <1>4, <2>1, <2>3, Zenon DEF OutputNow
<1> HIDE DEF val
<1>5. \A w : w \in CpuStores <=>
                \E h \in 0 .. (Heads - 1), d \in 0 .. (Dim - 1) : w = OutputFrom(val, h, d)
  <2> DEFINE wr(h, d) ==
               W("out", h * Dim + d,
                 Gated(Dot({<<In("weights", h * MaxSeq + t), WrittenQ8("v_cache", t, KvHead(h) * Dim + d)>>
                              : t \in 0 .. Pos}), "over", In("sums", h)))
  <2>1. ASSUME NEW h \in 0 .. (Heads - 1), NEW d \in 0 .. (Dim - 1)
        PROVE  {<<In("weights", h * MaxSeq + t), WrittenQ8("v_cache", t, KvHead(h) * Dim + d)>> : t \in 0 .. Pos}
                 = {<<In("weights", h * MaxSeq + t), val[t][KvHead(h) * Dim + d]>> : t \in 0 .. Pos}
    BY <1>3
  <2>2. \A h \in 0 .. (Heads - 1), d \in 0 .. (Dim - 1) : wr(h, d) = OutputFrom(val, h, d)
    BY <2>1 DEF OutputFrom
  <2>3. CpuStores = {wr(h, d) : h \in 0 .. (Heads - 1), d \in 0 .. (Dim - 1)}
    BY <1>2
  <2> HIDE DEF wr
  <2>4. \A w : w \in CpuStores <=> \E h \in 0 .. (Heads - 1), d \in 0 .. (Dim - 1) : w = wr(h, d)
    BY <2>3
  <2> QED
    BY <2>2, <2>4
<1>6. OutputsFrom(val, MaxSeq * WordsPerToken * Pack)
  BY <1>4, <1>5 DEF OutputsFrom
<1> QED
  BY <1>1, <1>6, OutputSoundWith


-----------------------------------------------------------------------------
(* Every launch.                                                           *)

(* Every kernel of the launchers is sound, for every shape.                *)
LEMMA EveryKernelIsSound ==
  ASSUME shape \in Shapes, kernel \in KernelNames
  PROVE  Sound
<1>1. CASE kernel = "silu_mul"
  BY <1>1, SiluMulSound
<1>2. CASE kernel = "sigmoid_mul"
  BY <1>2, SigmoidMulSound
<1>3. CASE kernel = "split_qg"
  BY <1>3, SplitQgSound
<1>4. CASE kernel = "rope"
  BY <1>4, RopeSound
<1>5. CASE kernel = "short_conv"
  BY <1>5, ShortConvSound
<1>6. CASE kernel = "causal_conv1d_silu"
  BY <1>6, CausalConv1dSiluSound
<1>7. CASE kernel = "gdn_gate_decay"
  BY <1>7, GdnGateDecaySound
<1>8. CASE kernel = "gdn_recurrence"
  BY <1>8, GdnRecurrenceSound
<1>9. CASE kernel = "kv_cache_write"
  BY <1>9, KvCacheWriteSound
<1>10. CASE kernel = "attention_scores"
  BY <1>10, AttentionScoresSound
<1>11. CASE kernel = "attention_output"
  BY <1>11, AttentionOutputSound
<1>12. CASE kernel = "attention_scores_q8_0"
  BY <1>12, AttentionScoresQ8Sound
<1>13. CASE kernel = "attention_output_q8_0"
  BY <1>13, AttentionOutputQ8Sound
<1>14. CASE kernel = "matmul"
  BY <1>14, MatmulSound
<1> QED
  BY <1>1, <1>2, <1>3, <1>4, <1>5, <1>6, <1>7, <1>8, <1>9, <1>10, <1>11, <1>12, <1>13, <1>14
     DEF KernelNames

(* The invariant holds at the start.                                       *)
LEMMA InitHolds == Init => IInv
<1> SUFFICES ASSUME Init PROVE IInv
  OBVIOUS
<1>1. shape \in Shapes /\ kernel \in KernelNames
  BY KernelsAssumption DEF Init
<1>2. Placed
  BY <1>1, EveryKernelIsSound DEF Sound
<1> QED
  BY <1>2, KernelsAssumption, InitKeeps

(* Every step keeps the invariant.                                         *)
LEMMA NextKeeps == IInv /\ [Next]_vars => IInv'
<1> SUFFICES ASSUME IInv, [Next]_vars PROVE IInv'
  OBVIOUS
<1>1. Placed /\ Functional /\ Decodes
  BY EveryKernelIsSound DEF IInv, LaunchType, Sound
<1>2. CASE UNCHANGED vars
  BY <1>2, Stutters
<1>3. ASSUME NEW i \in Thread, Terminate(i) PROVE IInv'
  BY <1>1, <1>3, TerminateKeeps
<1>4. ASSUME NEW i \in Thread, Load(i) PROVE IInv'
  BY <1>1, <1>4, LoadKeeps
<1>5. ASSUME NEW i \in Thread, Store(i) PROVE IInv'
  BY <1>1, <1>5, StoreKeeps
<1> QED
  BY <1>2, <1>3, <1>4, <1>5 DEF Next

(* The inductive invariant: until its owner is done an element is as the   *)
(* launch found it, then it holds what the CPU path stores there; a loaded *)
(* thread carries exactly its own stores.                                  *)
THEOREM Inductive == Spec => []IInv
  BY InitHolds, NextKeeps, PTL DEF Spec

(* However many heads, dimensions, taps and positions a model has, and in  *)
(* whatever order the threads of a launch run, none stores outside the     *)
(* arrays bound, and the buffers end up holding element for element what   *)
(* the CPU path computes: for each of the fourteen kernels.                *)
THEOREM LaunchIsExact == Spec => []LaunchExact
<1>1. IInv => LaunchExact
  BY EveryKernelIsSound, IInvIsExact DEF IInv, LaunchType, Sound
<1> QED
  BY Inductive, <1>1, PTL

-----------------------------------------------------------------------------
(* Rows of quantized weights: what an element is made of.                  *)

(* The place of an element: block b, sub-block s of 32 elements, l in it.  *)
Subs == IF Fmt \in {"Q8_0", "Q5_0"} THEN {0} ELSE 0..7
Places == (0..(Blocks - 1)) \X Subs \X (0..31)
Index(p) == BlockSize * p[1] + 32 * p[2] + p[3]
Real == {p \in Places : Index(p) < N}

(* Bit k of the quant of the element at p.                                 *)
QuantBit(p, k) ==
  LET a == Block(p[1])
      s == p[2]
      l == p[3]
  IN CASE Fmt = "Q8_0" -> <<a + 2 + l, k>>
       [] Fmt = "Q5_0" -> IF k < 4 THEN <<a + 6 + (l % 16), 4 * (l \div 16) + k>>
                                   ELSE <<a + 2 + l \div 8, l % 8>>
       [] Fmt = "Q4_K" -> <<a + 16 + 32 * (s \div 2) + l, 4 * (s % 2) + k>>
       [] Fmt = "Q5_K" -> IF k < 4 THEN <<a + 48 + 32 * (s \div 2) + l, 4 * (s % 2) + k>>
                                   ELSE <<a + 16 + l, s>>
       [] Fmt = "Q6_K" -> IF k < 4 THEN <<a + 64 * (s \div 4) + 32 * (s % 2) + l, 4 * ((s % 4) \div 2) + k>>
                                   ELSE <<a + 128 + 32 * (s \div 4) + l, 2 * (s % 4) + k - 4>>
       [] Fmt = "Q2_K" -> <<a + 16 + 32 * (s \div 4) + l, 2 * (s % 4) + k>>
Quant(p) == [i \in 1..QuantWidth |-> QuantBit(p, i - 1)]

(* What the element at p contributes.                                      *)
Ref(p) ==
  LET a == Block(p[1])
      s == p[2]
      l == p[3]
      e == Index(p)
  IN CASE Fmt = "Q8_0" -> {Scaled(e, F16(a), <<>>, Quant(p), 0)}
       [] Fmt = "Q5_0" -> {Scaled(e, F16(a), <<>>, Quant(p), 16)}
       [] Fmt \in {"Q4_K", "Q5_K"} -> Both(e, a, GetScaleMinK4(s, a + 4), Quant(p))
       [] Fmt = "Q6_K" ->
            {Scaled(e, F16(a + 208), Bits(a + 192 + 8 * (s \div 4) + (l \div 16) + 2 * (s % 4), 0, 8),
                    Quant(p), 32)}
       [] Fmt = "Q2_K" ->
            LET is == 8 * (s \div 4) + 2 * (s % 4) + (l \div 16)
            IN {Scaled(e, F16(a + 80), Bits(a + is, 0, 4), Quant(p), 0),
                Offset(e, F16(a + 82), Bits(a + is, 4, 8))}

(* The block, or the lane, that reads it.                                  *)
UnitOf(p) ==
  CASE ~OnGpu -> p[1]
    [] OnGpu /\ Fmt = "Q8_0" -> p[1] % Lanes
    [] OnGpu /\ Fmt = "Q6_K" -> 32 * (p[2] \div 4) + p[3]
    [] OnGpu /\ Fmt \in {"Q4_K", "Q5_K"} -> (8 * p[1] + p[2]) % Lanes

(* A contribution as the memory of the walk holds it.                      *)
LoadedAt(c) == Loaded(ByteAt, c)

(* What the first k units contribute.                                      *)
Made(k) == UNION {{<<UnitOf(p), LoadedAt(c)>> : c \in Ref(p)} : p \in {q \in Real : UnitOf(q) < k}}

RowInv ==
  /\ walk \in Walks
  /\ unit \in 0..Units
  /\ stage = "done" => unit = Units
  /\ acc = Made(unit)

-----------------------------------------------------------------------------
(* Bits of a byte, and of two.                                             *)

Bit == Nat \X Nat

(* x is n bits of a byte from bit lo, or those and m of another from bit   *)
(* on.  (Predicates, so that the provers find the instance.)               *)
IsBits(x, a, lo, n) ==
  /\ x \in Seq(Bit) /\ Len(x) = n
  /\ \A k \in 1..n : x[k] = <<a, lo + (k - 1)>>
IsPair(x, a, lo, n, b, on, m) ==
  /\ x \in Seq(Bit) /\ Len(x) = n + m
  /\ \A k \in 1..(n + m) : x[k] = IF k <= n THEN <<a, lo + (k - 1)>> ELSE <<b, on + (k - n - 1)>>

LEMMA BitsAre ==
  ASSUME NEW a \in Nat, NEW lo \in Nat, NEW hi \in Nat, NEW n \in Nat, hi = lo + n
  PROVE  IsBits(Bits(a, lo, hi), a, lo, n)
<1>1. hi - lo = n
  OBVIOUS
<1>2. Bits(a, lo, hi) = [k \in 1..n |-> <<a, lo + k - 1>>]
  BY <1>1, Zenon DEF Bits
<1>3. \A k \in 1..n : <<a, lo + k - 1>> \in Bit
  BY DEF Bit
<1>4. [k \in 1..n |-> <<a, lo + k - 1>>] \in [1..n -> Bit]
  BY <1>3
<1>5. Bits(a, lo, hi) \in [1..n -> Bit]
  BY <1>2, <1>4, Zenon
<1>6. Bits(a, lo, hi) \in Seq(Bit) /\ Len(Bits(a, lo, hi)) = n
  BY <1>5
<1>7. \A k \in 1..n : Bits(a, lo, hi)[k] = <<a, lo + (k - 1)>>
  BY <1>2
<1> QED
  BY <1>6, <1>7 DEF IsBits

LEMMA TwoBits ==
  ASSUME NEW x, NEW y, NEW a \in Nat, NEW lo \in Nat, NEW n \in Nat,
         NEW b \in Nat, NEW on \in Nat, NEW m \in Nat,
         IsBits(x, a, lo, n), IsBits(y, b, on, m)
  PROVE  IsPair(x \o y, a, lo, n, b, on, m)
<1>1. x \in Seq(Bit) /\ Len(x) = n /\ \A k \in 1..n : x[k] = <<a, lo + (k - 1)>>
  BY DEF IsBits
<1>2. y \in Seq(Bit) /\ Len(y) = m /\ \A k \in 1..m : y[k] = <<b, on + (k - 1)>>
  BY DEF IsBits
<1>3. /\ x \o y \in Seq(Bit) /\ Len(x \o y) = n + m
      /\ \A k \in 1..(n + m) : (x \o y)[k] = IF k <= n THEN x[k] ELSE y[k - n]
  BY <1>1, <1>2, ConcatProperties
<1>4. ASSUME NEW k \in 1..(n + m)
      PROVE  (x \o y)[k] = (IF k <= n THEN <<a, lo + (k - 1)>> ELSE <<b, on + (k - n - 1)>>)
  <2>1. CASE k <= n
    BY <1>1, <1>3, <2>1
  <2>2. CASE ~(k <= n)
    <3>1. k - n \in 1..m
      BY <2>2
    <3> QED
      BY <1>2, <1>3, <2>2, <3>1
  <2> QED
    BY <2>1, <2>2
<1> QED
  BY <1>3, <1>4 DEF IsPair

(* A quant is the sequence of its bits.                                    *)
LEMMA QuantFrom ==
  ASSUME NEW p, NEW x \in Seq(Bit), Len(x) = QuantWidth,
         \A k \in 1..QuantWidth : QuantBit(p, k - 1) = x[k]
  PROVE  Quant(p) = x
<1> DEFINE n == QuantWidth
<1>1. x = [k \in 1..n |-> x[k]]
  OBVIOUS
<1>2. \A k \in 1..n : QuantBit(p, k - 1) = x[k]
  OBVIOUS
<1> HIDE DEF n
<1>3. [k \in 1..n |-> QuantBit(p, k - 1)] = [k \in 1..n |-> x[k]]
  BY <1>2
<1> QED
  BY <1>1, <1>3 DEF Quant, n

TakesPair(p, a, lo, n, b, on, m) ==
  /\ QuantWidth = n + m
  /\ \A k \in 0..(n + m - 1) : QuantBit(p, k) = IF k < n THEN <<a, lo + k>> ELSE <<b, on + (k - n)>>

LEMMA QuantOfBits ==
  ASSUME NEW p, NEW x, NEW a, NEW lo \in Nat, NEW n \in Nat, QuantWidth = n, IsBits(x, a, lo, n),
         \A k \in 0..(n - 1) : QuantBit(p, k) = <<a, lo + k>>
  PROVE  Quant(p) = x
<1>1. ASSUME NEW k \in 1..n PROVE QuantBit(p, k - 1) = x[k]
  <2>1. x[k] = <<a, lo + (k - 1)>>
    BY DEF IsBits
  <2>2. k - 1 \in 0..(n - 1)
    OBVIOUS
  <2> QED
    BY <2>1, <2>2
<1> QED
  BY <1>1, QuantFrom DEF IsBits

LEMMA QuantOfPair ==
  ASSUME NEW p, NEW x, NEW a, NEW lo \in Nat, NEW n \in Nat, NEW b, NEW on \in Nat, NEW m \in Nat,
         IsPair(x, a, lo, n, b, on, m), TakesPair(p, a, lo, n, b, on, m)
  PROVE  Quant(p) = x
<1>1. ASSUME NEW k \in 1..(n + m) PROVE QuantBit(p, k - 1) = x[k]
  <2>1. x[k] = IF k <= n THEN <<a, lo + (k - 1)>> ELSE <<b, on + (k - n - 1)>>
    BY DEF IsPair
  <2>2. k - 1 \in 0..(n + m - 1) /\ (k - 1 < n <=> k <= n) /\ (k - 1) - n = k - n - 1
    OBVIOUS
  <2>3. QuantBit(p, k - 1) = IF k - 1 < n THEN <<a, lo + (k - 1)>> ELSE <<b, on + ((k - 1) - n)>>
    BY <2>2 DEF TakesPair
  <2> QED
    BY <2>1, <2>2, <2>3
<1>2. x \in Seq(Bit) /\ Len(x) = n + m /\ QuantWidth = n + m
  BY DEF IsPair, TakesPair
<1> QED
  BY <1>1, <1>2, QuantFrom

-----------------------------------------------------------------------------
(* The arithmetic of blocks.                                               *)

WalkOk == walk \in Walks

LEMMA Typed ==
  ASSUME WalkOk
  PROVE  /\ Fmt \in Formats /\ walk.impl \in Impls /\ N \in Nat \ {0}
         /\ walk.row \in 0..(NRows - 1) /\ walk.row \in Nat
         /\ <<Fmt, walk.impl>> \in Implemented
BY WalksAssumption DEF WalkOk, N, Fmt

LEMMA BlocksAre ==
  ASSUME WalkOk
  PROVE  /\ Blocks \in Nat \ {0}
         /\ BlockSize \in {32, 256} /\ StructBytes \in Nat \ {0} /\ BlockBytes \in Nat \ {0}
         /\ Blocks * BlockSize - BlockSize < N /\ N <= Blocks * BlockSize
<1>1. N \in Nat \ {0} /\ Fmt \in Formats
  BY Typed
<1>2. BlockSize \in {32, 256} /\ StructBytes \in Nat \ {0} /\ BlockBytes \in Nat \ {0}
  BY <1>1 DEF BlockSize, StructBytes, BlockBytes, Formats
<1>3. CASE BlockSize = 32
  <2>1. Blocks = (N + 32 - 1) \div 32
    BY <1>3 DEF Blocks, CeilDiv
  <2> QED
    BY <1>1, <1>2, <1>3, <2>1
<1>4. CASE BlockSize = 256
  <2>1. Blocks = (N + 256 - 1) \div 256
    BY <1>4 DEF Blocks, CeilDiv
  <2> QED
    BY <1>1, <1>2, <1>4, <2>1
<1> QED
  BY <1>2, <1>3, <1>4

LEMMA BlockIsInt ==
  ASSUME WalkOk, NEW b \in Nat
  PROVE  Block(b) \in Nat
<1>1. StructBytes \in Nat
  BY BlocksAre
<1> QED
  BY <1>1 DEF Block

-----------------------------------------------------------------------------
(* The bits of a quant, as each format's loops take them.                  *)

LEMMA QuantQ8 ==
  ASSUME WalkOk, Fmt = "Q8_0", NEW b \in Nat, NEW l \in 0..31
  PROVE  Bits(Block(b) + 2 + l, 0, 8) = Quant(<<b, 0, l>>)
<1> DEFINE a == Block(b) + 2 + l
<1>1. Block(b) \in Nat /\ a \in Nat
  BY BlockIsInt
<1>2. QuantWidth = 8
  BY DEF QuantWidth
<1>3. \A k \in 0..(8 - 1) : QuantBit(<<b, 0, l>>, k) = <<a, 0 + k>>
  BY <1>1 DEF QuantBit
<1> HIDE DEF a
<1>4. IsBits(Bits(a, 0, 8), a, 0, 8)
  BY <1>1, BitsAre
<1>5. Quant(<<b, 0, l>>) = Bits(a, 0, 8)
  BY <1>2, <1>3, <1>4, QuantOfBits
<1> QED
  BY <1>5 DEF a

LEMMA QuantQ5 ==
  ASSUME WalkOk, Fmt = "Q5_0", NEW b \in Nat, NEW j \in 0..15
  PROVE  /\ Bits(Block(b) + 6 + j, 0, 4) \o Bits(Block(b) + 2 + (j \div 8), j % 8, (j % 8) + 1)
              = Quant(<<b, 0, j>>)
         /\ Bits(Block(b) + 6 + j, 4, 8) \o Bits(Block(b) + 2 + ((j + 16) \div 8), j % 8, (j % 8) + 1)
              = Quant(<<b, 0, j + 16>>)
<1> DEFINE a == Block(b) + 6 + j
           h == Block(b) + 2 + (j \div 8)
           i == Block(b) + 2 + ((j + 16) \div 8)
           m == j % 8
<1>1. Block(b) \in Nat
  BY BlockIsInt
<1>2. QuantWidth = 4 + 1
  BY DEF QuantWidth
<1>3. a \in Nat /\ h \in Nat /\ i \in Nat /\ m \in Nat
  BY <1>1
<1>4. \A k \in 0..(4 + 1 - 1) : QuantBit(<<b, 0, j>>, k) = IF k < 4 THEN <<a, 0 + k>> ELSE <<h, m + (k - 4)>>
  BY <1>1 DEF QuantBit
<1>5. \A k \in 0..(4 + 1 - 1) : QuantBit(<<b, 0, j + 16>>, k) = IF k < 4 THEN <<a, 4 + k>> ELSE <<i, m + (k - 4)>>
  BY <1>1 DEF QuantBit
<1> HIDE DEF a, h, i, m
<1>6. /\ IsBits(Bits(a, 0, 4), a, 0, 4) /\ IsBits(Bits(a, 4, 8), a, 4, 4)
      /\ IsBits(Bits(h, m, m + 1), h, m, 1) /\ IsBits(Bits(i, m, m + 1), i, m, 1)
  BY <1>3, BitsAre
<1>7. /\ IsPair(Bits(a, 0, 4) \o Bits(h, m, m + 1), a, 0, 4, h, m, 1)
      /\ IsPair(Bits(a, 4, 8) \o Bits(i, m, m + 1), a, 4, 4, i, m, 1)
  BY <1>3, <1>6, TwoBits
<1>8. TakesPair(<<b, 0, j>>, a, 0, 4, h, m, 1) /\ TakesPair(<<b, 0, j + 16>>, a, 4, 4, i, m, 1)
  BY <1>2, <1>4, <1>5 DEF TakesPair
<1>9. /\ Quant(<<b, 0, j>>) = Bits(a, 0, 4) \o Bits(h, m, m + 1)
      /\ Quant(<<b, 0, j + 16>>) = Bits(a, 4, 8) \o Bits(i, m, m + 1)
  BY <1>3, <1>7, <1>8, QuantOfPair
<1> QED
  BY <1>9 DEF a, h, i, m

LEMMA QuantQ4 ==
  ASSUME WalkOk, Fmt = "Q4_K", NEW b \in Nat, NEW s \in 0..7, NEW l \in 0..31
  PROVE  Quant(<<b, s, l>>) = IF s % 2 = 0 THEN Bits(Block(b) + 16 + 32 * (s \div 2) + l, 0, 4)
                                           ELSE Bits(Block(b) + 16 + 32 * (s \div 2) + l, 4, 8)
<1> DEFINE a == Block(b) + 16 + 32 * (s \div 2) + l
<1>1. Block(b) \in Nat
  BY BlockIsInt
<1>2. a \in Nat
  BY <1>1
<1>3. QuantWidth = 4
  BY DEF QuantWidth
<1>4. \A k \in 0..(4 - 1) : QuantBit(<<b, s, l>>, k) = <<a, 4 * (s % 2) + k>>
  BY DEF QuantBit
<1> HIDE DEF a
<1>5. IsBits(Bits(a, 0, 4), a, 0, 4) /\ IsBits(Bits(a, 4, 8), a, 4, 4)
  BY <1>2, BitsAre
<1>6. CASE s % 2 = 0
  <2>1. \A k \in 0..(4 - 1) : QuantBit(<<b, s, l>>, k) = <<a, 0 + k>>
    BY <1>4, <1>6
  <2>2. Quant(<<b, s, l>>) = Bits(a, 0, 4)
    BY <1>3, <1>5, <2>1, QuantOfBits
  <2> QED
    BY <2>2, <1>6 DEF a
<1>7. CASE s % 2 = 1
  <2>1. \A k \in 0..(4 - 1) : QuantBit(<<b, s, l>>, k) = <<a, 4 + k>>
    BY <1>4, <1>7
  <2>2. Quant(<<b, s, l>>) = Bits(a, 4, 8)
    BY <1>3, <1>5, <2>1, QuantOfBits
  <2> QED
    BY <2>2, <1>7 DEF a
<1> QED
  BY <1>6, <1>7

LEMMA QuantQ5K ==
  ASSUME WalkOk, Fmt = "Q5_K", NEW b \in Nat, NEW s \in 0..7, NEW l \in 0..31
  PROVE  Quant(<<b, s, l>>)
           = Bits(Block(b) + 48 + 32 * (s \div 2) + l, IF s % 2 = 0 THEN 0 ELSE 4, IF s % 2 = 0 THEN 4 ELSE 8)
               \o Bits(Block(b) + 16 + l, s, s + 1)
<1> DEFINE a == Block(b) + 48 + 32 * (s \div 2) + l
           h == Block(b) + 16 + l
           lo == IF s % 2 = 0 THEN 0 ELSE 4
           hi == IF s % 2 = 0 THEN 4 ELSE 8
<1>1. Block(b) \in Nat
  BY BlockIsInt
<1>2. /\ a \in Nat /\ h \in Nat /\ lo \in Nat /\ hi \in Nat /\ s \in Nat
      /\ lo = 4 * (s % 2) /\ hi = lo + 4
  BY <1>1
<1>3. QuantWidth = 4 + 1
  BY DEF QuantWidth
<1>4. \A k \in 0..(4 + 1 - 1) :
        QuantBit(<<b, s, l>>, k) = IF k < 4 THEN <<a, 4 * (s % 2) + k>> ELSE <<h, s>>
  BY DEF QuantBit
<1> HIDE DEF a, h, lo, hi
<1>5. \A k \in 0..(4 + 1 - 1) :
        QuantBit(<<b, s, l>>, k) = IF k < 4 THEN <<a, lo + k>> ELSE <<h, s + (k - 4)>>
  BY <1>2, <1>4
<1>6. IsBits(Bits(a, lo, hi), a, lo, 4) /\ IsBits(Bits(h, s, s + 1), h, s, 1)
  BY <1>2, BitsAre
<1>7. IsPair(Bits(a, lo, hi) \o Bits(h, s, s + 1), a, lo, 4, h, s, 1)
  BY <1>2, <1>6, TwoBits
<1>8. TakesPair(<<b, s, l>>, a, lo, 4, h, s, 1)
  BY <1>3, <1>5 DEF TakesPair
<1>9. Quant(<<b, s, l>>) = Bits(a, lo, hi) \o Bits(h, s, s + 1)
  BY <1>2, <1>7, <1>8, QuantOfPair
<1> QED
  BY <1>9 DEF a, h, lo, hi

LEMMA QuantQ6 ==
  ASSUME WalkOk, Fmt = "Q6_K", NEW b \in Nat, NEW h \in 0..1, NEW q \in 1..4, NEW l \in 0..31
  PROVE  Quant(<<b, 4 * h + (q - 1), l>>)
           = Bits(Block(b) + 64 * h + Quads(q, l)[2], Quads(q, l)[3], Quads(q, l)[4])
               \o Bits(Block(b) + 128 + 32 * h + l, Quads(q, l)[5], Quads(q, l)[5] + 2)
<1> DEFINE w == Quads(q, l)
           a == Block(b) + 64 * h + w[2]
           c == Block(b) + 128 + 32 * h + l
           s == 4 * h + (q - 1)
<1>1. Block(b) \in Nat
  BY BlockIsInt
<1>2. w[2] = 32 * ((q - 1) % 2) + l /\ w[3] = 4 * ((q - 1) \div 2) /\ w[4] = w[3] + 4 /\ w[5] = 2 * (q - 1)
  <2>1. CASE q = 1
    BY <2>1 DEF Quads
  <2>2. CASE q = 2
    BY <2>2 DEF Quads
  <2>3. CASE q = 3
    BY <2>3 DEF Quads
  <2>4. CASE q = 4
    BY <2>4 DEF Quads
  <2> QED
    BY <2>1, <2>2, <2>3, <2>4
<1> HIDE DEF w
<1>3. a \in Nat /\ c \in Nat /\ w[3] \in Nat /\ w[4] \in Nat /\ w[5] \in Nat /\ w[5] + 2 \in Nat
  BY <1>1, <1>2
<1>4. s \in 0..7 /\ s \div 4 = h /\ s % 4 = q - 1 /\ s % 2 = (q - 1) % 2
  OBVIOUS
<1>5. QuantWidth = 4 + 2
  BY DEF QuantWidth
<1> HIDE DEF s
<1>6. \A k \in 0..(4 + 2 - 1) :
        QuantBit(<<b, s, l>>, k) = IF k < 4 THEN <<a, w[3] + k>> ELSE <<c, w[5] + (k - 4)>>
  BY <1>1, <1>2, <1>4 DEF QuantBit
<1> HIDE DEF a, c
<1>7. IsBits(Bits(a, w[3], w[4]), a, w[3], 4) /\ IsBits(Bits(c, w[5], w[5] + 2), c, w[5], 2)
  BY <1>2, <1>3, BitsAre
<1>8. IsPair(Bits(a, w[3], w[4]) \o Bits(c, w[5], w[5] + 2), a, w[3], 4, c, w[5], 2)
  BY <1>3, <1>7, TwoBits
<1>9. TakesPair(<<b, s, l>>, a, w[3], 4, c, w[5], 2)
  BY <1>5, <1>6 DEF TakesPair
<1>10. Quant(<<b, s, l>>) = Bits(a, w[3], w[4]) \o Bits(c, w[5], w[5] + 2)
  BY <1>3, <1>8, <1>9, QuantOfPair
<1> QED
  BY <1>10 DEF a, c, s, w

LEMMA QuantQ2 ==
  ASSUME WalkOk, Fmt = "Q2_K", NEW b \in Nat, NEW g \in 0..1, NEW j \in 0..3, NEW l \in 0..31
  PROVE  Quant(<<b, 4 * g + j, l>>) = Bits(Block(b) + 16 + 32 * g + l, 2 * j, 2 * j + 2)
<1> DEFINE a == Block(b) + 16 + 32 * g + l
           s == 4 * g + j
           lo == 2 * j
<1>1. Block(b) \in Nat
  BY BlockIsInt
<1>2. a \in Nat /\ s \div 4 = g /\ s % 4 = j /\ lo \in Nat /\ lo + 2 \in Nat
  BY <1>1
<1>3. QuantWidth = 2
  BY DEF QuantWidth
<1> HIDE DEF s
<1>4. \A k \in 0..(2 - 1) : QuantBit(<<b, s, l>>, k) = <<a, lo + k>>
  BY <1>1, <1>2 DEF QuantBit
<1> HIDE DEF a, lo
<1>5. IsBits(Bits(a, lo, lo + 2), a, lo, 2)
  BY <1>2, BitsAre
<1>6. Quant(<<b, s, l>>) = Bits(a, lo, lo + 2)
  BY <1>2, <1>3, <1>4, <1>5, QuantOfBits
<1> QED
  BY <1>6 DEF a, s, lo

-----------------------------------------------------------------------------
(* What each loop reads of a block, or of a sub-unit of one.               *)

LEMMA ScaleMinAgree ==
  ASSUME NEW j \in 0..7, NEW a \in Nat
  PROVE  ScaleMinU8(j, a) = GetScaleMinK4(j, a) /\ GetScaleMinK4U32(j, a) = GetScaleMinK4(j, a)
<1>1. CASE j < 4
  <2>1. j % 4 = j /\ a + j + 4 = a + 4 + j
    BY <1>1
  <2> QED
    BY <1>1, <2>1, Zenon DEF ScaleMinU8, GetScaleMinK4, GetScaleMinK4U32
<1>2. CASE ~(j < 4)
  <2>1. /\ j % 4 = j - 4 /\ a + (j - 4) + 8 = a + j + 4 /\ a + (j - 4) + 4 = a + j
        /\ a + (j - 4) = a + j - 4 /\ a + 4 + j = a + j + 4
    BY <1>2
  <2>2. ScaleMinU8(j, a) = GetScaleMinK4(j, a)
    BY <1>2, <2>1, Zenon DEF ScaleMinU8, GetScaleMinK4
  <2>3. GetScaleMinK4U32(j, a) = GetScaleMinK4(j, a)
    BY <1>2, <2>1, Zenon DEF GetScaleMinK4, GetScaleMinK4U32
  <2> QED
    BY <2>2, <2>3
<1> QED
  BY <1>1, <1>2

LEMMA RefIndex ==
  ASSUME WalkOk, NEW p, NEW c \in Ref(p)
  PROVE  c[2] = Index(p)
<1>1. Fmt \in Formats
  BY Typed
<1> QED
  BY <1>1 DEF Ref, Scaled, Offset, Both, Formats

LEMMA RefOneScale ==
  ASSUME WalkOk, NEW b \in Nat, NEW s, NEW l
  PROVE  /\ Fmt = "Q8_0" =>
              Ref(<<b, s, l>>) = {Scaled(32 * b + 32 * s + l, F16(Block(b)), <<>>, Quant(<<b, s, l>>), 0)}
         /\ Fmt = "Q5_0" =>
              Ref(<<b, s, l>>) = {Scaled(32 * b + 32 * s + l, F16(Block(b)), <<>>, Quant(<<b, s, l>>), 16)}
  BY DEF Ref, Index, BlockSize

LEMMA RefTwoScales ==
  ASSUME WalkOk, NEW b \in Nat, NEW s, NEW l, Fmt \in {"Q4_K", "Q5_K"}
  PROVE  Ref(<<b, s, l>>)
           = Both(256 * b + 32 * s + l, Block(b), GetScaleMinK4(s, Block(b) + 4), Quant(<<b, s, l>>))
  BY DEF Ref, Index, BlockSize

LEMMA RefQ6 ==
  ASSUME WalkOk, NEW b \in Nat, NEW s, NEW l, Fmt = "Q6_K"
  PROVE  Ref(<<b, s, l>>)
           = {Scaled(256 * b + 32 * s + l, F16(Block(b) + 208),
                     Bits(Block(b) + 192 + 8 * (s \div 4) + (l \div 16) + 2 * (s % 4), 0, 8),
                     Quant(<<b, s, l>>), 32)}
  BY DEF Ref, Index, BlockSize

LEMMA RefQ2 ==
  ASSUME WalkOk, NEW b \in Nat, NEW s, NEW l, Fmt = "Q2_K"
  PROVE  LET is == 8 * (s \div 4) + 2 * (s % 4) + (l \div 16)
         IN Ref(<<b, s, l>>)
              = {Scaled(256 * b + 32 * s + l, F16(Block(b) + 80), Bits(Block(b) + is, 0, 4),
                        Quant(<<b, s, l>>), 0),
                 Offset(256 * b + 32 * s + l, F16(Block(b) + 82), Bits(Block(b) + is, 4, 8))}
  BY DEF Ref, Index, BlockSize

(* C is what the loops take of sub-block s of block b.                     *)
ReadsSub(C, b, s)   == \A c : c \in C <=> \E l \in 0..31 : c \in Ref(<<b, s, l>>)
ReadsBlock(C, b)    == \A c : c \in C <=> \E s \in Subs, l \in 0..31 : c \in Ref(<<b, s, l>>)
(* The same, up to elements behind the last.                               *)
ReadsRow(C, b) ==
  \A c : (c \in C /\ c[2] < N)
            <=> \E s \in Subs, l \in 0..31 : Index(<<b, s, l>>) < N /\ c \in Ref(<<b, s, l>>)

LEMMA BlockReadsRow ==
  ASSUME WalkOk, NEW b, NEW C, ReadsBlock(C, b)
  PROVE  ReadsRow(C, b)
  BY RefIndex DEF ReadsBlock, ReadsRow

LEMMA ElemsQ8 ==
  ASSUME WalkOk, Fmt = "Q8_0", NEW b \in 0..(Blocks - 1)
  PROVE  ReadsRow(DequantQ8(b), b) /\ ReadsRow(DotQ8(b), b) /\ ReadsRow(RowQ8U8(b), b)
<1> DEFINE E(l) == Scaled(32 * b + l, F16(Block(b)), <<>>, Bits(Block(b) + 2 + l, 0, 8), 0)
<1>1. N \in Nat \ {0} /\ Blocks \in Nat /\ Blocks * 32 - 32 < N /\ BlockSize = 32 /\ Subs = {0} /\ b \in Nat
  BY Typed, BlocksAre DEF BlockSize, Subs
<1>2. ASSUME NEW l \in 0..31 PROVE Ref(<<b, 0, l>>) = {E(l)} /\ Index(<<b, 0, l>>) = 32 * b + l
  <2>1. Bits(Block(b) + 2 + l, 0, 8) = Quant(<<b, 0, l>>)
    BY <1>1, QuantQ8
  <2>2. 32 * b + 32 * 0 + l = 32 * b + l
    BY <1>1
  <2> QED
    BY <1>1, <2>1, <2>2, RefOneScale DEF Index
<1>3. \A l : E(l)[2] = 32 * b + l
  BY DEF Scaled
<1> HIDE DEF E
<1>4. ASSUME NEW C, \A c : c \in C /\ c[2] < N <=> \E l \in 0..31 : 32 * b + l < N /\ c = E(l)
      PROVE  ReadsRow(C, b)
  <2>1. ASSUME NEW c, NEW l \in 0..31
        PROVE  Index(<<b, 0, l>>) < N /\ c \in Ref(<<b, 0, l>>) <=> 32 * b + l < N /\ c = E(l)
    BY <1>2
  <2>2. ASSUME NEW c
        PROVE  (\E s \in Subs, l \in 0..31 : Index(<<b, s, l>>) < N /\ c \in Ref(<<b, s, l>>))
                 <=> \E l \in 0..31 : 32 * b + l < N /\ c = E(l)
    BY <1>1, <2>1
  <2> QED
    BY <1>4, <2>2 DEF ReadsRow
<1>5. ASSUME NEW count \in Int, count = 32 \/ (count < 32 /\ count = N - 32 * b)
      PROVE  \A c : c \in Q8Elems(b, count) /\ c[2] < N <=> \E l \in 0..31 : 32 * b + l < N /\ c = E(l)
  <2>1. \A c : c \in Q8Elems(b, count) <=> \E l \in 0..(count - 1) : c = E(l)
    BY DEF Q8Elems, E
  <2> QED
    BY <1>1, <1>3, <1>5, <2>1
<1>6. ReadsRow(DequantQ8(b), b)
  <2>1. b # Blocks - 1 => N - b * 32 >= 32
    BY <1>1
  <2>2. b = Blocks - 1 => N - b * 32 <= 32
    BY <1>1, BlocksAre
  <2>3. b = Blocks - 1 => N - b * 32 \in Int /\ N - b * 32 = N - 32 * b
    BY <1>1
  <2> QED
    BY <1>1, <1>4, <1>5, <2>1, <2>2, <2>3 DEF DequantQ8
<1>7. ReadsRow(DotQ8(b), b)
  <2>1. N - 32 * b \in Int
    BY <1>1
  <2> QED
    BY <1>4, <1>5, <2>1 DEF DotQ8
<1>8. ReadsRow(RowQ8U8(b), b)
  <2>1. ASSUME NEW c PROVE c \in RowQ8U8(b) <=> \E l \in 0..31 : 32 * b + l < N /\ c = E(l)
    <3>1. ASSUME NEW i \in (32 * b)..(32 * b + 31), i < N
          PROVE  /\ i - 32 * b \in 0..31 /\ 32 * b + (i - 32 * b) = i
                 /\ Scaled(i, F16(Block(b)), <<>>, Bits(Block(b) + 2 + (i - 32 * b), 0, 8), 0) = E(i - 32 * b)
      <4>1. i - 32 * b \in 0..31 /\ 32 * b + (i - 32 * b) = i
        BY <1>1
      <4> QED
        BY <4>1 DEF E
    <3>2. ASSUME NEW l \in 0..31, 32 * b + l < N
          PROVE  /\ 32 * b + l \in (32 * b)..(32 * b + 31)
                 /\ Scaled(32 * b + l, F16(Block(b)), <<>>, Bits(Block(b) + 2 + ((32 * b + l) - 32 * b), 0, 8), 0)
                      = E(l)
      <4>1. 32 * b + l \in (32 * b)..(32 * b + 31) /\ (32 * b + l) - 32 * b = l
        BY <1>1
      <4> QED
        BY <4>1 DEF E
    <3>3. c \in RowQ8U8(b)
            <=> \E i \in (32 * b)..(32 * b + 31) :
                  i < N /\ c = Scaled(i, F16(Block(b)), <<>>, Bits(Block(b) + 2 + (i - 32 * b), 0, 8), 0)
      BY DEF RowQ8U8
    <3>4. ASSUME c \in RowQ8U8(b) PROVE \E l \in 0..31 : 32 * b + l < N /\ c = E(l)
      <4>1. PICK i \in (32 * b)..(32 * b + 31) :
                  i < N /\ c = Scaled(i, F16(Block(b)), <<>>, Bits(Block(b) + 2 + (i - 32 * b), 0, 8), 0)
        BY <3>3, <3>4
      <4>2. i - 32 * b \in 0..31 /\ 32 * b + (i - 32 * b) < N /\ c = E(i - 32 * b)
        BY <3>1, <4>1
      <4> QED
        BY <4>2
    <3>5. ASSUME NEW l \in 0..31, 32 * b + l < N, c = E(l) PROVE c \in RowQ8U8(b)
      BY <3>2, <3>3, <3>5
    <3> QED
      BY <3>4, <3>5
  <2>2. \A c : c \in RowQ8U8(b) /\ c[2] < N <=> \E l \in 0..31 : 32 * b + l < N /\ c = E(l)
    BY <1>3, <2>1
  <2> QED
    BY <1>4, <2>2
<1> QED
  BY <1>6, <1>7, <1>8

LEMMA ElemsQ5 ==
  ASSUME WalkOk, Fmt = "Q5_0", NEW b \in Nat
  PROVE  ReadsBlock(DequantQ5(b), b)
<1>1. Subs = {0}
  BY DEF Subs
<1> DEFINE Low(j)  == Scaled(32 * b + j, F16(Block(b)), <<>>,
                 Bits(Block(b) + 6 + j, 0, 4) \o Bits(Block(b) + 2 + (j \div 8), j % 8, (j % 8) + 1), 16)
           High(j) == Scaled(32 * b + j + 16, F16(Block(b)), <<>>,
                 Bits(Block(b) + 6 + j, 4, 8)
                   \o Bits(Block(b) + 2 + ((j + 16) \div 8), j % 8, (j % 8) + 1), 16)
<1>2. ASSUME NEW j \in 0..15
      PROVE  Ref(<<b, 0, j>>) = {Low(j)} /\ Ref(<<b, 0, j + 16>>) = {High(j)}
  <2>1. 32 * b + 32 * 0 + j = 32 * b + j /\ 32 * b + 32 * 0 + (j + 16) = 32 * b + j + 16
    OBVIOUS
  <2>2. /\ Ref(<<b, 0, j>>) = {Scaled(32 * b + 32 * 0 + j, F16(Block(b)), <<>>, Quant(<<b, 0, j>>), 16)}
        /\ Ref(<<b, 0, j + 16>>)
             = {Scaled(32 * b + 32 * 0 + (j + 16), F16(Block(b)), <<>>, Quant(<<b, 0, j + 16>>), 16)}
    BY RefOneScale, Zenon
  <2>3. /\ Quant(<<b, 0, j>>)
             = Bits(Block(b) + 6 + j, 0, 4) \o Bits(Block(b) + 2 + (j \div 8), j % 8, (j % 8) + 1)
        /\ Quant(<<b, 0, j + 16>>)
             = Bits(Block(b) + 6 + j, 4, 8) \o Bits(Block(b) + 2 + ((j + 16) \div 8), j % 8, (j % 8) + 1)
    BY QuantQ5
  <2> QED
    BY <2>1, <2>2, <2>3, Zenon
<1>3. ASSUME NEW c
      PROVE  c \in DequantQ5(b) <=> \E j \in 0..15 : c \in Ref(<<b, 0, j>>) \cup Ref(<<b, 0, j + 16>>)
  <2>1. DequantQ5(b) = UNION {{Low(j), High(j)} : j \in 0..15}
    BY DEF DequantQ5
  <2> HIDE DEF Low, High
  <2>2. c \in DequantQ5(b) <=> \E j \in 0..15 : c = Low(j) \/ c = High(j)
    BY <2>1
  <2> QED
    BY <1>2, <2>2
<1>4. \A l \in 0..31 : l \in 0..15 \/ (l - 16 \in 0..15 /\ (l - 16) + 16 = l)
  OBVIOUS
<1>5. \A j \in 0..15 : j \in 0..31 /\ j + 16 \in 0..31
  OBVIOUS
<1>6. ASSUME NEW c, NEW l \in 0..31, c \in Ref(<<b, 0, l>>) PROVE c \in DequantQ5(b)
  BY <1>3, <1>4, <1>6
<1>7. ASSUME NEW c, c \in DequantQ5(b) PROVE \E l \in 0..31 : c \in Ref(<<b, 0, l>>)
  BY <1>3, <1>5, <1>7
<1> QED
  BY <1>1, <1>6, <1>7 DEF ReadsBlock

LEMMA SubBlocks ==
  /\ \A g \in 0..3 : 2 * g \in 0..7 /\ 2 * g + 1 \in 0..7 /\ (2 * g) % 2 = 0 /\ (2 * g + 1) % 2 = 1
                      /\ (2 * g) \div 2 = g /\ (2 * g + 1) \div 2 = g
  /\ \A s \in 0..7 : s \div 2 \in 0..3 /\ (s = 2 * (s \div 2) \/ s = 2 * (s \div 2) + 1)
  OBVIOUS

(* The two halves of each group are its sub-blocks.                        *)
LEMMA GroupsAreSubBlocks ==
  ASSUME NEW b, NEW C, Subs = 0..7,
         \A c : c \in C <=> \E g \in 0..3, l \in 0..31 :
                              c \in Ref(<<b, 2 * g, l>>) \/ c \in Ref(<<b, 2 * g + 1, l>>)
  PROVE  ReadsBlock(C, b)
<1>1. ASSUME NEW c, c \in C PROVE \E s \in 0..7, l \in 0..31 : c \in Ref(<<b, s, l>>)
  BY <1>1, SubBlocks
<1>2. ASSUME NEW c, NEW s \in 0..7, NEW l \in 0..31, c \in Ref(<<b, s, l>>) PROVE c \in C
  <2>1. PICK g \in 0..3 : s = 2 * g \/ s = 2 * g + 1
    BY SubBlocks
  <2> QED
    BY <1>2, <2>1
<1> QED
  BY <1>1, <1>2 DEF ReadsBlock

LEMMA ElemQ4 ==
  ASSUME WalkOk, Fmt = "Q4_K", NEW b \in Nat, NEW g \in 0..3, NEW l \in 0..31
  PROVE  /\ Ref(<<b, 2 * g, l>>)
              = Both(256 * b + 64 * g + l, Block(b), GetScaleMinK4(2 * g, Block(b) + 4),
                     Bits(Block(b) + 16 + 32 * g + l, 0, 4))
         /\ Ref(<<b, 2 * g + 1, l>>)
              = Both(256 * b + 64 * g + 32 + l, Block(b), GetScaleMinK4(2 * g + 1, Block(b) + 4),
                     Bits(Block(b) + 16 + 32 * g + l, 4, 8))
<1>1. /\ 2 * g \in 0..7 /\ 2 * g + 1 \in 0..7 /\ (2 * g) % 2 = 0 /\ (2 * g + 1) % 2 # 0
      /\ (2 * g) \div 2 = g /\ (2 * g + 1) \div 2 = g
      /\ 256 * b + 32 * (2 * g) + l = 256 * b + 64 * g + l
      /\ 256 * b + 32 * (2 * g + 1) + l = 256 * b + 64 * g + 32 + l
  OBVIOUS
<1>2. /\ Ref(<<b, 2 * g, l>>)
           = Both(256 * b + 32 * (2 * g) + l, Block(b), GetScaleMinK4(2 * g, Block(b) + 4), Quant(<<b, 2 * g, l>>))
      /\ Ref(<<b, 2 * g + 1, l>>)
           = Both(256 * b + 32 * (2 * g + 1) + l, Block(b), GetScaleMinK4(2 * g + 1, Block(b) + 4),
                  Quant(<<b, 2 * g + 1, l>>))
  <2>1. Fmt \in {"Q4_K", "Q5_K"}
    OBVIOUS
  <2>2. \A s : Ref(<<b, s, l>>)
           = Both(256 * b + 32 * s + l, Block(b), GetScaleMinK4(s, Block(b) + 4), Quant(<<b, s, l>>))
    BY <2>1, RefTwoScales
  <2> QED
    BY <2>2, Zenon
<1>3. /\ Quant(<<b, 2 * g, l>>) = Bits(Block(b) + 16 + 32 * ((2 * g) \div 2) + l, 0, 4)
      /\ Quant(<<b, 2 * g + 1, l>>) = Bits(Block(b) + 16 + 32 * ((2 * g + 1) \div 2) + l, 4, 8)
  BY <1>1, QuantQ4, Zenon
<1> QED
  BY <1>1, <1>2, <1>3, Zenon

LEMMA GroupQ4 ==
  ASSUME WalkOk, Fmt = "Q4_K", NEW b \in Nat
  PROVE  ReadsBlock(DequantQ4(b), b) /\ ReadsBlock(RowQ4U8(b), b)
<1> DEFINE Low(g, l)  == Both(256 * b + 64 * g + l, Block(b), GetScaleMinK4(2 * g, Block(b) + 4),
                              Bits(Block(b) + 16 + 32 * g + l, 0, 4))
           High(g, l) == Both(256 * b + 64 * g + 32 + l, Block(b), GetScaleMinK4(2 * g + 1, Block(b) + 4),
                              Bits(Block(b) + 16 + 32 * g + l, 4, 8))
           Group(g)   == UNION {Low(g, l) \cup High(g, l) : l \in 0..31}
<1>1. Subs = 0..7
  BY DEF Subs
<1>2. Block(b) \in Nat
  BY BlockIsInt
<1>3. \A g \in 0..3 : Q4Group(b, g, GetScaleMinK4) = Group(g)
  BY Zenon DEF Q4Group
<1>4. ASSUME NEW g \in 0..3 PROVE Q4Group(b, g, ScaleMinU8) = Group(g)
  <2>1. 2 * g \in 0..7 /\ 2 * g + 1 \in 0..7 /\ Block(b) + 4 \in Nat
    BY <1>2
  <2>2. /\ ScaleMinU8(2 * g, Block(b) + 4) = GetScaleMinK4(2 * g, Block(b) + 4)
        /\ ScaleMinU8(2 * g + 1, Block(b) + 4) = GetScaleMinK4(2 * g + 1, Block(b) + 4)
    BY <2>1, ScaleMinAgree
  <2> DEFINE X(l) == Both(256 * b + 64 * g + l, Block(b), ScaleMinU8(2 * g, Block(b) + 4),
                          Bits(Block(b) + 16 + 32 * g + l, 0, 4))
             Y(l) == Both(256 * b + 64 * g + 32 + l, Block(b), ScaleMinU8(2 * g + 1, Block(b) + 4),
                          Bits(Block(b) + 16 + 32 * g + l, 4, 8))
  <2>3. Q4Group(b, g, ScaleMinU8) = UNION {X(l) \cup Y(l) : l \in 0..31}
    BY Zenon DEF Q4Group
  <2>4. \A l \in 0..31 : X(l) = Low(g, l) /\ Y(l) = High(g, l)
    BY <2>2
  <2> HIDE DEF X, Y, Low, High
  <2> QED
    BY <2>3, <2>4
<1>5. ASSUME NEW g \in 0..3, NEW l \in 0..31
      PROVE  Low(g, l) = Ref(<<b, 2 * g, l>>) /\ High(g, l) = Ref(<<b, 2 * g + 1, l>>)
  <2>1. /\ Ref(<<b, 2 * g, l>>)
             = Both(256 * b + 64 * g + l, Block(b), GetScaleMinK4(2 * g, Block(b) + 4),
                    Bits(Block(b) + 16 + 32 * g + l, 0, 4))
        /\ Ref(<<b, 2 * g + 1, l>>)
             = Both(256 * b + 64 * g + 32 + l, Block(b), GetScaleMinK4(2 * g + 1, Block(b) + 4),
                    Bits(Block(b) + 16 + 32 * g + l, 4, 8))
    BY ElemQ4
  <2> QED
    BY <2>1
<1> HIDE DEF Low, High
<1>6. ASSUME NEW c
      PROVE  c \in UNION {Group(g) : g \in 0..3}
               <=> \E g \in 0..3, l \in 0..31 : c \in Ref(<<b, 2 * g, l>>) \/ c \in Ref(<<b, 2 * g + 1, l>>)
  <2>1. c \in UNION {Group(g) : g \in 0..3} <=> \E g \in 0..3 : c \in Group(g)
    BY Zenon
  <2>2. \A g \in 0..3 : c \in Group(g) <=> \E l \in 0..31 : c \in Low(g, l) \/ c \in High(g, l)
    OBVIOUS
  <2> HIDE DEF Group
  <2> QED
    BY <2>1, <2>2, <1>5, Zenon
<1> HIDE DEF Group
<1>7. DequantQ4(b) = UNION {Group(g) : g \in 0..3} /\ RowQ4U8(b) = UNION {Group(g) : g \in 0..3}
  <2>1. DequantQ4(b) = UNION {Q4Group(b, g, GetScaleMinK4) : g \in 0..3}
    BY Zenon DEF DequantQ4
  <2>2. RowQ4U8(b) = UNION {Q4Group(b, g, ScaleMinU8) : g \in 0..3}
    BY Zenon DEF RowQ4U8
  <2>3. {Q4Group(b, g, GetScaleMinK4) : g \in 0..3} = {Group(g) : g \in 0..3}
    BY <1>3, Zenon
  <2>4. {Q4Group(b, g, ScaleMinU8) : g \in 0..3} = {Group(g) : g \in 0..3}
    BY <1>4, Zenon
  <2> QED
    BY <2>1, <2>2, <2>3, <2>4, Zenon
<1> QED
  BY <1>1, <1>6, <1>7, GroupsAreSubBlocks

LEMMA UnitOfQ4 ==
  ASSUME WalkOk, Fmt = "Q4_K", NEW u \in Nat
  PROVE  ReadsSub(Q4Unit(u, WordAddr), u \div 8, u % 8) /\ ReadsSub(Q4Unit(u, ByteAddr), u \div 8, u % 8)
<1> DEFINE b == u \div 8
           s == u % 8
           g == s \div 2
           low == s % 2 = 0
           base == Block(b) + 16 + 32 * g
           E(l) == Both(256 * b + 64 * g + (IF low THEN l ELSE 32 + l), Block(b),
                        GetScaleMinK4U32(s, Block(b) + 4),
                        IF low THEN Bits(base + l, 0, 4) ELSE Bits(base + l, 4, 8))
<1>1. b \in Nat /\ s \in 0..7 /\ g \in 0..3
  OBVIOUS
<1>2. Block(b) = 144 * b
  BY <1>1 DEF Block, StructBytes
<1> HIDE DEF b, s
<1>3. Block(b) + 4 \in Nat /\ base \in Nat /\ base % 4 = 0
  BY <1>1, <1>2
<1>4. ASSUME NEW l \in 0..31 PROVE E(l) = Ref(<<b, s, l>>)
  <2>1. Quant(<<b, s, l>>) = IF low THEN Bits(base + l, 0, 4) ELSE Bits(base + l, 4, 8)
    BY <1>1, QuantQ4
  <2>2. GetScaleMinK4U32(s, Block(b) + 4) = GetScaleMinK4(s, Block(b) + 4)
    BY <1>1, <1>3, ScaleMinAgree
  <2>3. 256 * b + 64 * g + (IF low THEN l ELSE 32 + l) = 256 * b + 32 * s + l
    BY <1>1
  <2>4. Ref(<<b, s, l>>) = Both(256 * b + 32 * s + l, Block(b), GetScaleMinK4(s, Block(b) + 4), Quant(<<b, s, l>>))
    BY <1>1, RefTwoScales
  <2> QED
    BY <2>1, <2>2, <2>3, <2>4, Zenon
<1>5. ASSUME NEW l \in 0..31 PROVE WordAddr(base, l) = base + l
  <2> HIDE DEF base
  <2> QED
    BY <1>3 DEF WordAddr
<1>6. Q4Unit(u, ByteAddr) = UNION {E(l) : l \in 0..31}
  BY Zenon DEF Q4Unit, ByteAddr, b, s
<1>7. Q4Unit(u, WordAddr) = UNION {E(l) : l \in 0..31}
  <2> DEFINE F(l) == Both(256 * b + 64 * g + (IF low THEN l ELSE 32 + l), Block(b),
                          GetScaleMinK4U32(s, Block(b) + 4),
                          IF low THEN Bits(WordAddr(base, l), 0, 4) ELSE Bits(WordAddr(base, l), 4, 8))
  <2>1. Q4Unit(u, WordAddr) = UNION {F(l) : l \in 0..31}
    BY Zenon DEF Q4Unit, b, s
  <2>2. \A l \in 0..31 : F(l) = E(l)
    BY <1>5, Zenon
  <2> HIDE DEF F, E
  <2>3. {F(l) : l \in 0..31} = {E(l) : l \in 0..31}
    BY <2>2
  <2> QED
    BY <2>1, <2>3, Zenon
<1> HIDE DEF E
<1>8. \A c : c \in UNION {E(l) : l \in 0..31} <=> \E l \in 0..31 : c \in Ref(<<b, s, l>>)
  BY <1>4
<1> QED
  BY <1>6, <1>7, <1>8, Zenon DEF ReadsSub, b, s

LEMMA ElemQ5K ==
  ASSUME WalkOk, Fmt = "Q5_K", NEW b \in Nat, NEW s \in 0..7, NEW l \in 0..31
  PROVE  Ref(<<b, s, l>>)
           = Both(256 * b + 32 * s + l, Block(b), GetScaleMinK4(s, Block(b) + 4),
                  Bits(Block(b) + 48 + 32 * (s \div 2) + l, IF s % 2 = 0 THEN 0 ELSE 4, IF s % 2 = 0 THEN 4 ELSE 8)
                    \o Bits(Block(b) + 16 + l, s, s + 1))
<1>1. Fmt \in {"Q4_K", "Q5_K"}
  OBVIOUS
<1>2. Ref(<<b, s, l>>)
        = Both(256 * b + 32 * s + l, Block(b), GetScaleMinK4(s, Block(b) + 4), Quant(<<b, s, l>>))
  BY <1>1, RefTwoScales
<1> QED
  BY <1>2, QuantQ5K, Zenon

LEMMA BlockQ5K ==
  ASSUME WalkOk, Fmt = "Q5_K", NEW b \in Nat
  PROVE  ReadsBlock(DequantQ5K(b), b)
<1> DEFINE E(e, s, l, hi) ==
      Both(e, Block(b), GetScaleMinK4(s, Block(b) + 4),
           Bits(Block(b) + 48 + 32 * (s \div 2) + l, IF s % 2 = 0 THEN 0 ELSE 4, IF s % 2 = 0 THEN 4 ELSE 8)
             \o Bits(Block(b) + 16 + l, hi, hi + 1))
           Low(g, l)  == E(256 * b + 64 * g + l, 2 * g, l, 2 * g)
           High(g, l) == E(256 * b + 64 * g + 32 + l, 2 * g + 1, l, 1 + 2 * g)
           Pair(g, l) == Low(g, l) \cup High(g, l)
<1>1. Subs = 0..7
  BY DEF Subs
<1>2. \A s \in 0..7, l \in 0..31 : E(256 * b + 32 * s + l, s, l, s) = Ref(<<b, s, l>>)
  BY ElemQ5K
<1>3. ASSUME NEW c
      PROVE  c \in DequantQ5K(b) <=> \E g \in 0..3, l \in 0..31 : c \in Low(g, l) \/ c \in High(g, l)
  <2>1. DequantQ5K(b) = UNION {Pair(g, l) : g \in 0..3, l \in 0..31}
    BY DEF DequantQ5K, Q5Elem
  <2>2. \A g, l : c \in Pair(g, l) <=> c \in Low(g, l) \/ c \in High(g, l)
    BY Zenon
  <2> HIDE DEF Pair
  <2>3. c \in DequantQ5K(b) <=> \E g \in 0..3, l \in 0..31 : c \in Pair(g, l)
    BY <2>1
  <2> HIDE DEF Low, High
  <2> QED
    BY <2>2, <2>3
<1> HIDE DEF Pair
<1> HIDE DEF E
<1>4. ASSUME NEW g \in 0..3, NEW l \in 0..31
      PROVE  Low(g, l) = Ref(<<b, 2 * g, l>>) /\ High(g, l) = Ref(<<b, 2 * g + 1, l>>)
  <2>1. /\ 2 * g \in 0..7 /\ 2 * g + 1 \in 0..7 /\ 1 + 2 * g = 2 * g + 1
        /\ 256 * b + 32 * (2 * g) + l = 256 * b + 64 * g + l
        /\ 256 * b + 32 * (2 * g + 1) + l = 256 * b + 64 * g + 32 + l
    OBVIOUS
  <2>2. E(256 * b + 32 * (2 * g) + l, 2 * g, l, 2 * g) = Ref(<<b, 2 * g, l>>)
    BY <1>2, <2>1, Zenon
  <2>3. E(256 * b + 32 * (2 * g + 1) + l, 2 * g + 1, l, 2 * g + 1) = Ref(<<b, 2 * g + 1, l>>)
    BY <1>2, <2>1, Zenon
  <2> QED
    BY <2>1, <2>2, <2>3, Zenon
<1> HIDE DEF Low, High
<1>5. ASSUME NEW c
      PROVE  c \in DequantQ5K(b)
               <=> \E g \in 0..3, l \in 0..31 : c \in Ref(<<b, 2 * g, l>>) \/ c \in Ref(<<b, 2 * g + 1, l>>)
  BY <1>3, <1>4
<1> QED
  BY <1>1, <1>5, GroupsAreSubBlocks

LEMMA UnitOfQ5K ==
  ASSUME WalkOk, Fmt = "Q5_K", NEW u \in Nat
  PROVE  ReadsSub(Q5Unit(u), u \div 8, u % 8)
<1> DEFINE b == u \div 8
           s == u % 8
           E(l) == Both(256 * b + 32 * s + l, Block(b), GetScaleMinK4U32(s, Block(b) + 4),
                        Bits(Block(b) + 48 + 32 * (s \div 2) + l, IF s % 2 = 0 THEN 0 ELSE 4,
                             IF s % 2 = 0 THEN 4 ELSE 8) \o Bits(Block(b) + 16 + l, s, s + 1))
<1>1. b \in Nat /\ s \in 0..7
  OBVIOUS
<1>2. Block(b) \in Nat
  BY <1>1, BlockIsInt
<1> HIDE DEF b, s
<1>3. ASSUME NEW l \in 0..31 PROVE E(l) = Ref(<<b, s, l>>)
  <2>1. GetScaleMinK4U32(s, Block(b) + 4) = GetScaleMinK4(s, Block(b) + 4)
    BY <1>1, <1>2, ScaleMinAgree
  <2>2. Ref(<<b, s, l>>)
          = Both(256 * b + 32 * s + l, Block(b), GetScaleMinK4(s, Block(b) + 4),
                 Bits(Block(b) + 48 + 32 * (s \div 2) + l, IF s % 2 = 0 THEN 0 ELSE 4,
                      IF s % 2 = 0 THEN 4 ELSE 8) \o Bits(Block(b) + 16 + l, s, s + 1))
    BY <1>1, ElemQ5K
  <2> QED
    BY <2>1, <2>2
<1>4. ASSUME NEW c PROVE c \in Q5Unit(u) <=> \E l \in 0..31 : c \in E(l)
  BY DEF Q5Unit, Q5Elem, b, s
<1> HIDE DEF E
<1> QED
  BY <1>3, <1>4 DEF ReadsSub, b, s

(* The products and the minima of the Q8_K dot, element by element.        *)
LEMMA DotQ8K ==
  ASSUME WalkOk, Fmt = "Q5_K", NEW b \in Nat
  PROVE  ReadsBlock(DotQ5Q8K(b), b)
<1> DEFINE P(s, l) == Scaled(256 * b + 32 * s + l, F16(Block(b)), GetScaleMinK4(s, Block(b) + 4).sc,
                        Bits(Block(b) + 48 + 32 * (s \div 2) + l, IF s % 2 = 0 THEN 0 ELSE 4,
                             IF s % 2 = 0 THEN 4 ELSE 8) \o Bits(Block(b) + 16 + l, s, s + 1), 0)
           M(s, j) == Offset(256 * b + j, F16(Block(b) + 2), GetScaleMinK4(s, Block(b) + 4).m)
           Q(s, l) == Offset(256 * b + 32 * s + l, F16(Block(b) + 2), GetScaleMinK4(s, Block(b) + 4).m)
           Sums(s) == BSum(2 * s) \cup BSum(2 * s + 1)
<1>1. Subs = 0..7
  BY DEF Subs
<1>2. ASSUME NEW s \in 0..7, NEW l \in 0..31 PROVE Ref(<<b, s, l>>) = {P(s, l), Q(s, l)}
  BY ElemQ5K, Zenon DEF Both
<1>3. ASSUME NEW s \in 0..7 PROVE \A j : j \in Sums(s) <=> \E l \in 0..31 : j = 32 * s + l
  <2>1. ASSUME NEW l \in 0..31 PROVE 32 * s + l \in Sums(s)
    BY DEF BSum
  <2>2. ASSUME NEW j \in Sums(s) PROVE j - 32 * s \in 0..31 /\ j = 32 * s + (j - 32 * s)
    BY DEF BSum
  <2> HIDE DEF Sums
  <2> QED
    BY <2>1, <2>2
<1>4. ASSUME NEW s \in 0..7, NEW l \in 0..31 PROVE M(s, 32 * s + l) = Q(s, l)
  <2>1. 256 * b + (32 * s + l) = 256 * b + 32 * s + l
    OBVIOUS
  <2> QED
    BY <2>1, Zenon
<1>5. DotQ5Q8K(b) = UNION {{P(s, l) : l \in 0..31} \cup {M(s, j) : j \in Sums(s)} : s \in 0..7}
  BY Zenon DEF DotQ5Q8K
<1> HIDE DEF P, M, Q, Sums
<1>6. ASSUME NEW c
      PROVE  c \in DotQ5Q8K(b) <=> \E s \in 0..7 : \/ \E l \in 0..31 : c = P(s, l)
                                                  \/ \E j \in Sums(s) : c = M(s, j)
  BY <1>5
<1>7. ASSUME NEW c, NEW s \in 0..7
      PROVE  (\E j \in Sums(s) : c = M(s, j)) <=> \E l \in 0..31 : c = Q(s, l)
  BY <1>3, <1>4
<1>8. ASSUME NEW c
      PROVE  c \in DotQ5Q8K(b) <=> \E s \in 0..7, l \in 0..31 : c \in Ref(<<b, s, l>>)
  <2>1. c \in DotQ5Q8K(b) <=> \E s \in 0..7 : \/ \E l \in 0..31 : c = P(s, l)
                                            \/ \E l \in 0..31 : c = Q(s, l)
    BY <1>6, <1>7
  <2>2. \A s \in 0..7, l \in 0..31 : c \in Ref(<<b, s, l>>) <=> c = P(s, l) \/ c = Q(s, l)
    BY <1>2
  <2> QED
    BY <2>1, <2>2
<1> QED
  BY <1>1, <1>8 DEF ReadsBlock

LEMMA SlotQ6 ==
  ASSUME WalkOk, Fmt = "Q6_K", NEW b \in Nat, NEW h \in 0..1, NEW l \in 0..31
  PROVE  \A c : c \in Q6Slot(b, h, l) <=> \E q \in 1..4 : c \in Ref(<<b, 4 * h + (q - 1), l>>)
<1> DEFINE E(q) == LET w == Quads(q, l)
                   IN Scaled(256 * b + 128 * h + l + w[1], F16(Block(b) + 208),
                        Bits(Block(b) + 192 + 8 * h + (l \div 16) + 2 * (q - 1), 0, 8),
                        Bits(Block(b) + 64 * h + w[2], w[3], w[4])
                          \o Bits(Block(b) + 128 + 32 * h + l, w[5], w[5] + 2), 32)
<1>1. ASSUME NEW q \in 1..4 PROVE Ref(<<b, 4 * h + (q - 1), l>>) = {E(q)}
  <2> DEFINE s == 4 * h + (q - 1)
  <2>1. s \in 0..7 /\ s \div 4 = h /\ s % 4 = q - 1
    OBVIOUS
  <2>2. Quads(q, l)[1] = 32 * (q - 1)
    <3>1. q = 1 \/ q = 2 \/ q = 3 \/ q = 4
      OBVIOUS
    <3> QED
      BY <3>1 DEF Quads
  <2>3. 256 * b + 128 * h + l + Quads(q, l)[1] = 256 * b + 32 * s + l
    BY <2>2
  <2>4. Quant(<<b, s, l>>)
          = Bits(Block(b) + 64 * h + Quads(q, l)[2], Quads(q, l)[3], Quads(q, l)[4])
               \o Bits(Block(b) + 128 + 32 * h + l, Quads(q, l)[5], Quads(q, l)[5] + 2)
    <3> HIDE DEF s
    <3>1. s = 4 * h + (q - 1)
      BY DEF s
    <3> QED
      BY <3>1, QuantQ6, Zenon
  <2> HIDE DEF s
  <2>5. Ref(<<b, s, l>>)
          = {Scaled(256 * b + 32 * s + l, F16(Block(b) + 208),
                    Bits(Block(b) + 192 + 8 * h + (l \div 16) + 2 * (q - 1), 0, 8), Quant(<<b, s, l>>), 32)}
    <3>1. Ref(<<b, s, l>>)
            = {Scaled(256 * b + 32 * s + l, F16(Block(b) + 208),
                      Bits(Block(b) + 192 + 8 * (s \div 4) + (l \div 16) + 2 * (s % 4), 0, 8),
                      Quant(<<b, s, l>>), 32)}
      BY RefQ6
    <3> QED
      BY <2>1, <3>1, Zenon
  <2>6. Ref(<<b, s, l>>) = {E(q)}
    BY <2>3, <2>4, <2>5, Zenon
  <2> QED
    BY <2>6 DEF s
<1>2. Q6Slot(b, h, l) = {E(q) : q \in 1..4}
  BY Zenon DEF Q6Slot
<1> HIDE DEF E
<1> QED
  BY <1>1, <1>2

LEMMA BlockQ6 ==
  ASSUME WalkOk, Fmt = "Q6_K", NEW b \in Nat
  PROVE  ReadsBlock(DequantQ6(b), b) /\ ReadsBlock(RowQ6U8(b), b)
<1>1. Subs = 0..7
  BY DEF Subs
<1>2. ASSUME NEW c
      PROVE  c \in DequantQ6(b) <=> \E h \in 0..1, l \in 0..31 : c \in Q6Slot(b, h, l)
  BY DEF DequantQ6
<1>3. ASSUME NEW c, c \in DequantQ6(b) PROVE \E s \in 0..7, l \in 0..31 : c \in Ref(<<b, s, l>>)
  <2>1. PICK h \in 0..1, l \in 0..31 : c \in Q6Slot(b, h, l)
    BY <1>2, <1>3
  <2>2. PICK q \in 1..4 : c \in Ref(<<b, 4 * h + (q - 1), l>>)
    BY <2>1, SlotQ6
  <2>3. 4 * h + (q - 1) \in 0..7
    OBVIOUS
  <2> QED
    BY <2>2, <2>3
<1>4. ASSUME NEW c, NEW s \in 0..7, NEW l \in 0..31, c \in Ref(<<b, s, l>>) PROVE c \in DequantQ6(b)
  <2>1. PICK h \in 0..1, q \in 1..4 : s = 4 * h + (q - 1)
    <3>1. s \div 4 \in 0..1 /\ (s % 4) + 1 \in 1..4 /\ s = 4 * (s \div 4) + (((s % 4) + 1) - 1)
      OBVIOUS
    <3> QED
      BY <3>1
  <2>2. c \in Q6Slot(b, h, l)
    BY <1>4, <2>1, SlotQ6
  <2> QED
    BY <1>2, <2>2
<1> QED
  BY <1>1, <1>3, <1>4 DEF ReadsBlock, RowQ6U8

LEMMA BlockQ2 ==
  ASSUME WalkOk, Fmt = "Q2_K", NEW b \in Nat
  PROVE  ReadsBlock(DequantQ2(b), b)
<1> DEFINE E(g, j, half, l) ==
      LET is == 8 * g + 2 * j + half
          e  == 256 * b + 128 * g + 32 * j + 16 * half + l
      IN {Scaled(e, F16(Block(b) + 80), Bits(Block(b) + is, 0, 4),
                 Bits(Block(b) + 16 + 32 * g + 16 * half + l, 2 * j, 2 * j + 2), 0),
          Offset(e, F16(Block(b) + 82), Bits(Block(b) + is, 4, 8))}
<1>1. Subs = 0..7
  BY DEF Subs
<1>2. ASSUME NEW g \in 0..1, NEW j \in 0..3, NEW half \in 0..1, NEW l \in 0..15
      PROVE  E(g, j, half, l) = Ref(<<b, 4 * g + j, 16 * half + l>>)
  <2> DEFINE s == 4 * g + j
             m == 16 * half + l
  <2>1. Block(b) \in Nat
    BY BlockIsInt
  <2>2. /\ m \in 0..31 /\ s \in 0..7 /\ s \div 4 = g /\ s % 4 = j /\ m \div 16 = half
        /\ 256 * b + 128 * g + 32 * j + 16 * half + l = 256 * b + 32 * s + m
        /\ Block(b) + 16 + 32 * g + 16 * half + l = Block(b) + 16 + 32 * g + m
    BY <2>1
  <2>3. Quant(<<b, s, m>>) = Bits(Block(b) + 16 + 32 * g + m, 2 * j, 2 * j + 2)
    <3> HIDE DEF m
    <3> QED
      BY <2>2, QuantQ2
  <2> HIDE DEF s, m
  <2>4. LET is == 8 * g + 2 * j + half
        IN Ref(<<b, s, m>>)
             = {Scaled(256 * b + 32 * s + m, F16(Block(b) + 80), Bits(Block(b) + is, 0, 4),
                       Quant(<<b, s, m>>), 0),
                Offset(256 * b + 32 * s + m, F16(Block(b) + 82), Bits(Block(b) + is, 4, 8))}
    BY <2>2, RefQ2
  <2>5. E(g, j, half, l) = Ref(<<b, s, m>>)
    <3> DEFINE e  == 256 * b + 32 * s + m
               is == 8 * g + 2 * j + half
               q  == Bits(Block(b) + 16 + 32 * g + m, 2 * j, 2 * j + 2)
    <3>1. Ref(<<b, s, m>>) = {Scaled(e, F16(Block(b) + 80), Bits(Block(b) + is, 0, 4), q, 0),
                              Offset(e, F16(Block(b) + 82), Bits(Block(b) + is, 4, 8))}
      BY <2>3, <2>4
    <3>2. E(g, j, half, l) = {Scaled(e, F16(Block(b) + 80), Bits(Block(b) + is, 0, 4), q, 0),
                              Offset(e, F16(Block(b) + 82), Bits(Block(b) + is, 4, 8))}
      BY <2>2
    <3> QED
      BY <3>1, <3>2
  <2> QED
    BY <2>5 DEF s, m
<1>4. ASSUME NEW c
      PROVE  c \in DequantQ2(b)
               <=> \E g \in 0..1, j \in 0..3, half \in 0..1, l \in 0..15 :
                     c \in Ref(<<b, 4 * g + j, 16 * half + l>>)
  <2>1. c \in DequantQ2(b)
          <=> \E g \in 0..1, j \in 0..3, half \in 0..1, l \in 0..15 : c \in E(g, j, half, l)
    <3>1. DequantQ2(b) = UNION {E(g, j, half, l) : g \in 0..1, j \in 0..3, half \in 0..1, l \in 0..15}
      BY DEF DequantQ2
    <3> HIDE DEF E
    <3> QED
      BY <3>1
  <2> HIDE DEF E
  <2> QED
    BY <1>2, <2>1
<1>5. ASSUME NEW c, c \in DequantQ2(b) PROVE \E s \in 0..7, l \in 0..31 : c \in Ref(<<b, s, l>>)
  <2>1. PICK g \in 0..1, j \in 0..3, half \in 0..1, l \in 0..15 : c \in Ref(<<b, 4 * g + j, 16 * half + l>>)
    BY <1>4, <1>5
  <2>2. 4 * g + j \in 0..7 /\ 16 * half + l \in 0..31
    OBVIOUS
  <2> QED
    BY <2>1, <2>2
<1>6. ASSUME NEW c, NEW s \in 0..7, NEW l \in 0..31, c \in Ref(<<b, s, l>>) PROVE c \in DequantQ2(b)
  <2>1. /\ s \div 4 \in 0..1 /\ s % 4 \in 0..3 /\ l \div 16 \in 0..1 /\ l % 16 \in 0..15
        /\ s = 4 * (s \div 4) + (s % 4) /\ l = 16 * (l \div 16) + (l % 16)
    OBVIOUS
  <2>2. PICK g \in 0..1, j \in 0..3, half \in 0..1, m \in 0..15 : s = 4 * g + j /\ l = 16 * half + m
    BY <2>1
  <2> QED
    BY <1>4, <1>6, <2>2
<1> QED
  BY <1>1, <1>5, <1>6 DEF ReadsBlock

-----------------------------------------------------------------------------
(* What each unit of a walk reads.                                         *)

LEMMA DequantReads ==
  ASSUME WalkOk, NEW b \in 0..(Blocks - 1)
  PROVE  ReadsRow(Dequant(b), b)
<1>1. Fmt \in Formats /\ b \in Nat
  BY Typed, BlocksAre
<1>2. CASE Fmt = "Q8_0"
  BY <1>2, ElemsQ8 DEF Dequant
<1>3. CASE Fmt = "Q5_0"
  BY <1>1, <1>3, ElemsQ5, BlockReadsRow DEF Dequant
<1>4. CASE Fmt = "Q4_K"
  BY <1>1, <1>4, GroupQ4, BlockReadsRow DEF Dequant
<1>5. CASE Fmt = "Q5_K"
  BY <1>1, <1>5, BlockQ5K, BlockReadsRow DEF Dequant
<1>6. CASE Fmt = "Q6_K"
  BY <1>1, <1>6, BlockQ6, BlockReadsRow DEF Dequant
<1>7. CASE Fmt = "Q2_K"
  BY <1>1, <1>7, BlockQ2, BlockReadsRow DEF Dequant
<1> QED
  BY <1>1, <1>2, <1>3, <1>4, <1>5, <1>6, <1>7 DEF Formats

LEMMA CpuReads ==
  ASSUME WalkOk, ~OnGpu, NEW b \in 0..(Blocks - 1)
  PROVE  ReadsRow(Reads(b), b)
<1>1. Fmt \in Formats /\ walk.impl \in Impls /\ b \in Nat /\ <<Fmt, walk.impl>> \in Implemented
  BY Typed, BlocksAre
<1>2. CASE walk.impl = "dequant"
  BY <1>2, DequantReads DEF Reads
<1>3. CASE walk.impl = "dot"
  <2>1. CASE Fmt = "Q8_0"
    BY <1>3, <2>1, ElemsQ8 DEF Reads, DotBlock
  <2>2. CASE Fmt # "Q8_0"
    BY <1>3, <2>2, DequantReads DEF Reads, DotBlock
  <2> QED
    BY <2>1, <2>2
<1>4. CASE walk.impl = "q8k"
  <2>1. Fmt = "Q5_K"
    BY <1>1, <1>4 DEF Implemented
  <2> QED
    BY <1>1, <1>4, <2>1, DotQ8K, BlockReadsRow DEF Reads
<1>5. CASE walk.impl = "u8"
  <2>1. Fmt \in {"Q8_0", "Q4_K", "Q6_K"}
    BY <1>1, <1>5 DEF Implemented
  <2>2. Reads(b) = RowU8(b)
    BY <1>5 DEF Reads
  <2>3. CASE Fmt = "Q8_0"
    BY <2>2, <2>3, ElemsQ8 DEF RowU8
  <2>4. CASE Fmt = "Q4_K"
    BY <1>1, <2>2, <2>4, GroupQ4, BlockReadsRow DEF RowU8
  <2>5. CASE Fmt = "Q6_K"
    BY <1>1, <2>2, <2>5, BlockQ6, BlockReadsRow DEF RowU8
  <2> QED
    BY <2>1, <2>3, <2>4, <2>5
<1> QED
  BY <1>1, <1>2, <1>3, <1>4, <1>5 DEF Impls, OnGpu

(* The sub-units of a row are its sub-blocks.                              *)
LEMMA SubUnits ==
  ASSUME WalkOk, BlockSize = 256
  PROVE  /\ \A u \in 0..(8 * Blocks - 1) : u \div 8 \in 0..(Blocks - 1) /\ u % 8 \in 0..7 /\ u \in Nat
                                           /\ 8 * (u \div 8) + (u % 8) = u
         /\ \A b \in 0..(Blocks - 1), s \in 0..7 :
              8 * b + s \in 0..(8 * Blocks - 1) /\ (8 * b + s) \div 8 = b /\ (8 * b + s) % 8 = s
<1>1. Blocks \in Nat
  BY BlocksAre
<1>2. ASSUME NEW u \in 0..(8 * Blocks - 1)
      PROVE  u \div 8 \in 0..(Blocks - 1) /\ u % 8 \in 0..7 /\ u \in Nat /\ 8 * (u \div 8) + (u % 8) = u
  BY <1>1
<1>3. ASSUME NEW b \in 0..(Blocks - 1), NEW s \in 0..7
      PROVE  8 * b + s \in 0..(8 * Blocks - 1) /\ (8 * b + s) \div 8 = b /\ (8 * b + s) % 8 = s
  BY <1>1
<1> QED
  BY <1>2, <1>3

LEMMA StridedReads ==
  ASSUME WalkOk, OnGpu, Fmt \in {"Q4_K", "Q5_K"}, NEW lane \in 0..(Lanes - 1), NEW C,
         NEW R, DOMAIN R = 0..(8 * Blocks - 1),
         \A u \in 0..(8 * Blocks - 1) : ReadsSub(R[u], u \div 8, u % 8),
         \A c : c \in C <=> \E u \in Strided(lane, 8 * Blocks) : c \in R[u]
  PROVE  \A c : c \in C <=> \E p \in Places : UnitOf(p) = lane /\ c \in Ref(p)
<1>1. BlockSize = 256 /\ Subs = 0..7 /\ Blocks \in Nat
  BY BlocksAre DEF BlockSize, Subs
<1>2. \A b \in 0..(Blocks - 1), s \in 0..7, l \in 0..31 :
        <<b, s, l>> \in Places /\ UnitOf(<<b, s, l>>) = (8 * b + s) % Lanes
  BY <1>1 DEF Places, UnitOf, OnGpu
<1>3. ASSUME NEW c, c \in C PROVE \E p \in Places : UnitOf(p) = lane /\ c \in Ref(p)
  <2>1. PICK u \in 0..(8 * Blocks - 1) : u % Lanes = lane /\ c \in R[u]
    BY <1>3 DEF Strided
  <2>2. PICK l \in 0..31 : c \in Ref(<<u \div 8, u % 8, l>>)
    BY <2>1 DEF ReadsSub
  <2>3. u \div 8 \in 0..(Blocks - 1) /\ u % 8 \in 0..7 /\ 8 * (u \div 8) + (u % 8) = u
    BY <1>1, SubUnits
  <2>4. <<u \div 8, u % 8, l>> \in Places /\ UnitOf(<<u \div 8, u % 8, l>>) = u % Lanes
    BY <1>2, <2>3
  <2> QED
    BY <2>1, <2>2, <2>4
<1>4. ASSUME NEW c, NEW p \in Places, UnitOf(p) = lane, c \in Ref(p) PROVE c \in C
  <2>1. PICK b \in 0..(Blocks - 1), s \in 0..7, l \in 0..31 : p = <<b, s, l>>
    <3>1. PICK b \in 0..(Blocks - 1), s \in Subs, l \in 0..31 : p = <<b, s, l>>
      BY DEF Places
    <3> QED
      BY <1>1, <3>1
  <2> DEFINE u == 8 * b + s
  <2>2. u \in 0..(8 * Blocks - 1) /\ u \div 8 = b /\ u % 8 = s
    BY <1>1, SubUnits
  <2>3. u % Lanes = lane
    BY <1>2, <1>4, <2>1
  <2> HIDE DEF u
  <2>4. c \in R[u]
    BY <1>4, <2>1, <2>2 DEF ReadsSub
  <2> QED
    BY <2>2, <2>3, <2>4 DEF Strided
<1> QED
  BY <1>3, <1>4

LEMMA GpuReads ==
  ASSUME WalkOk, OnGpu, NEW lane \in 0..(Lanes - 1)
  PROVE  \A c : (c \in Reads(lane) /\ c[2] < N) <=> \E p \in Real : UnitOf(p) = lane /\ c \in Ref(p)
<1>1. /\ Fmt \in {"Q8_0", "Q4_K", "Q5_K", "Q6_K"} /\ walk.impl \in {"gpu", "gpu_coop"}
      /\ walk.impl = "gpu_coop" => Fmt = "Q4_K"
  BY Typed DEF Implemented, OnGpu, Formats
<1>2. Blocks \in Nat /\ Blocks # 0
  BY BlocksAre
<1>3. Reads(lane) = Partial(lane)
  BY <1>1 DEF Reads
<1>4. CASE Fmt = "Q8_0"
  <2>1. Partial(lane) = UNION {RowQ8U8(b) : b \in Strided(lane, Blocks)}
    BY <1>4 DEF Partial, PartialQ8
  <2>2. \A b \in Strided(lane, Blocks) : b \in 0..(Blocks - 1) /\ b % Lanes = lane
    BY DEF Strided
  <2>3. \A b \in 0..(Blocks - 1) : ReadsRow(RowQ8U8(b), b)
    BY <1>4, ElemsQ8
  <2>4. Subs = {0}
    BY <1>4 DEF Subs
  <2>5. \A p : p \in Places => p = <<p[1], p[2], p[3]>> /\ p[1] \in 0..(Blocks - 1) /\ p[2] \in Subs /\ p[3] \in 0..31
    BY DEF Places
  <2>6. \A b \in 0..(Blocks - 1), s \in Subs, l \in 0..31 : <<b, s, l>> \in Places
    BY DEF Places
  <2>7. \A b, s, l : UnitOf(<<b, s, l>>) = b % Lanes
    BY <1>4 DEF UnitOf
  <2>8. ASSUME NEW c, c \in Reads(lane), c[2] < N PROVE \E p \in Real : UnitOf(p) = lane /\ c \in Ref(p)
    <3>1. PICK b \in Strided(lane, Blocks) : c \in RowQ8U8(b)
      BY <1>3, <2>1, <2>8
    <3>2. PICK s \in Subs, l \in 0..31 : Index(<<b, s, l>>) < N /\ c \in Ref(<<b, s, l>>)
      BY <2>2, <2>3, <2>8, <3>1 DEF ReadsRow
    <3>3. <<b, s, l>> \in Real /\ UnitOf(<<b, s, l>>) = lane
      BY <2>2, <2>6, <2>7, <3>1, <3>2 DEF Real
    <3> QED
      BY <3>2, <3>3
  <2>9. ASSUME NEW c, NEW p \in Real, UnitOf(p) = lane, c \in Ref(p) PROVE c \in Reads(lane) /\ c[2] < N
    <3>1. p \in Places /\ Index(p) < N
      BY DEF Real
    <3>2. PICK b \in 0..(Blocks - 1), s \in Subs, l \in 0..31 : p = <<b, s, l>>
      BY <2>5, <3>1
    <3>3. c \in RowQ8U8(b) /\ c[2] < N
      BY <2>3, <2>9, <3>1, <3>2 DEF ReadsRow
    <3>4. b \in Strided(lane, Blocks)
      BY <2>7, <2>9, <3>2 DEF Strided
    <3> QED
      BY <1>3, <2>1, <3>3, <3>4
  <2> QED
    BY <2>8, <2>9
<1>5. ASSUME \A c : c \in Reads(lane) <=> \E p \in Places : UnitOf(p) = lane /\ c \in Ref(p)
      PROVE  \A c : (c \in Reads(lane) /\ c[2] < N) <=> \E p \in Real : UnitOf(p) = lane /\ c \in Ref(p)
  BY <1>5, RefIndex DEF Real
<1>6. CASE Fmt = "Q4_K" /\ walk.impl = "gpu"
  <2> DEFINE R == [u \in 0..(8 * Blocks - 1) |-> Q4Unit(u, WordAddr)]
  <2>1. ASSUME NEW u \in 0..(8 * Blocks - 1) PROVE R[u] = Q4Unit(u, WordAddr)
    BY Zenon
  <2>2. DOMAIN R = 0..(8 * Blocks - 1)
    BY Zenon
  <2>3. ASSUME NEW u \in 0..(8 * Blocks - 1) PROVE ReadsSub(R[u], u \div 8, u % 8)
    <3>1. u \in Nat
      BY <1>2
    <3>2. ReadsSub(Q4Unit(u, WordAddr), u \div 8, u % 8)
      BY <1>6, <3>1, UnitOfQ4, Zenon
    <3> QED
      BY <2>1, <3>2, Zenon
  <2>4. ASSUME NEW c PROVE c \in Reads(lane) <=> \E u \in Strided(lane, 8 * Blocks) : c \in R[u]
    <3>1. Partial(lane) = PartialQ4(lane)
      BY <1>6 DEF Partial
    <3>2. PartialQ4(lane) = UNION {Q4Unit(u, WordAddr) : u \in Strided(lane, 8 * Blocks)}
      BY Zenon DEF PartialQ4
    <3>3. \A u \in Strided(lane, 8 * Blocks) : u \in 0..(8 * Blocks - 1)
      BY DEF Strided
    <3>4. {Q4Unit(u, WordAddr) : u \in Strided(lane, 8 * Blocks)} = {R[u] : u \in Strided(lane, 8 * Blocks)}
      BY <2>1, <3>3, Zenon
    <3> HIDE DEF R
    <3>5. Reads(lane) = UNION {R[u] : u \in Strided(lane, 8 * Blocks)}
      BY <1>3, <3>1, <3>2, <3>4, Zenon
    <3> QED
      BY <3>5
  <2> HIDE DEF R
  <2>5. \A c : c \in Reads(lane) <=> \E p \in Places : UnitOf(p) = lane /\ c \in Ref(p)
    BY <1>6, <2>2, <2>3, <2>4, StridedReads
  <2> QED
    BY <1>5, <2>5
<1>7. CASE Fmt = "Q4_K" /\ walk.impl = "gpu_coop"
  <2> DEFINE R == [u \in 0..(8 * Blocks - 1) |-> Q4Unit(u, ByteAddr)]
  <2>1. ASSUME NEW u \in 0..(8 * Blocks - 1) PROVE R[u] = Q4Unit(u, ByteAddr)
    BY Zenon
  <2>2. DOMAIN R = 0..(8 * Blocks - 1)
    BY Zenon
  <2>3. ASSUME NEW u \in 0..(8 * Blocks - 1) PROVE ReadsSub(R[u], u \div 8, u % 8)
    <3>1. u \in Nat
      BY <1>2
    <3>2. ReadsSub(Q4Unit(u, ByteAddr), u \div 8, u % 8)
      BY <1>7, <3>1, UnitOfQ4, Zenon
    <3> QED
      BY <2>1, <3>2, Zenon
  <2>4. ASSUME NEW c PROVE c \in Reads(lane) <=> \E u \in Strided(lane, 8 * Blocks) : c \in R[u]
    <3>1. Partial(lane) = CoopQ4(lane)
      BY <1>7 DEF Partial
    <3>2. CoopQ4(lane) = UNION {Q4Unit(u, ByteAddr) : u \in Strided(lane, 8 * Blocks)}
      BY Zenon DEF CoopQ4
    <3>3. \A u \in Strided(lane, 8 * Blocks) : u \in 0..(8 * Blocks - 1)
      BY DEF Strided
    <3>4. {Q4Unit(u, ByteAddr) : u \in Strided(lane, 8 * Blocks)} = {R[u] : u \in Strided(lane, 8 * Blocks)}
      BY <2>1, <3>3, Zenon
    <3> HIDE DEF R
    <3>5. Reads(lane) = UNION {R[u] : u \in Strided(lane, 8 * Blocks)}
      BY <1>3, <3>1, <3>2, <3>4, Zenon
    <3> QED
      BY <3>5
  <2> HIDE DEF R
  <2>5. \A c : c \in Reads(lane) <=> \E p \in Places : UnitOf(p) = lane /\ c \in Ref(p)
    BY <1>7, <2>2, <2>3, <2>4, StridedReads
  <2> QED
    BY <1>5, <2>5
<1>8. CASE Fmt = "Q5_K"
  <2> DEFINE R == [u \in 0..(8 * Blocks - 1) |-> Q5Unit(u)]
  <2>1. ASSUME NEW u \in 0..(8 * Blocks - 1) PROVE R[u] = Q5Unit(u) /\ ReadsSub(R[u], u \div 8, u % 8)
    BY <1>2, <1>8, UnitOfQ5K
  <2>2. DOMAIN R = 0..(8 * Blocks - 1)
    BY Zenon
  <2> HIDE DEF R
  <2>3. ASSUME NEW c PROVE c \in Reads(lane) <=> \E u \in Strided(lane, 8 * Blocks) : c \in R[u]
    <3>1. Reads(lane) = UNION {Q5Unit(u) : u \in Strided(lane, 8 * Blocks)}
      BY <1>3, <1>8 DEF Partial, PartialQ5K
    <3>2. \A u \in Strided(lane, 8 * Blocks) : u \in 0..(8 * Blocks - 1)
      BY DEF Strided
    <3>3. c \in Reads(lane) <=> \E u \in Strided(lane, 8 * Blocks) : c \in Q5Unit(u)
      BY <3>1
    <3> QED
      BY <2>1, <3>2, <3>3
  <2>4. \A c : c \in Reads(lane) <=> \E p \in Places : UnitOf(p) = lane /\ c \in Ref(p)
    BY <1>8, <2>1, <2>2, <2>3, StridedReads
  <2> QED
    BY <1>5, <2>4
<1>9. CASE Fmt = "Q6_K"
  <2> DEFINE h == lane \div 32
             l == lane % 32
  <2>1. h \in 0..1 /\ l \in 0..31 /\ lane = 32 * h + l
    BY DEF Lanes
  <2>2. Subs = 0..7
    BY <1>9 DEF Subs
  <2>3. Reads(lane) = UNION {Q6Slot(b, h, l) : b \in 0..(Blocks - 1)}
    BY <1>3, <1>9 DEF Partial, PartialQ6
  <2> HIDE DEF h, l
  <2>4. \A c : c \in Reads(lane)
               <=> \E b \in 0..(Blocks - 1), q \in 1..4 : c \in Ref(<<b, 4 * h + (q - 1), l>>)
    <3>1. \A c : c \in Reads(lane) <=> \E b \in 0..(Blocks - 1) : c \in Q6Slot(b, h, l)
      BY <2>3
    <3>2. \A b \in 0..(Blocks - 1) : b \in Nat
      BY <1>2
    <3> QED
      BY <1>9, <2>1, <3>1, <3>2, SlotQ6
  <2>5. \A b, s, m : UnitOf(<<b, s, m>>) = 32 * (s \div 4) + m
    BY <1>1, <1>9 DEF UnitOf
  <2>6. ASSUME NEW c, c \in Reads(lane) PROVE \E p \in Places : UnitOf(p) = lane /\ c \in Ref(p)
    <3>1. PICK b \in 0..(Blocks - 1), q \in 1..4 : c \in Ref(<<b, 4 * h + (q - 1), l>>)
      BY <2>4, <2>6
    <3>2. 4 * h + (q - 1) \in 0..7 /\ (4 * h + (q - 1)) \div 4 = h
      BY <2>1
    <3>3. <<b, 4 * h + (q - 1), l>> \in Places
      BY <2>1, <2>2, <3>2 DEF Places
    <3> QED
      BY <2>1, <2>5, <3>1, <3>2, <3>3
  <2>7. ASSUME NEW c, NEW p \in Places, UnitOf(p) = lane, c \in Ref(p) PROVE c \in Reads(lane)
    <3>1. PICK b \in 0..(Blocks - 1), s \in 0..7, m \in 0..31 : p = <<b, s, m>>
      BY <2>2 DEF Places
    <3>2. 32 * (s \div 4) + m = 32 * h + l
      BY <2>1, <2>5, <2>7, <3>1
    <3>3. s \div 4 = h /\ m = l /\ (s % 4) + 1 \in 1..4 /\ s = 4 * h + (((s % 4) + 1) - 1)
      BY <2>1, <3>2
    <3> QED
      BY <2>4, <2>7, <3>1, <3>3
  <2> QED
    BY <1>5, <2>6, <2>7
<1> QED
  BY <1>1, <1>4, <1>6, <1>7, <1>8, <1>9

(* Every walk: a unit contributes exactly what the elements it owns are    *)
(* made of.                                                                *)
LEMMA ReadsAre ==
  ASSUME WalkOk, NEW u \in 0..(Units - 1)
  PROVE  \A c : (c \in Reads(u) /\ c[2] < N) <=> \E p \in Real : UnitOf(p) = u /\ c \in Ref(p)
<1>1. CASE OnGpu
  BY <1>1, GpuReads DEF Units
<1>2. CASE ~OnGpu
  <2>1. u \in 0..(Blocks - 1)
    BY <1>2 DEF Units
  <2>2. ReadsRow(Reads(u), u)
    BY <1>2, <2>1, CpuReads
  <2>3. \A p : UnitOf(p) = p[1]
    BY <1>2 DEF UnitOf, OnGpu
  <2>4. ASSUME NEW c
        PROVE  (\E s \in Subs, l \in 0..31 : Index(<<u, s, l>>) < N /\ c \in Ref(<<u, s, l>>))
                 <=> \E p \in Real : UnitOf(p) = u /\ c \in Ref(p)
    <3>1. ASSUME NEW s \in Subs, NEW l \in 0..31, Index(<<u, s, l>>) < N, c \in Ref(<<u, s, l>>)
          PROVE  \E p \in Real : UnitOf(p) = u /\ c \in Ref(p)
      <4>1. <<u, s, l>> \in Real
        BY <2>1, <3>1 DEF Real, Places
      <4> QED
        BY <2>3, <3>1, <4>1
    <3>2. ASSUME NEW p \in Real, UnitOf(p) = u, c \in Ref(p)
          PROVE  \E s \in Subs, l \in 0..31 : Index(<<u, s, l>>) < N /\ c \in Ref(<<u, s, l>>)
      <4>1. PICK b \in 0..(Blocks - 1), s \in Subs, l \in 0..31 : p = <<b, s, l>>
        BY DEF Real, Places
      <4>2. b = u /\ Index(p) < N
        BY <2>3, <3>2, <4>1 DEF Real
      <4> QED
        BY <3>2, <4>1, <4>2
    <3> QED
      BY <3>1, <3>2
  <2> QED
    BY <2>2, <2>4 DEF ReadsRow
<1> QED
  BY <1>1, <1>2

-----------------------------------------------------------------------------
(* The steps.                                                              *)

(* What is made of a walk stays as long as the walk does.                  *)
LEMMA Frozen ==
  ASSUME walk' = walk
  PROVE  Units' = Units /\ \A k : Made(k)' = Made(k)
<1>1. Fmt' = Fmt /\ N' = N /\ OnGpu' = OnGpu
  BY DEF Fmt, N, OnGpu
<1>2. BlockSize' = BlockSize /\ StructBytes' = StructBytes /\ BlockBytes' = BlockBytes /\ QuantWidth' = QuantWidth
  BY <1>1 DEF BlockSize, StructBytes, BlockBytes, QuantWidth
<1>3. Blocks' = Blocks /\ TypeSize' = TypeSize
  BY <1>1, <1>2 DEF Blocks, TypeSize
<1>4. FileRow' = FileRow /\ RowWords' = RowWords
  BY <1>2, <1>3 DEF FileRow, RowWords
<1>5. RowBase' = RowBase
  BY <1>1, <1>3, <1>4 DEF RowBase
<1>6. \A a : InFile(a)' = InFile(a)
  BY <1>4 DEF InFile
<1>7. \A a : ByteAt(a)' = ByteAt(a)
  BY <1>1, <1>3, <1>4, <1>5 DEF ByteAt, InWords, InFile
<1>8. \A b : Block(b)' = Block(b)
  BY <1>2 DEF Block
<1>9. Subs' = Subs /\ \A p : Index(p)' = Index(p) /\ UnitOf(p)' = UnitOf(p)
  BY <1>1, <1>2 DEF Subs, Index, UnitOf
<1>10. Real' = Real
  BY <1>1, <1>3, <1>9 DEF Real, Places
<1>11. ASSUME NEW p, NEW k PROVE QuantBit(p, k)' = QuantBit(p, k)
  <2>1. Block(p[1])' = Block(p[1])
    BY <1>8
  <2> QED
    BY <1>1, <2>1, Zenon DEF QuantBit
<1>12. \A p : Quant(p)' = Quant(p)
  BY <1>2, <1>11 DEF Quant
<1>13. \A p : Ref(p)' = Ref(p)
  BY <1>1, <1>8, <1>9, <1>12 DEF Ref
<1>14. \A c : LoadedAt(c)' = LoadedAt(c)
  BY <1>7 DEF LoadedAt, Loaded, Held
<1>15. \A k : Made(k)' = Made(k)
  BY <1>9, <1>10, <1>13, <1>14 DEF Made
<1>16. Units' = Units
  BY <1>1, <1>3 DEF Units
<1> QED
  BY <1>15, <1>16

LEMMA UnitInRange ==
  ASSUME WalkOk, NEW p \in Real
  PROVE  UnitOf(p) \in 0..(Units - 1)
<1>1. Blocks \in Nat /\ Lanes = 64
  BY BlocksAre DEF Lanes
<1>2. PICK b \in 0..(Blocks - 1), s \in Subs, l \in 0..31 : p = <<b, s, l>>
  BY DEF Real, Places
<1>3. s \in 0..7
  BY DEF Subs
<1>4. CASE ~OnGpu
  BY <1>1, <1>2, <1>4 DEF UnitOf, Units, OnGpu
<1>5. CASE OnGpu
  <2>1. Fmt \in {"Q8_0", "Q4_K", "Q5_K", "Q6_K"}
    BY <1>5, Typed DEF Implemented, OnGpu, Formats
  <2>2. Units = 64
    BY <1>1, <1>5 DEF Units
  <2>3. b % 64 \in 0..63 /\ (8 * b + s) % 64 \in 0..63 /\ 32 * (s \div 4) + l \in 0..63
    BY <1>1, <1>3
  <2>4. UnitOf(p) \in {b % 64, (8 * b + s) % 64, 32 * (s \div 4) + l}
    BY <1>1, <1>2, <1>5, <2>1 DEF UnitOf
  <2> QED
    BY <2>2, <2>3, <2>4
<1> QED
  BY <1>4, <1>5

LEMMA MadeMember ==
  ASSUME NEW k, NEW x
  PROVE  x \in Made(k) <=> \E p \in Real : UnitOf(p) < k /\ \E c \in Ref(p) : x = <<UnitOf(p), LoadedAt(c)>>
  BY DEF Made

LEMMA MadeStep ==
  ASSUME WalkOk, NEW u \in 0..(Units - 1)
  PROVE  Made(u + 1) = Made(u) \cup {<<u, c>> : c \in Contributions(u)}
<1>1. ASSUME NEW x
      PROVE  x \in {<<u, c>> : c \in Contributions(u)}
               <=> \E p \in Real : UnitOf(p) = u /\ \E c \in Ref(p) : x = <<UnitOf(p), LoadedAt(c)>>
  <2>1. Contributions(u) = {LoadedAt(c) : c \in {d \in Reads(u) : d[2] < N}}
    BY Zenon DEF Contributions, LoadedAt
  <2>2. x \in {<<u, c>> : c \in Contributions(u)}
          <=> \E d : (d \in Reads(u) /\ d[2] < N) /\ x = <<u, LoadedAt(d)>>
    BY <2>1
  <2>3. \A d : (d \in Reads(u) /\ d[2] < N) <=> \E p \in Real : UnitOf(p) = u /\ d \in Ref(p)
    BY ReadsAre
  <2> QED
    BY <2>2, <2>3
<1>2. \A p \in Real : UnitOf(p) < u + 1 <=> (UnitOf(p) < u \/ UnitOf(p) = u)
  BY UnitInRange
<1>3. ASSUME NEW x PROVE x \in Made(u + 1) <=> x \in Made(u) \/ x \in {<<u, c>> : c \in Contributions(u)}
  BY <1>1, <1>2, MadeMember
<1> QED
  BY <1>3

(* The contributions collected are those of the units walked, and those    *)
(* are what the elements they own are made of.                             *)
THEOREM RowInductive == RowSpec => []RowInv
<1>1. RowInit => RowInv
  <2> SUFFICES ASSUME RowInit PROVE RowInv
    OBVIOUS
  <2>1. WalkOk /\ unit = 0 /\ acc = {} /\ stage = "row_view" /\ walk \in Walks
    BY DEF RowInit, WalkOk
  <2>2. Units \in Nat
    BY <2>1, BlocksAre DEF Units, Lanes
  <2>3. \A p \in Real : ~(UnitOf(p) < 0)
    BY <2>1, UnitInRange
  <2>4. \A x : x \notin Made(0)
    BY <2>3, MadeMember
  <2> QED
    BY <2>1, <2>2, <2>4 DEF RowInv
<1>2. RowInv /\ [RowNext]_rowVars => RowInv'
  <2> SUFFICES ASSUME RowInv, [RowNext]_rowVars PROVE RowInv'
    OBVIOUS
  <2>1. /\ walk \in Walks /\ unit \in 0..Units /\ acc = Made(unit) /\ WalkOk
        /\ stage = "done" => unit = Units
    BY DEF RowInv, WalkOk
  <2>2. Units \in Nat
    BY <2>1, BlocksAre DEF Units, Lanes
  <2>3. ASSUME walk' = walk, unit' = unit, acc' = acc, stage' = "done" => unit = Units
        PROVE  RowInv'
    <3>1. Units' = Units /\ Made(unit)' = Made(unit)
      BY <2>3, Frozen
    <3> QED
      BY <2>1, <2>3, <3>1 DEF RowInv
  <2>4. CASE RowView
    BY <2>3, <2>4 DEF RowView
  <2>5. CASE Reject
    BY <2>3, <2>5 DEF Reject
  <2>6. CASE Unit
    <3>1. walk' = walk /\ stage' = "walking" /\ unit' = unit + 1 /\ unit < Units
      BY <2>6 DEF Unit
    <3>2. acc' = Made(unit + 1)
      <4>1. unit \in 0..(Units - 1)
        BY <2>1, <2>2, <3>1
      <4> QED
        BY <2>1, <2>6, <4>1, MadeStep DEF Unit
    <3>3. Units' = Units /\ \A k : Made(k)' = Made(k)
      BY <3>1, Frozen
    <3> QED
      BY <2>1, <2>2, <3>1, <3>2, <3>3 DEF RowInv
  <2>7. CASE SlicePanic
    BY <2>3, <2>7 DEF SlicePanic
  <2>8. CASE Finish
    BY <2>3, <2>8 DEF Finish
  <2>9. CASE UNCHANGED rowVars
    BY <2>1, <2>3, <2>9 DEF rowVars
  <2> QED
    BY <2>4, <2>5, <2>6, <2>7, <2>8, <2>9 DEF RowNext
<1> QED
  BY <1>1, <1>2, PTL DEF RowSpec

-----------------------------------------------------------------------------
(* Elements and their places.                                              *)

PlaceOf(e) == <<e \div BlockSize, (e % BlockSize) \div 32, e % 32>>

LEMMA PlaceIsReal ==
  ASSUME WalkOk, NEW e \in Elements
  PROVE  PlaceOf(e) \in Real /\ Index(PlaceOf(e)) = e
<1>1. /\ N \in Nat \ {0} /\ Blocks \in Nat \ {0} /\ BlockSize \in {32, 256} /\ N <= Blocks * BlockSize
      /\ e \in Nat /\ e < N
  BY Typed, BlocksAre DEF Elements
<1>2. Subs = IF BlockSize = 32 THEN {0} ELSE 0..7
  BY DEF Subs, BlockSize
<1>3. CASE BlockSize = 32
  <2>1. /\ e \div 32 \in 0..(Blocks - 1) /\ (e % 32) \div 32 = 0 /\ e % 32 \in 0..31
        /\ 32 * (e \div 32) + 32 * 0 + (e % 32) = e
    BY <1>1, <1>3
  <2>2. PlaceOf(e) = <<e \div 32, 0, e % 32>>
    BY <1>3, <2>1 DEF PlaceOf
  <2> QED
    BY <1>1, <1>2, <1>3, <2>1, <2>2 DEF Real, Places, Index
<1>4. CASE BlockSize = 256
  <2>1. /\ e \div 256 \in 0..(Blocks - 1) /\ (e % 256) \div 32 \in 0..7 /\ e % 32 \in 0..31
        /\ 256 * (e \div 256) + 32 * ((e % 256) \div 32) + (e % 32) = e
    BY <1>1, <1>4
  <2>2. PlaceOf(e) = <<e \div 256, (e % 256) \div 32, e % 32>>
    BY <1>4 DEF PlaceOf
  <2> QED
    BY <1>1, <1>2, <1>4, <2>1, <2>2 DEF Real, Places, Index
<1> QED
  BY <1>1, <1>3, <1>4

LEMMA RealIsPlace ==
  ASSUME WalkOk, NEW p \in Real
  PROVE  /\ Index(p) \in Elements /\ PlaceOf(Index(p)) = p /\ Index(p) \div BlockSize = p[1]
         /\ p = <<p[1], p[2], p[3]>> /\ p[1] \in 0..(Blocks - 1) /\ p[2] \in Subs /\ p[3] \in 0..31
<1>1. N \in Nat \ {0} /\ Blocks \in Nat \ {0} /\ BlockSize \in {32, 256}
  BY Typed, BlocksAre
<1>2. Subs = IF BlockSize = 32 THEN {0} ELSE 0..7
  BY DEF Subs, BlockSize
<1>3. PICK b \in 0..(Blocks - 1), s \in Subs, l \in 0..31 : p = <<b, s, l>>
  BY DEF Real, Places
<1>4. Index(p) = BlockSize * b + 32 * s + l /\ Index(p) < N
  BY <1>3 DEF Real, Index
<1>5. CASE BlockSize = 32
  <2>1. s = 0
    BY <1>2, <1>5
  <2> DEFINE i == 32 * b + 32 * s + l
  <2>2. i \in Nat /\ i \div 32 = b /\ i % 32 = l /\ (i % 32) \div 32 = 0
    BY <1>1, <2>1
  <2>3. Index(p) = i
    BY <1>4, <1>5
  <2> HIDE DEF i
  <2> QED
    BY <1>1, <1>3, <1>4, <1>5, <2>1, <2>2, <2>3 DEF Elements, PlaceOf
<1>6. CASE BlockSize = 256
  <2>1. s \in 0..7
    BY <1>2, <1>6
  <2> DEFINE i == 256 * b + 32 * s + l
  <2>2. i \in Nat /\ i \div 256 = b /\ i % 32 = l /\ (i % 256) \div 32 = s
    BY <1>1, <2>1
  <2>3. Index(p) = i
    BY <1>4, <1>6
  <2> HIDE DEF i
  <2> QED
    BY <1>1, <1>3, <1>4, <1>6, <2>1, <2>2, <2>3 DEF Elements, PlaceOf
<1> QED
  BY <1>1, <1>5, <1>6

-----------------------------------------------------------------------------
(* Once for each element.                                                  *)

PosOf(p) == CHOOSE c \in Ref(p) : c[1] = "pos"
MinOf(p) == CHOOSE c \in Ref(p) : c[1] = "min"

LEMMA KindsDiffer ==
  /\ \A e, d, sc, q, bias : Scaled(e, d, sc, q, bias)[1] = "pos"
  /\ \A e, d, m : Offset(e, d, m)[1] = "min"
  BY DEF Scaled, Offset

LEMMA RefKinds ==
  ASSUME WalkOk, NEW p
  PROVE  /\ Ref(p) = IF HasMin THEN {PosOf(p), MinOf(p)} ELSE {PosOf(p)}
         /\ PosOf(p)[1] = "pos"
         /\ HasMin => MinOf(p)[1] = "min"
<1>1. Fmt \in Formats
  BY Typed
<1>2. CASE HasMin
  <2>1. PICK c, d : Ref(p) = {c, d} /\ c[1] = "pos" /\ d[1] = "min"
    <3> DEFINE a == Block(p[1])
    <3>1. CASE Fmt \in {"Q4_K", "Q5_K"}
      <4> DEFINE k == GetScaleMinK4(p[2], a + 4)
      <4>1. Ref(p) = {Scaled(Index(p), F16(a), k.sc, Quant(p), 0), Offset(Index(p), F16(a + 2), k.m)}
        BY <3>1 DEF Ref, Both
      <4> QED
        BY <4>1, KindsDiffer
    <3>2. CASE Fmt = "Q2_K"
      <4> DEFINE is == 8 * (p[2] \div 4) + 2 * (p[2] % 4) + (p[3] \div 16)
      <4>1. Ref(p) = {Scaled(Index(p), F16(a + 80), Bits(a + is, 0, 4), Quant(p), 0),
                      Offset(Index(p), F16(a + 82), Bits(a + is, 4, 8))}
        BY <3>2 DEF Ref
      <4> QED
        BY <4>1, KindsDiffer
    <3> QED
      BY <1>2, <3>1, <3>2 DEF HasMin
  <2> QED
    BY <1>2, <2>1 DEF PosOf, MinOf
<1>3. CASE ~HasMin
  <2>1. PICK c : Ref(p) = {c} /\ c[1] = "pos"
    <3>1. Fmt \in {"Q8_0", "Q5_0", "Q6_K"}
      BY <1>1, <1>3 DEF HasMin, Formats
    <3> DEFINE a == Block(p[1])
    <3>2. CASE Fmt = "Q8_0"
      <4>1. Ref(p) = {Scaled(Index(p), F16(a), <<>>, Quant(p), 0)}
        BY <3>2 DEF Ref
      <4> QED
        BY <4>1, KindsDiffer
    <3>3. CASE Fmt = "Q5_0"
      <4>1. Ref(p) = {Scaled(Index(p), F16(a), <<>>, Quant(p), 16)}
        BY <3>3 DEF Ref
      <4> QED
        BY <4>1, KindsDiffer
    <3>4. CASE Fmt = "Q6_K"
      <4>1. Ref(p) = {Scaled(Index(p), F16(a + 208),
                             Bits(a + 192 + 8 * (p[2] \div 4) + (p[3] \div 16) + 2 * (p[2] % 4), 0, 8),
                             Quant(p), 32)}
        BY <3>4 DEF Ref
      <4> QED
        BY <4>1, KindsDiffer
    <3> QED
      BY <3>1, <3>2, <3>3, <3>4
  <2> QED
    BY <1>3, <2>1 DEF PosOf
<1> QED
  BY <1>2, <1>3

LEMMA LoadedKeeps ==
  ASSUME NEW c, c[1] \in {"pos", "min"}
  PROVE  LoadedAt(c)[1] = c[1] /\ LoadedAt(c)[2] = c[2]
  BY DEF LoadedAt, Loaded, Scaled, Offset

(* What the elements of a row are made of, when it has been walked.        *)
LEMMA AtTheEnd ==
  ASSUME RowInv, stage = "done"
  PROVE  /\ WalkOk
         /\ \A x : x \in acc <=>
              \E e \in Elements :
                \/ x = <<UnitOf(PlaceOf(e)), LoadedAt(PosOf(PlaceOf(e)))>>
                \/ HasMin /\ x = <<UnitOf(PlaceOf(e)), LoadedAt(MinOf(PlaceOf(e)))>>
<1>1. WalkOk /\ unit = Units /\ acc = Made(Units)
  BY DEF RowInv, WalkOk
<1>2. \A p \in Real : UnitOf(p) < Units
  <2>1. Units \in Nat
    BY <1>1, BlocksAre DEF Units, Lanes
  <2> QED
    BY <1>1, <2>1, UnitInRange
<1>3. ASSUME NEW x PROVE x \in acc <=> \E p \in Real : \E c \in Ref(p) : x = <<UnitOf(p), LoadedAt(c)>>
  BY <1>1, <1>2, MadeMember
<1>4. ASSUME NEW x, NEW p
      PROVE  (\E c \in Ref(p) : x = <<UnitOf(p), LoadedAt(c)>>)
               <=> (\/ x = <<UnitOf(p), LoadedAt(PosOf(p))>>
                    \/ HasMin /\ x = <<UnitOf(p), LoadedAt(MinOf(p))>>)
  BY <1>1, RefKinds
<1>5. ASSUME NEW x
      PROVE  x \in acc <=>
               \E p \in Real :
                 \/ x = <<UnitOf(p), LoadedAt(PosOf(p))>>
                 \/ HasMin /\ x = <<UnitOf(p), LoadedAt(MinOf(p))>>
  BY <1>3, <1>4
<1>6. \A e \in Elements : PlaceOf(e) \in Real
  BY <1>1, PlaceIsReal
<1>7. \A p \in Real : Index(p) \in Elements /\ PlaceOf(Index(p)) = p
  BY <1>1, RealIsPlace
<1> QED
  BY <1>1, <1>5, <1>6, <1>7

(* A set with one member for each element of the row has N of them.        *)
LEMMA OneEach ==
  ASSUME WalkOk, NEW f, DOMAIN f = Elements, NEW S, S = {f[e] : e \in Elements},
         \A e \in Elements, i \in Elements : f[e] = f[i] => e = i
  PROVE  IsFiniteSet(S) /\ Cardinality(S) = N
<1> DEFINE g == [e \in Elements |-> f[e]]
<1>1. N \in Nat \ {0}
  BY Typed
<1>2. IsFiniteSet(Elements) /\ Cardinality(Elements) = N
  <2>1. IsFiniteSet(0..(N - 1)) /\ Cardinality(0..(N - 1)) = IF 0 > N - 1 THEN 0 ELSE N - 1 - 0 + 1
    BY <1>1, FS_Interval
  <2> QED
    BY <1>1, <2>1 DEF Elements
<1>3. g \in Bijection(Elements, S)
  BY DEF Bijection, Injection, Surjection, IsInjective
<1>4. ExistsBijection(Elements, S)
  BY <1>3 DEF ExistsBijection
<1> QED
  BY <1>2, <1>4, FS_Bijection

LEMMA CountedOnce ==
  ASSUME RowInv
  PROVE  OncePerElement
<1> SUFFICES ASSUME stage = "done"
             PROVE  /\ Cardinality(acc) = (IF HasMin THEN 2 ELSE 1) * N
                    /\ {c[2] : c \in {d \in Summed : d[1] = "pos"}} = Elements
                    /\ HasMin => {c[2] : c \in {d \in Summed : d[1] = "min"}} = Elements
  BY DEF OncePerElement
<1> DEFINE PosAt(e) == <<UnitOf(PlaceOf(e)), LoadedAt(PosOf(PlaceOf(e)))>>
           MinAt(e) == <<UnitOf(PlaceOf(e)), LoadedAt(MinOf(PlaceOf(e)))>>
           Quants == {PosAt(e) : e \in Elements}
           Mins   == {MinAt(e) : e \in Elements}
<1>1. WalkOk /\ N \in Nat
  BY AtTheEnd, Typed
<1>2. \A x : x \in acc <=> \E e \in Elements : x = PosAt(e) \/ (HasMin /\ x = MinAt(e))
  BY AtTheEnd
<1>3. ASSUME NEW e \in Elements
      PROVE  /\ PosAt(e)[2][1] = "pos" /\ PosAt(e)[2][2] = e
             /\ HasMin => MinAt(e)[2][1] = "min" /\ MinAt(e)[2][2] = e
  <2> DEFINE p == PlaceOf(e)
  <2>1. Index(p) = e
    BY <1>1, PlaceIsReal
  <2> HIDE DEF p
  <2>2. PosOf(p) \in Ref(p) /\ PosOf(p)[1] = "pos" /\ (HasMin => MinOf(p) \in Ref(p) /\ MinOf(p)[1] = "min")
    BY <1>1, RefKinds
  <2>3. PosOf(p)[2] = e /\ (HasMin => MinOf(p)[2] = e)
    BY <1>1, <2>1, <2>2, RefIndex
  <2>4. /\ LoadedAt(PosOf(p))[1] = "pos" /\ LoadedAt(PosOf(p))[2] = e
        /\ HasMin => LoadedAt(MinOf(p))[1] = "min" /\ LoadedAt(MinOf(p))[2] = e
    BY <2>2, <2>3, LoadedKeeps
  <2> QED
    BY <2>4 DEF p
<1> HIDE DEF PosAt, MinAt
<1>4. acc = IF HasMin THEN Quants \cup Mins ELSE Quants
  <2>1. \A x : x \in acc <=> x \in (IF HasMin THEN Quants \cup Mins ELSE Quants)
    BY <1>2
  <2> QED
    BY <2>1
<1>5. IsFiniteSet(Quants) /\ Cardinality(Quants) = N
  <2> DEFINE f == [e \in Elements |-> PosAt(e)]
  <2>1. DOMAIN f = Elements /\ \A e \in Elements, i \in Elements : f[e] = f[i] => e = i
    BY <1>3
  <2>2. {f[e] : e \in Elements} = Quants
    OBVIOUS
  <2> HIDE DEF f
  <2> QED
    BY <1>1, <2>1, <2>2, OneEach
<1>6. ASSUME HasMin PROVE IsFiniteSet(Mins) /\ Cardinality(Mins) = N
  <2> DEFINE f == [e \in Elements |-> MinAt(e)]
  <2>1. DOMAIN f = Elements /\ \A e \in Elements, i \in Elements : f[e] = f[i] => e = i
    BY <1>3, <1>6
  <2>2. {f[e] : e \in Elements} = Mins
    OBVIOUS
  <2> HIDE DEF f
  <2> QED
    BY <1>1, <2>1, <2>2, OneEach
<1>7. Cardinality(acc) = (IF HasMin THEN 2 ELSE 1) * N
  <2>1. CASE HasMin
    <3>1. Quants \cap Mins = {}
      BY <1>3, <2>1
    <3>2. Cardinality({}) = 0
      BY FS_EmptySet
    <3> HIDE DEF Quants, Mins
    <3>3. Cardinality(Quants \cup Mins) = N + N - 0
      BY <1>5, <1>6, <2>1, <3>1, <3>2, FS_Union
    <3> QED
      BY <1>1, <1>4, <2>1, <3>3
  <2>2. CASE ~HasMin
    BY <1>1, <1>4, <1>5, <2>2
  <2> QED
    BY <2>1, <2>2
<1>8. ASSUME NEW c
      PROVE  c \in Summed <=> \E e \in Elements : c = PosAt(e)[2] \/ (HasMin /\ c = MinAt(e)[2])
  BY <1>2 DEF Summed
<1>9. {c[2] : c \in {d \in Summed : d[1] = "pos"}} = Elements
  <2>1. ASSUME NEW c \in Summed, c[1] = "pos" PROVE c[2] \in Elements
    BY <1>3, <1>8, <2>1
  <2>2. ASSUME NEW e \in Elements PROVE \E c \in Summed : c[1] = "pos" /\ c[2] = e
    BY <1>3, <1>8
  <2> QED
    BY <2>1, <2>2
<1>10. ASSUME HasMin PROVE {c[2] : c \in {d \in Summed : d[1] = "min"}} = Elements
  <2>1. ASSUME NEW c \in Summed, c[1] = "min" PROVE c[2] \in Elements
    BY <1>3, <1>8, <2>1
  <2>2. ASSUME NEW e \in Elements PROVE \E c \in Summed : c[1] = "min" /\ c[2] = e
    BY <1>3, <1>8, <1>10
  <2> QED
    BY <2>1, <2>2
<1> QED
  BY <1>7, <1>9, <1>10

(* Whatever the format, the loop, the length of the row and the rest left  *)
(* for its last block: the dequantizers, the fused dots, the byte kernels  *)
(* and the lanes of a GPU workgroup meet every element of the row once, in *)
(* the sum of the quants and in that of the minima.                        *)
THEOREM EveryElementOnce == RowSpec => []OncePerElement
  BY RowInductive, CountedOnce, PTL

-----------------------------------------------------------------------------
(* The bytes of a row.                                                     *)

(* Byte x of block b, relative to the base of the row.                     *)
LEMMA ByteOfBlock ==
  ASSUME WalkOk, NEW b \in 0..(Blocks - 1), NEW x \in 0..(StructBytes - 1)
  PROVE  Block(b) + x \in 0..(FileRow - 1)
<1>1. Blocks \in Nat /\ StructBytes \in Nat \ {0} /\ b \in Nat /\ b + 1 \in Nat /\ b + 1 <= Blocks
  BY BlocksAre
<1> DEFINE s == StructBytes
<1>2. s \in Nat /\ Blocks \in Nat /\ b \in Nat
  BY <1>1
<1>3. Block(b) = b * s /\ FileRow = Blocks * s
  BY DEF Block, FileRow
<1> HIDE DEF s
<1>4. (b + 1) * s <= Blocks * s
  BY <1>1, <1>2, Monotone
<1>5. (b + 1) * s = b * s + s /\ b * s \in Nat /\ Blocks * s \in Nat
  BY <1>2
<1>6. x \in Nat /\ x < s
  BY <1>1 DEF s
<1> QED
  BY <1>2, <1>3, <1>4, <1>5, <1>6

(* A memory holds the bytes of the walk's own row at their addresses.      *)
OwnRow == \A a \in 0..(FileRow - 1) : ByteAt(a) = <<walk.row, a>>

(* The one format whose block is taken to be larger than it is: only its   *)
(* first row is where the row view looks for it.                           *)
FirstRowOfQ2K == \A w \in Walks : w.fmt = "Q2_K" => w.row = 0

LEMMA RowSizes ==
  ASSUME WalkOk
  PROVE  /\ FileRow \in Nat \ {0} /\ TypeSize \in Nat \ {0}
         /\ Fmt # "Q2_K" => TypeSize = FileRow
         /\ RowWords \in Nat \ {0} /\ TypeSize <= 4 * RowWords
<1>1. Blocks \in Nat \ {0} /\ StructBytes \in Nat \ {0} /\ BlockBytes \in Nat \ {0} /\ Fmt \in Formats
  BY BlocksAre, Typed
<1>2. TypeSize = Blocks * BlockBytes /\ FileRow = Blocks * StructBytes
  BY DEF TypeSize, FileRow, Blocks
<1>3. Fmt # "Q2_K" => BlockBytes = StructBytes
  BY <1>1 DEF BlockBytes, StructBytes, Formats
<1>4. FileRow \in Nat \ {0} /\ TypeSize \in Nat \ {0}
  BY <1>1, <1>2
<1>5. RowWords = (TypeSize + 4 - 1) \div 4
  BY DEF RowWords, CeilDiv
<1>6. RowWords \in Nat \ {0} /\ TypeSize <= 4 * RowWords
  BY <1>4, <1>5
<1> QED
  BY <1>2, <1>3, <1>4, <1>6

LEMMA RowIsOwn ==
  ASSUME WalkOk, FirstRowOfQ2K
  PROVE  OwnRow
<1> SUFFICES ASSUME NEW a \in 0..(FileRow - 1) PROVE ByteAt(a) = <<walk.row, a>>
  BY DEF OwnRow
<1> DEFINE r == walk.row
           w == 4 * RowWords
<1>1. r \in Nat /\ <<Fmt, walk.impl>> \in Implemented /\ a \in Nat
  BY Typed, RowSizes
<1>2. /\ FileRow \in Nat \ {0} /\ TypeSize \in Nat \ {0} /\ RowWords \in Nat \ {0}
      /\ TypeSize <= w /\ w \in Nat \ {0} /\ (Fmt # "Q2_K" => TypeSize = FileRow)
  BY RowSizes
<1>3. \A q \in Nat : InFile(q * FileRow + a) = <<q, a>>
  BY <1>2, DivisionIsUnique DEF InFile
<1>4. CASE Fmt = "Q2_K"
  <2>1. ~OnGpu
    BY <1>1, <1>4 DEF OnGpu, Implemented
  <2>2. r = 0
    BY <1>4 DEF FirstRowOfQ2K, WalkOk, Fmt
  <2>3. RowBase + a = 0 * FileRow + a
    BY <1>1, <1>2, <2>1, <2>2 DEF RowBase
  <2> QED
    BY <1>3, <2>1, <2>2, <2>3 DEF ByteAt
<1>5. CASE Fmt # "Q2_K" /\ ~OnGpu
  <2>1. RowBase + a = r * FileRow + a
    BY <1>2, <1>5 DEF RowBase
  <2> QED
    BY <1>1, <1>3, <1>5, <2>1 DEF ByteAt
<1>6. CASE Fmt # "Q2_K" /\ OnGpu
  <2>1. RowBase = r * w
    <3>1. RowBase = r * (RowWords * 4) /\ RowWords * 4 = w
      BY <1>2, <1>6 DEF RowBase
    <3> QED
      BY <3>1
  <2>2. a \in 0..(w - 1) /\ a < TypeSize
    BY <1>1, <1>2, <1>6
  <2>3. (r * w + a) \div w = r /\ (r * w + a) % w = a
    BY <1>1, <1>2, <2>2, DivisionIsUnique
  <2>4. ByteAt(a) = InWords(r * w + a)
    BY <1>6, <2>1 DEF ByteAt
  <2>5. InWords(r * w + a) = InFile(r * FileRow + a)
    BY <1>2, <1>6, <2>2, <2>3 DEF InWords
  <2> QED
    BY <1>1, <1>3, <2>4, <2>5
<1> QED
  BY <1>4, <1>5, <1>6

-----------------------------------------------------------------------------
(* The bits of an element lie in its block.                                *)

InRow(x) == x \in Seq(Bit) /\ \A k \in 1..Len(x) : x[k][1] \in 0..(FileRow - 1)

LEMMA EmptyInRow == InRow(<<>>)
  BY DEF InRow

LEMMA ConcatInRow ==
  ASSUME NEW x, NEW y, InRow(x), InRow(y)
  PROVE  InRow(x \o y)
<1>1. x \in Seq(Bit) /\ y \in Seq(Bit) /\ Len(x) \in Nat /\ Len(y) \in Nat
  BY DEF InRow
<1>2. /\ x \o y \in Seq(Bit) /\ Len(x \o y) = Len(x) + Len(y)
      /\ \A k \in 1..(Len(x) + Len(y)) : (x \o y)[k] = IF k <= Len(x) THEN x[k] ELSE y[k - Len(x)]
  BY <1>1, ConcatProperties
<1>3. ASSUME NEW k \in 1..(Len(x) + Len(y)) PROVE (x \o y)[k][1] \in 0..(FileRow - 1)
  <2>1. CASE k <= Len(x)
    <3>1. k \in 1..Len(x) /\ (x \o y)[k] = x[k]
      BY <1>1, <1>2, <2>1
    <3> QED
      BY <3>1 DEF InRow
  <2>2. CASE ~(k <= Len(x))
    <3>1. k - Len(x) \in 1..Len(y) /\ (x \o y)[k] = y[k - Len(x)]
      BY <1>1, <1>2, <2>2
    <3> QED
      BY <3>1 DEF InRow
  <2> QED
    BY <2>1, <2>2
<1> QED
  BY <1>2, <1>3 DEF InRow

LEMMA BitsInRow ==
  ASSUME WalkOk, NEW b \in 0..(Blocks - 1), NEW x \in 0..(StructBytes - 1),
         NEW a, a = Block(b) + x, NEW lo \in Nat, NEW hi \in Nat, lo <= hi
  PROVE  InRow(Bits(a, lo, hi))
<1>1. a \in 0..(FileRow - 1) /\ a \in Nat
  BY ByteOfBlock, RowSizes
<1> DEFINE n == hi - lo
<1>2. n \in Nat /\ hi = lo + n
  OBVIOUS
<1> HIDE DEF n
<1>3. IsBits(Bits(a, lo, hi), a, lo, n)
  BY <1>1, <1>2, BitsAre
<1> QED
  BY <1>1, <1>3 DEF IsBits, InRow

LEMMA F16InRow ==
  ASSUME WalkOk, NEW b \in 0..(Blocks - 1), NEW x \in Nat, x + 1 < StructBytes,
         NEW a, a = Block(b) + x
  PROVE  InRow(F16(a))
<1>1. StructBytes \in Nat /\ x \in 0..(StructBytes - 1) /\ x + 1 \in 0..(StructBytes - 1)
  BY BlocksAre
<1>2. a + 1 = Block(b) + (x + 1)
  BY <1>1, BlockIsInt, BlocksAre
<1>3. InRow(Bits(a, 0, 8))
  BY <1>1, BitsInRow
<1>4. InRow(Bits(a + 1, 0, 8))
  <2> DEFINE y == x + 1
             c == a + 1
  <2>1. y \in 0..(StructBytes - 1) /\ c = Block(b) + y
    BY <1>1, <1>2
  <2> HIDE DEF y, c
  <2>2. InRow(Bits(c, 0, 8))
    BY <2>1, BitsInRow
  <2> QED
    BY <2>2 DEF c
<1> QED
  BY <1>3, <1>4, ConcatInRow DEF F16

LEMMA ScaleMinInRow ==
  ASSUME WalkOk, Fmt \in {"Q4_K", "Q5_K"}, NEW b \in 0..(Blocks - 1), NEW s \in 0..7
  PROVE  InRow(GetScaleMinK4(s, Block(b) + 4).sc) /\ InRow(GetScaleMinK4(s, Block(b) + 4).m)
<1>1. Block(b) \in Nat /\ StructBytes \in {144, 176}
  BY BlockIsInt, BlocksAre DEF StructBytes
<1> DEFINE a == Block(b) + 4
<1>2. ASSUME NEW c, NEW x \in 0..15, c = Block(b) + x,
             NEW lo \in {0, 4, 6}, NEW hi \in {4, 6, 8}, lo <= hi
      PROVE  InRow(Bits(c, lo, hi))
  <2>1. x \in 0..(StructBytes - 1)
    BY <1>1
  <2> QED
    BY <1>2, <2>1, BitsInRow
<1>3. CASE s < 4
  <2> DEFINE c == a + s
             d == a + s + 4
  <2>1. c = Block(b) + (4 + s) /\ d = Block(b) + (8 + s) /\ 4 + s \in 0..15 /\ 8 + s \in 0..15
    BY <1>1, <1>3
  <2>2. GetScaleMinK4(s, a) = [sc |-> Bits(c, 0, 6), m |-> Bits(d, 0, 6)]
    BY <1>3, Zenon DEF GetScaleMinK4
  <2> HIDE DEF c, d
  <2>3. InRow(Bits(c, 0, 6)) /\ InRow(Bits(d, 0, 6))
    BY <1>2, <2>1
  <2> QED
    BY <2>2, <2>3
<1>4. CASE ~(s < 4)
  <2> DEFINE c == a + s + 4
             d == a + s - 4
             e == a + s
  <2>1. /\ c = Block(b) + (8 + s) /\ d = Block(b) + s /\ e = Block(b) + (4 + s)
        /\ 8 + s \in 0..15 /\ s \in 0..15 /\ 4 + s \in 0..15
    BY <1>1, <1>4
  <2> DEFINE X == Bits(c, 0, 4) \o Bits(d, 6, 8)
             Y == Bits(c, 4, 8) \o Bits(e, 6, 8)
  <2>2. GetScaleMinK4(s, a) = [sc |-> X, m |-> Y]
    BY <1>4, Zenon DEF GetScaleMinK4
  <2> HIDE DEF c, d, e
  <2>3. InRow(Bits(c, 0, 4)) /\ InRow(Bits(c, 4, 8)) /\ InRow(Bits(d, 6, 8)) /\ InRow(Bits(e, 6, 8))
    BY <1>2, <2>1
  <2>4. InRow(X) /\ InRow(Y)
    BY <2>3, ConcatInRow
  <2> HIDE DEF X, Y
  <2> QED
    BY <2>2, <2>4
<1> QED
  BY <1>3, <1>4

LEMMA QuantBitInBlock ==
  ASSUME WalkOk, NEW b \in 0..(Blocks - 1), NEW s \in Subs, NEW l \in 0..31, NEW k \in 0..(QuantWidth - 1)
  PROVE  /\ QuantBit(<<b, s, l>>, k) \in Bit
         /\ \E x \in 0..(StructBytes - 1) : QuantBit(<<b, s, l>>, k)[1] = Block(b) + x
<1> DEFINE a == Block(b)
           p == <<b, s, l>>
           Lies(c, x) == x \in 0..(StructBytes - 1) /\ c = a + x
           Good == QuantBit(p, k) \in Bit /\ \E y \in 0..(StructBytes - 1) : QuantBit(p, k)[1] = a + y
<1> SUFFICES Good
  OBVIOUS
<1>1. a \in Nat /\ s \in 0..7 /\ Fmt \in Formats
  BY BlockIsInt, BlocksAre, Typed DEF Subs
<1>2. ASSUME NEW c, NEW x, NEW i \in Nat, QuantBit(p, k) = <<c, i>>, Lies(c, x)
      PROVE  Good
  <2>1. x \in Nat
    BY <1>2, BlocksAre
  <2> QED
    BY <1>1, <1>2, <2>1 DEF Bit
<1>3. CASE Fmt = "Q8_0"
  <2>1. StructBytes = 34 /\ QuantWidth = 8 /\ QuantBit(p, k) = <<a + 2 + l, k>>
    BY <1>3 DEF StructBytes, QuantWidth, QuantBit
  <2>2. Lies(a + 2 + l, 2 + l) /\ k \in Nat
    BY <1>1, <2>1
  <2> HIDE DEF a, p, Lies, Good
  <2> QED
    BY <1>2, <2>1, <2>2
<1>4. CASE Fmt = "Q5_0"
  <2>1. /\ StructBytes = 22 /\ QuantWidth = 5
        /\ QuantBit(p, k) = IF k < 4 THEN <<a + 6 + (l % 16), 4 * (l \div 16) + k>>
                                     ELSE <<a + 2 + l \div 8, l % 8>>
    BY <1>4 DEF StructBytes, QuantWidth, QuantBit
  <2>2. CASE k < 4
    <3>1. /\ Lies(a + 6 + (l % 16), 6 + (l % 16))
          /\ 4 * (l \div 16) + k \in Nat
      BY <1>1, <2>1
    <3> HIDE DEF a, p, Lies, Good
    <3> QED
      BY <1>2, <2>1, <2>2, <3>1
  <2>3. CASE ~(k < 4)
    <3>1. Lies(a + 2 + l \div 8, 2 + l \div 8) /\ l % 8 \in Nat
      BY <1>1, <2>1
    <3> HIDE DEF a, p, Lies, Good
    <3> QED
      BY <1>2, <2>1, <2>3, <3>1
  <2> QED
    BY <2>2, <2>3
<1>5. CASE Fmt = "Q4_K"
  <2>1. /\ StructBytes = 144 /\ QuantWidth = 4
        /\ QuantBit(p, k) = <<a + 16 + 32 * (s \div 2) + l, 4 * (s % 2) + k>>
    BY <1>5 DEF StructBytes, QuantWidth, QuantBit
  <2>2. /\ Lies(a + 16 + 32 * (s \div 2) + l, 16 + 32 * (s \div 2) + l) /\ 4 * (s % 2) + k \in Nat
    BY <1>1, <2>1
  <2> HIDE DEF a, p, Lies, Good
  <2> QED
    BY <1>2, <2>1, <2>2
<1>6. CASE Fmt = "Q5_K"
  <2>1. /\ StructBytes = 176 /\ QuantWidth = 5
        /\ QuantBit(p, k) = IF k < 4 THEN <<a + 48 + 32 * (s \div 2) + l, 4 * (s % 2) + k>>
                                     ELSE <<a + 16 + l, s>>
    BY <1>6 DEF StructBytes, QuantWidth, QuantBit
  <2>2. CASE k < 4
    <3>1. /\ Lies(a + 48 + 32 * (s \div 2) + l, 48 + 32 * (s \div 2) + l) /\ 4 * (s % 2) + k \in Nat
      BY <1>1, <2>1
    <3> HIDE DEF a, p, Lies, Good
    <3> QED
      BY <1>2, <2>1, <2>2, <3>1
  <2>3. CASE ~(k < 4)
    <3>1. Lies(a + 16 + l, 16 + l) /\ s \in Nat
      BY <1>1, <2>1
    <3> HIDE DEF a, p, Lies, Good
    <3> QED
      BY <1>2, <2>1, <2>3, <3>1
  <2> QED
    BY <2>2, <2>3
<1>7. CASE Fmt = "Q6_K"
  <2>1. /\ StructBytes = 210 /\ QuantWidth = 6
        /\ QuantBit(p, k) = IF k < 4
                            THEN <<a + 64 * (s \div 4) + 32 * (s % 2) + l, 4 * ((s % 4) \div 2) + k>>
                            ELSE <<a + 128 + 32 * (s \div 4) + l, 2 * (s % 4) + k - 4>>
    BY <1>7 DEF StructBytes, QuantWidth, QuantBit
  <2>2. CASE k < 4
    <3>1. /\ Lies(a + 64 * (s \div 4) + 32 * (s % 2) + l, 64 * (s \div 4) + 32 * (s % 2) + l) /\ 4 * ((s % 4) \div 2) + k \in Nat
      BY <1>1, <2>1
    <3> HIDE DEF a, p, Lies, Good
    <3> QED
      BY <1>2, <2>1, <2>2, <3>1
  <2>3. CASE ~(k < 4)
    <3>1. /\ Lies(a + 128 + 32 * (s \div 4) + l, 128 + 32 * (s \div 4) + l) /\ 2 * (s % 4) + k - 4 \in Nat
      BY <1>1, <2>1, <2>3
    <3> HIDE DEF a, p, Lies, Good
    <3> QED
      BY <1>2, <2>1, <2>3, <3>1
  <2> QED
    BY <2>2, <2>3
<1>8. CASE Fmt = "Q2_K"
  <2>1. /\ StructBytes = 84 /\ QuantWidth = 2
        /\ QuantBit(p, k) = <<a + 16 + 32 * (s \div 4) + l, 2 * (s % 4) + k>>
    BY <1>8 DEF StructBytes, QuantWidth, QuantBit
  <2>2. /\ Lies(a + 16 + 32 * (s \div 4) + l, 16 + 32 * (s \div 4) + l) /\ 2 * (s % 4) + k \in Nat
    BY <1>1, <2>1
  <2> HIDE DEF a, p, Lies, Good
  <2> QED
    BY <1>2, <2>1, <2>2
<1> HIDE DEF a, p, Good
<1> QED
  BY <1>1, <1>3, <1>4, <1>5, <1>6, <1>7, <1>8 DEF Formats

LEMMA QuantInRow ==
  ASSUME WalkOk, NEW b \in 0..(Blocks - 1), NEW s \in Subs, NEW l \in 0..31
  PROVE  InRow(Quant(<<b, s, l>>)) /\ Len(Quant(<<b, s, l>>)) = QuantWidth
<1> DEFINE p == <<b, s, l>>
<1>1. QuantWidth \in Nat
  BY Typed DEF QuantWidth, Formats
<1>2. ASSUME NEW k \in 0..(QuantWidth - 1)
      PROVE  QuantBit(p, k) \in Bit /\ QuantBit(p, k)[1] \in 0..(FileRow - 1)
  <2>1. QuantBit(p, k) \in Bit
    BY QuantBitInBlock
  <2>2. PICK x \in 0..(StructBytes - 1) : QuantBit(p, k)[1] = Block(b) + x
    BY QuantBitInBlock
  <2>3. Block(b) + x \in 0..(FileRow - 1)
    BY ByteOfBlock
  <2> QED
    BY <2>1, <2>2, <2>3
<1> HIDE DEF p
<1> DEFINE n == QuantWidth
<1>3. \A i \in 1..n : i - 1 \in 0..(n - 1)
  BY <1>1
<1>4. Quant(p) = [i \in 1..n |-> QuantBit(p, i - 1)]
  BY DEF Quant
<1>5. n \in Nat /\ \A k \in 0..(n - 1) : QuantBit(p, k) \in Bit /\ QuantBit(p, k)[1] \in 0..(FileRow - 1)
  BY <1>1, <1>2
<1> HIDE DEF n
<1>6. Quant(p) \in [1..n -> Bit] /\ \A i \in 1..n : Quant(p)[i] = QuantBit(p, i - 1)
  BY <1>3, <1>4, <1>5
<1>7. Quant(p) \in Seq(Bit) /\ Len(Quant(p)) = n
  BY <1>5, <1>6
<1> QED
  BY <1>3, <1>5, <1>6, <1>7 DEF InRow, p, n

(* The parts of a contribution that are bits of the file.                  *)
PartsInRow(c) == InRow(c[3]) /\ InRow(c[4]) /\ (c[1] = "pos" => InRow(c[5]))

LEMMA PartsOf ==
  /\ \A e, d, sc, q, bias : InRow(d) /\ InRow(sc) /\ InRow(q) => PartsInRow(Scaled(e, d, sc, q, bias))
  /\ \A e, d, m : InRow(d) /\ InRow(m) => PartsInRow(Offset(e, d, m))
<1> DEFINE R(x) == InRow(x)
<1> HIDE DEF R
<1>1. ASSUME NEW e, NEW d, NEW sc, NEW q, NEW bias, R(d), R(sc), R(q)
      PROVE  LET c == Scaled(e, d, sc, q, bias) IN R(c[3]) /\ R(c[4]) /\ (c[1] = "pos" => R(c[5]))
  BY <1>1 DEF Scaled
<1>2. ASSUME NEW e, NEW d, NEW m, R(d), R(m)
      PROVE  LET c == Offset(e, d, m) IN R(c[3]) /\ R(c[4]) /\ (c[1] = "pos" => R(c[5]))
  BY <1>2 DEF Offset
<1> QED
  BY <1>1, <1>2, Zenon DEF R, PartsInRow

LEMMA RefInRow ==
  ASSUME WalkOk, NEW p \in Real, NEW c \in Ref(p)
  PROVE  PartsInRow(c)
<1>1. PICK b \in 0..(Blocks - 1), s \in Subs, l \in 0..31 : p = <<b, s, l>>
  BY RealIsPlace
<1> DEFINE a == Block(b)
           q == Quant(<<b, s, l>>)
<1>0. b \in Nat
  BY BlocksAre
<1>2. a \in Nat /\ s \in 0..7 /\ Fmt \in Formats /\ InRow(q) /\ b \in Nat
  <2>1. b \in Nat /\ a \in Nat
    BY BlockIsInt, BlocksAre
  <2>2. InRow(q)
    BY QuantInRow
  <2> QED
    BY <2>1, <2>2, Typed DEF Subs
<1>3. CASE Fmt = "Q8_0"
  <2>1. c = Scaled(32 * b + 32 * s + l, F16(a), <<>>, q, 0)
    BY <1>1, <1>2, <1>3, RefOneScale
  <2>2. InRow(F16(a))
    <3>1. StructBytes = 34 /\ a = Block(b) + 0
      BY <1>2, <1>3 DEF StructBytes
    <3> HIDE DEF a
    <3> QED
      BY <3>1, F16InRow
  <2> HIDE DEF q
  <2> QED
    BY <1>2, <2>1, <2>2, EmptyInRow, PartsOf, Zenon
<1>4. CASE Fmt = "Q5_0"
  <2>1. c = Scaled(32 * b + 32 * s + l, F16(a), <<>>, q, 16)
    BY <1>1, <1>2, <1>4, RefOneScale
  <2>2. InRow(F16(a))
    <3>1. StructBytes = 22 /\ a = Block(b) + 0
      BY <1>2, <1>4 DEF StructBytes
    <3> HIDE DEF a
    <3> QED
      BY <3>1, F16InRow
  <2> HIDE DEF q
  <2> QED
    BY <1>2, <2>1, <2>2, EmptyInRow, PartsOf, Zenon
<1>5. CASE Fmt \in {"Q4_K", "Q5_K"}
  <2> DEFINE k == GetScaleMinK4(s, a + 4)
             e == 256 * b + 32 * s + l
             d == a + 2
  <2>1. c \in {Scaled(e, F16(a), k.sc, q, 0), Offset(e, F16(d), k.m)}
    <3>1. c \in Both(e, a, k, q)
      BY <1>1, <1>2, <1>5, RefTwoScales
    <3> QED
      BY <3>1 DEF Both
  <2>2. InRow(F16(a)) /\ InRow(F16(d))
    <3>1. StructBytes \in {144, 176} /\ a = Block(b) + 0 /\ d = Block(b) + 2
      BY <1>2, <1>5 DEF StructBytes
    <3> HIDE DEF a, d
    <3> QED
      BY <3>1, F16InRow
  <2>3. InRow(k.sc) /\ InRow(k.m)
    BY <1>2, <1>5, ScaleMinInRow
  <2> HIDE DEF q, k, d, e
  <2> QED
    BY <1>2, <2>1, <2>2, <2>3, PartsOf, Zenon
<1>6. CASE Fmt = "Q6_K"
  <2> DEFINE e == 256 * b + 32 * s + l
             d == a + 208
             i == a + 192 + 8 * (s \div 4) + (l \div 16) + 2 * (s % 4)
             x == 192 + 8 * (s \div 4) + (l \div 16) + 2 * (s % 4)
  <2>1. c = Scaled(e, F16(d), Bits(i, 0, 8), q, 32)
    <3>1. Ref(<<b, s, l>>) = {Scaled(e, F16(d), Bits(i, 0, 8), q, 32)}
      BY <1>0, <1>6, RefQ6
    <3> HIDE DEF d, e, i, q
    <3> QED
      BY <1>1, <3>1
  <2>2. StructBytes = 210 /\ d = Block(b) + 208 /\ i = Block(b) + x /\ x \in 0..(StructBytes - 1)
    BY <1>2, <1>6 DEF StructBytes
  <2> HIDE DEF d, e, i, x, q
  <2>3. InRow(F16(d))
    BY <2>2, F16InRow
  <2>4. InRow(Bits(i, 0, 8))
    <3>1. x \in 0..(StructBytes - 1) /\ i = Block(b) + x
      BY <2>2
    <3> QED
      BY <3>1, BitsInRow
  <2> QED
    BY <1>2, <2>1, <2>3, <2>4, PartsOf, Zenon
<1>7. CASE Fmt = "Q2_K"
  <2> DEFINE is == 8 * (s \div 4) + 2 * (s % 4) + (l \div 16)
             e == 256 * b + 32 * s + l
             d == a + 80
             f == a + 82
             i == a + is
  <2>1. c \in {Scaled(e, F16(d), Bits(i, 0, 4), q, 0), Offset(e, F16(f), Bits(i, 4, 8))}
    <3>1. Ref(<<b, s, l>>) = {Scaled(e, F16(d), Bits(i, 0, 4), q, 0), Offset(e, F16(f), Bits(i, 4, 8))}
      BY <1>0, <1>7, RefQ2
    <3> HIDE DEF d, e, f, i, is, q
    <3> QED
      BY <1>1, <3>1
  <2>2. /\ StructBytes = 84 /\ d = Block(b) + 80 /\ f = Block(b) + 82
        /\ i = Block(b) + is /\ is \in 0..(StructBytes - 1)
    BY <1>2, <1>7 DEF StructBytes
  <2> HIDE DEF d, e, f, i, is, q
  <2>3. InRow(F16(d)) /\ InRow(F16(f))
    BY <2>2, F16InRow
  <2>4. InRow(Bits(i, 0, 4)) /\ InRow(Bits(i, 4, 8))
    <3>1. is \in 0..(StructBytes - 1) /\ i = Block(b) + is
      BY <2>2
    <3> QED
      BY <3>1, BitsInRow
  <2> QED
    BY <1>2, <2>1, <2>3, <2>4, PartsOf, Zenon
<1> QED
  BY <1>2, <1>3, <1>4, <1>5, <1>6, <1>7 DEF Formats

(* A contribution, loaded from the bytes of the row of the file.           *)
FromFile(c) == Loaded(OwnByte, c)

LEMMA LoadedFromFile ==
  ASSUME OwnRow, NEW c, PartsInRow(c)
  PROVE  LoadedAt(c) = FromFile(c)
<1> DEFINE At1(x) == [k \in DOMAIN x |-> <<ByteAt(x[k][1]), x[k][2]>>]
           At2(x) == [k \in DOMAIN x |-> <<OwnByte(x[k][1]), x[k][2]>>]
<1>1. ASSUME NEW x, InRow(x) PROVE At1(x) = At2(x)
  <2>1. DOMAIN x = 1..Len(x)
    BY <1>1 DEF InRow
  <2>2. \A k \in DOMAIN x : ByteAt(x[k][1]) = OwnByte(x[k][1])
    BY <1>1, <2>1 DEF InRow, OwnRow, OwnByte
  <2> QED
    BY <2>2
<1>2. LoadedAt(c) = IF c[1] = "pos" THEN Scaled(c[2], At1(c[3]), At1(c[4]), At1(c[5]), c[6])
                    ELSE Offset(c[2], At1(c[3]), At1(c[4]))
  BY Zenon DEF LoadedAt, Loaded, Held
<1>3. FromFile(c) = IF c[1] = "pos" THEN Scaled(c[2], At2(c[3]), At2(c[4]), At2(c[5]), c[6])
                    ELSE Offset(c[2], At2(c[3]), At2(c[4]))
  BY Zenon DEF FromFile, Loaded, Held
<1> HIDE DEF At1, At2
<1>4. At1(c[3]) = At2(c[3]) /\ At1(c[4]) = At2(c[4]) /\ (c[1] = "pos" => At1(c[5]) = At2(c[5]))
  BY <1>1 DEF PartsInRow
<1> QED
  BY <1>2, <1>3, <1>4, Zenon

(* What was summed, read from the row of the file.                         *)
LEMMA SummedAre ==
  ASSUME RowInv, stage = "done", FirstRowOfQ2K
  PROVE  /\ WalkOk
         /\ \A x : x \in acc <=> \E p \in Real : \E c \in Ref(p) : x = <<UnitOf(p), FromFile(c)>>
         /\ \A x : x \in Summed <=> \E p \in Real : \E c \in Ref(p) : x = FromFile(c)
         /\ \A p \in Real : \A c \in Ref(p) :
              c[1] \in {"pos", "min"} /\ FromFile(c)[1] = c[1] /\ FromFile(c)[2] = Index(p)
<1>1. WalkOk /\ unit = Units /\ acc = Made(Units)
  BY DEF RowInv, WalkOk
<1>2. \A p \in Real : UnitOf(p) < Units
  <2>1. Units \in Nat
    BY <1>1, BlocksAre DEF Units, Lanes
  <2> QED
    BY <1>1, <2>1, UnitInRange
<1>3. ASSUME NEW p \in Real, NEW c \in Ref(p)
      PROVE  LoadedAt(c) = FromFile(c) /\ c[1] \in {"pos", "min"} /\ c[2] = Index(p)
  <2>1. OwnRow
    BY <1>1, RowIsOwn
  <2>2. PartsInRow(c)
    BY <1>1, RefInRow
  <2>3. c[1] \in {"pos", "min"}
    BY <1>1, RefKinds
  <2> QED
    BY <1>1, <2>1, <2>2, <2>3, LoadedFromFile, RefIndex
<1>4. ASSUME NEW x PROVE x \in acc <=> \E p \in Real : \E c \in Ref(p) : x = <<UnitOf(p), FromFile(c)>>
  BY <1>1, <1>2, <1>3, MadeMember
<1>5. ASSUME NEW x PROVE x \in Summed <=> \E p \in Real : \E c \in Ref(p) : x = FromFile(c)
  <2>1. x \in Summed <=> \E y \in acc : x = y[2]
    BY DEF Summed
  <2>2. \A p, c : <<UnitOf(p), FromFile(c)>>[2] = FromFile(c)
    OBVIOUS
  <2>3. ASSUME NEW y \in acc PROVE \E p \in Real : \E c \in Ref(p) : y[2] = FromFile(c)
    BY <1>4, <2>2
  <2>4. ASSUME NEW p \in Real, NEW c \in Ref(p), x = FromFile(c) PROVE x \in Summed
    <3>1. <<UnitOf(p), FromFile(c)>> \in acc
      BY <1>4
    <3> QED
      BY <2>1, <2>2, <2>4, <3>1
  <2> QED
    BY <2>1, <2>3, <2>4
<1>6. \A p \in Real : \A c \in Ref(p) :
        c[1] \in {"pos", "min"} /\ FromFile(c)[1] = c[1] /\ FromFile(c)[2] = Index(p)
  BY <1>3, LoadedKeeps
<1> QED
  BY <1>1, <1>4, <1>5, <1>6

LEMMA SumsAgree ==
  ASSUME RowInv, FirstRowOfQ2K
  PROVE  AgreesWithDequant
<1> SUFFICES ASSUME stage = "done", NEW b \in 0..(Blocks - 1)
             PROVE  {c \in Summed : c[2] \div BlockSize = b}
                      = {FromFile(c) : c \in {d \in Dequant(b) : d[2] < N}}
  BY Zenon DEF AgreesWithDequant, FromFile
<1>1. WalkOk
  BY SummedAre
<1>2. \A c : (c \in Dequant(b) /\ c[2] < N)
               <=> \E s \in Subs, l \in 0..31 : Index(<<b, s, l>>) < N /\ c \in Ref(<<b, s, l>>)
  BY <1>1, DequantReads DEF ReadsRow
<1>3. ASSUME NEW x \in Summed, x[2] \div BlockSize = b
      PROVE  \E c : c \in Dequant(b) /\ c[2] < N /\ x = FromFile(c)
  <2>1. PICK p \in Real : \E c \in Ref(p) : x = FromFile(c)
    BY SummedAre
  <2>2. PICK c \in Ref(p) : x = FromFile(c)
    BY <2>1
  <2>3. Index(p) \div BlockSize = b
    BY <1>3, <2>2, SummedAre
  <2>4. p = <<b, p[2], p[3]>> /\ p[2] \in Subs /\ p[3] \in 0..31 /\ Index(p) < N
    BY <1>1, <2>3, RealIsPlace DEF Real
  <2> QED
    BY <1>2, <2>2, <2>4
<1>4. ASSUME NEW c, c \in Dequant(b), c[2] < N
      PROVE  FromFile(c) \in Summed /\ FromFile(c)[2] \div BlockSize = b
  <2>1. PICK s \in Subs, l \in 0..31 : Index(<<b, s, l>>) < N /\ c \in Ref(<<b, s, l>>)
    BY <1>2, <1>4
  <2>2. <<b, s, l>> \in Real
    BY <2>1 DEF Real, Places
  <2>3. Index(<<b, s, l>>) \div BlockSize = b
    BY <1>1, <2>2, RealIsPlace
  <2> QED
    BY <2>1, <2>2, <2>3, SummedAre
<1> QED
  BY <1>3, <1>4

(* Every loop that reads a format takes the scale, the minimum, the quant  *)
(* and its high bits of an element from the bits of the file the           *)
(* dequantizer takes them from, in data sections and in packed words; of   *)
(* Q2_K in the first row.                                                  *)
THEOREM EveryWalkAgrees ==
  ASSUME FirstRowOfQ2K
  PROVE  RowSpec => []AgreesWithDequant
<1>1. RowInv => AgreesWithDequant
  BY SumsAgree
<1> QED
  BY <1>1, RowInductive, PTL

-----------------------------------------------------------------------------
(* No two quants share a bit.                                              *)

LEMMA SameBlock ==
  ASSUME WalkOk, NEW b \in Nat, NEW c \in Nat, NEW x \in 0..(StructBytes - 1), NEW y \in 0..(StructBytes - 1),
         Block(b) + x = Block(c) + y
  PROVE  b = c
<1> DEFINE n == StructBytes
<1>1. n \in Nat \ {0} /\ Block(b) = b * n /\ Block(c) = c * n /\ x \in 0..(n - 1) /\ y \in 0..(n - 1)
  BY BlocksAre DEF Block
<1> HIDE DEF n
<1>2. b * n + x = c * n + y
  BY <1>1
<1>3. (b * n + x) \div n = b /\ (c * n + y) \div n = c
  BY <1>1, DivisionIsUnique
<1> QED
  BY <1>2, <1>3

LEMMA SubBlockParts ==
  \A s \in 0..7 :
    /\ s \div 2 \in 0..3 /\ s % 2 \in 0..1 /\ s = 2 * (s \div 2) + (s % 2)
    /\ s \div 4 \in 0..1 /\ s % 4 \in 0..3 /\ s = 4 * (s \div 4) + (s % 4)
    /\ (s % 4) \div 2 \in 0..1 /\ s % 4 = 2 * ((s % 4) \div 2) + (s % 2)
  OBVIOUS

IsBit(x, p, k) == x = QuantBit(p, k)

(* Within a block the bit tells the element, and which of its bits it is.  *)
LEMMA BitTells ==
  ASSUME WalkOk, NEW b \in Nat, NEW s \in Subs, NEW l \in 0..31, NEW k \in 0..(QuantWidth - 1),
         NEW t \in Subs, NEW m \in 0..31, NEW j \in 0..(QuantWidth - 1),
         NEW bit, IsBit(bit, <<b, s, l>>, k), IsBit(bit, <<b, t, m>>, j)
  PROVE  s = t /\ l = m /\ k = j
<1> DEFINE a == Block(b)
<1>0. QuantBit(<<b, s, l>>, k) = QuantBit(<<b, t, m>>, j)
  BY DEF IsBit
<1>1. a \in Nat /\ s \in 0..7 /\ t \in 0..7 /\ Fmt \in Formats
  BY BlockIsInt, Typed DEF Subs
<1>2. CASE Fmt = "Q8_0"
  <2>1. /\ QuantWidth = 8 /\ Subs = {0}
        /\ QuantBit(<<b, s, l>>, k) = <<a + 2 + l, k>> /\ QuantBit(<<b, t, m>>, j) = <<a + 2 + m, j>>
    BY <1>2 DEF QuantWidth, Subs, QuantBit
  <2>2. a + 2 + l = a + 2 + m /\ k = j /\ s = t
    BY <2>1, <1>0
  <2> QED
    BY <1>1, <2>2
<1>3. CASE Fmt = "Q5_0"
  <2>1. /\ QuantWidth = 5 /\ Subs = {0}
        /\ QuantBit(<<b, s, l>>, k) = IF k < 4 THEN <<a + 6 + (l % 16), 4 * (l \div 16) + k>>
                                               ELSE <<a + 2 + l \div 8, l % 8>>
        /\ QuantBit(<<b, t, m>>, j) = IF j < 4 THEN <<a + 6 + (m % 16), 4 * (m \div 16) + j>>
                                               ELSE <<a + 2 + m \div 8, m % 8>>
    BY <1>3 DEF QuantWidth, Subs, QuantBit
  <2>2. s = t /\ k \in 0..4 /\ j \in 0..4
    BY <2>1
  <2>3. CASE k < 4 /\ j < 4
    <3>1. a + 6 + (l % 16) = a + 6 + (m % 16) /\ 4 * (l \div 16) + k = 4 * (m \div 16) + j
      BY <1>0, <2>1, <2>3
    <3> QED
      BY <1>1, <2>2, <2>3, <3>1
  <2>4. CASE ~(k < 4) /\ ~(j < 4)
    <3>1. a + 2 + l \div 8 = a + 2 + m \div 8 /\ l % 8 = m % 8
      BY <1>0, <2>1, <2>4
    <3> QED
      BY <1>1, <2>2, <2>4, <3>1
  <2>5. CASE k < 4 /\ ~(j < 4)
    <3>1. a + 6 + (l % 16) = a + 2 + m \div 8
      BY <1>0, <2>1, <2>5
    <3> QED
      BY <1>1, <3>1
  <2>6. CASE ~(k < 4) /\ j < 4
    <3>1. a + 2 + l \div 8 = a + 6 + (m % 16)
      BY <1>0, <2>1, <2>6
    <3> QED
      BY <1>1, <3>1
  <2> QED
    BY <2>3, <2>4, <2>5, <2>6
<1>4. CASE Fmt = "Q4_K"
  <2>1. /\ QuantWidth = 4
        /\ QuantBit(<<b, s, l>>, k) = <<a + 16 + 32 * (s \div 2) + l, 4 * (s % 2) + k>>
        /\ QuantBit(<<b, t, m>>, j) = <<a + 16 + 32 * (t \div 2) + m, 4 * (t % 2) + j>>
    BY <1>4 DEF QuantWidth, QuantBit
  <2>2. /\ a + 16 + 32 * (s \div 2) + l = a + 16 + 32 * (t \div 2) + m
        /\ 4 * (s % 2) + k = 4 * (t % 2) + j /\ k \in 0..3 /\ j \in 0..3
    BY <2>1, <1>0
  <2> QED
    BY <1>1, <2>2
<1>5. CASE Fmt = "Q5_K"
  <2>1. /\ QuantWidth = 5
        /\ QuantBit(<<b, s, l>>, k) = IF k < 4 THEN <<a + 48 + 32 * (s \div 2) + l, 4 * (s % 2) + k>>
                                               ELSE <<a + 16 + l, s>>
        /\ QuantBit(<<b, t, m>>, j) = IF j < 4 THEN <<a + 48 + 32 * (t \div 2) + m, 4 * (t % 2) + j>>
                                               ELSE <<a + 16 + m, t>>
    BY <1>5 DEF QuantWidth, QuantBit
  <2>2. k \in 0..4 /\ j \in 0..4
    BY <2>1
  <2>3. CASE k < 4 /\ j < 4
    <3>1. /\ a + 48 + 32 * (s \div 2) + l = a + 48 + 32 * (t \div 2) + m
          /\ 4 * (s % 2) + k = 4 * (t % 2) + j
      BY <1>0, <2>1, <2>3
    <3> QED
      BY <1>1, <2>2, <2>3, <3>1
  <2>4. CASE ~(k < 4) /\ ~(j < 4)
    <3>1. a + 16 + l = a + 16 + m /\ s = t
      BY <1>0, <2>1, <2>4
    <3> QED
      BY <1>1, <2>2, <2>4, <3>1
  <2>5. CASE k < 4 /\ ~(j < 4)
    <3>1. a + 48 + 32 * (s \div 2) + l = a + 16 + m
      BY <1>0, <2>1, <2>5
    <3> QED
      BY <1>1, <3>1
  <2>6. CASE ~(k < 4) /\ j < 4
    <3>1. a + 16 + l = a + 48 + 32 * (t \div 2) + m
      BY <1>0, <2>1, <2>6
    <3> QED
      BY <1>1, <3>1
  <2> QED
    BY <2>3, <2>4, <2>5, <2>6
<1>6. CASE Fmt = "Q6_K"
  <2>1. /\ QuantWidth = 6
        /\ QuantBit(<<b, s, l>>, k)
             = IF k < 4 THEN <<a + 64 * (s \div 4) + 32 * (s % 2) + l, 4 * ((s % 4) \div 2) + k>>
                        ELSE <<a + 128 + 32 * (s \div 4) + l, 2 * (s % 4) + k - 4>>
        /\ QuantBit(<<b, t, m>>, j)
             = IF j < 4 THEN <<a + 64 * (t \div 4) + 32 * (t % 2) + m, 4 * ((t % 4) \div 2) + j>>
                        ELSE <<a + 128 + 32 * (t \div 4) + m, 2 * (t % 4) + j - 4>>
    BY <1>6 DEF QuantWidth, QuantBit
  <2>2. k \in 0..5 /\ j \in 0..5
    BY <2>1
  <2> DEFINE h == s \div 4   i == t \div 4
             u == (s % 4) \div 2   v == (t % 4) \div 2
             y == s % 2   z == t % 2
             f == s % 4   g == t % 4
  <2>3. /\ h \in 0..1 /\ i \in 0..1 /\ u \in 0..1 /\ v \in 0..1 /\ y \in 0..1 /\ z \in 0..1
        /\ f \in 0..3 /\ g \in 0..3
        /\ f = 2 * u + y /\ g = 2 * v + z /\ s = 4 * h + f /\ t = 4 * i + g
    BY <1>1, SubBlockParts
  <2>4. CASE k < 4 /\ j < 4
    <3>1. a + 64 * h + 32 * y + l = a + 64 * i + 32 * z + m /\ 4 * u + k = 4 * v + j
      BY <1>0, <2>1, <2>4
    <3> HIDE DEF h, i, u, v, y, z, f, g
    <3> QED
      BY <1>1, <2>2, <2>3, <2>4, <3>1
  <2>5. CASE ~(k < 4) /\ ~(j < 4)
    <3>1. a + 128 + 32 * h + l = a + 128 + 32 * i + m /\ 2 * f + k - 4 = 2 * g + j - 4
      BY <1>0, <2>1, <2>5
    <3> HIDE DEF h, i, u, v, y, z, f, g
    <3> QED
      BY <1>1, <2>2, <2>3, <2>5, <3>1
  <2>6. CASE k < 4 /\ ~(j < 4)
    <3>1. a + 64 * h + 32 * y + l = a + 128 + 32 * i + m
      BY <1>0, <2>1, <2>6
    <3> HIDE DEF h, i, u, v, y, z, f, g
    <3> QED
      BY <1>1, <2>3, <3>1
  <2>7. CASE ~(k < 4) /\ j < 4
    <3>1. a + 128 + 32 * h + l = a + 64 * i + 32 * z + m
      BY <1>0, <2>1, <2>7
    <3> HIDE DEF h, i, u, v, y, z, f, g
    <3> QED
      BY <1>1, <2>3, <3>1
  <2> QED
    BY <2>4, <2>5, <2>6, <2>7
<1>7. CASE Fmt = "Q2_K"
  <2>1. /\ QuantWidth = 2
        /\ QuantBit(<<b, s, l>>, k) = <<a + 16 + 32 * (s \div 4) + l, 2 * (s % 4) + k>>
        /\ QuantBit(<<b, t, m>>, j) = <<a + 16 + 32 * (t \div 4) + m, 2 * (t % 4) + j>>
    BY <1>7 DEF QuantWidth, QuantBit
  <2>2. /\ a + 16 + 32 * (s \div 4) + l = a + 16 + 32 * (t \div 4) + m
        /\ 2 * (s % 4) + k = 2 * (t % 4) + j /\ k \in 0..1 /\ j \in 0..1
    BY <2>1, <1>0
  <2> QED
    BY <1>1, <2>2
<1> QED
  BY <1>1, <1>2, <1>3, <1>4, <1>5, <1>6, <1>7 DEF Formats

(* Bit k of the quant of the element at p, by its place in the file.       *)
FileBit(p, k) == <<OwnByte(QuantBit(p, k)[1]), QuantBit(p, k)[2]>>

LEMMA RefQuant ==
  ASSUME WalkOk, NEW p, NEW c \in Ref(p), c[1] = "pos"
  PROVE  c[5] = Quant(p)
<1>1. Fmt \in Formats
  BY Typed
<1>2. \A e, d, sc, q, bias : Scaled(e, d, sc, q, bias)[5] = q
  BY DEF Scaled
<1>3. \A e, d, m : Offset(e, d, m)[1] # "pos"
  BY DEF Offset
<1> DEFINE q == Quant(p)
<1> HIDE DEF q
<1>4. \E e, d, sc, bias : c = Scaled(e, d, sc, q, bias)
  <2> DEFINE a == Block(p[1])
             s == p[2]
             l == p[3]
             e == Index(p)
  <2>1. CASE Fmt = "Q8_0"
    <3>1. Ref(p) = {Scaled(e, F16(a), <<>>, q, 0)}
      BY <2>1 DEF Ref, q
    <3> QED
      BY <3>1
  <2>2. CASE Fmt = "Q5_0"
    <3>1. Ref(p) = {Scaled(e, F16(a), <<>>, q, 16)}
      BY <2>2 DEF Ref, q
    <3> QED
      BY <3>1
  <2>3. CASE Fmt \in {"Q4_K", "Q5_K"}
    <3> DEFINE k == GetScaleMinK4(s, a + 4)
    <3>1. Ref(p) = {Scaled(e, F16(a), k.sc, q, 0), Offset(e, F16(a + 2), k.m)}
      BY <2>3 DEF Ref, Both, q
    <3> HIDE DEF k
    <3> QED
      BY <1>3, <3>1
  <2>4. CASE Fmt = "Q6_K"
    <3> DEFINE k == Bits(a + 192 + 8 * (s \div 4) + (l \div 16) + 2 * (s % 4), 0, 8)
    <3>1. Ref(p) = {Scaled(e, F16(a + 208), k, q, 32)}
      BY <2>4 DEF Ref, q
    <3> HIDE DEF k
    <3> QED
      BY <3>1
  <2>5. CASE Fmt = "Q2_K"
    <3> DEFINE is == 8 * (s \div 4) + 2 * (s % 4) + (l \div 16)
               k == Bits(a + is, 0, 4)
               j == Bits(a + is, 4, 8)
    <3>1. Ref(p) = {Scaled(e, F16(a + 80), k, q, 0), Offset(e, F16(a + 82), j)}
      BY <2>5 DEF Ref, q
    <3> HIDE DEF k, j
    <3> QED
      BY <1>3, <3>1
  <2> QED
    BY <1>1, <2>1, <2>2, <2>3, <2>4, <2>5 DEF Formats
<1> QED
  BY <1>2, <1>4 DEF q

LEMMA QuantBitsAre ==
  ASSUME WalkOk, NEW p \in Real, NEW c \in Ref(p), c[1] = "pos"
  PROVE  QuantBits(FromFile(c)) = {FileBit(p, k) : k \in 0..(QuantWidth - 1)}
<1> DEFINE n == QuantWidth
           q == Quant(p)
<1>1. n \in Nat
  BY Typed DEF QuantWidth, Formats
<1>2. DOMAIN q = 1..n /\ \A i \in 1..n : q[i] = QuantBit(p, i - 1)
  BY DEF Quant
<1>3. c[5] = q
  BY RefQuant
<1>4. FromFile(c)[5] = [i \in DOMAIN q |-> <<OwnByte(q[i][1]), q[i][2]>>]
  <2> DEFINE X == [i \in DOMAIN c[5] |-> <<OwnByte(c[5][i][1]), c[5][i][2]>>]
  <2>1. \E e, d, sc, b : FromFile(c) = Scaled(e, d, sc, X, b)
    BY Zenon DEF FromFile, Loaded, Held
  <2> HIDE DEF X
  <2>2. FromFile(c)[5] = X
    BY <2>1 DEF Scaled
  <2> QED
    BY <1>3, <2>2 DEF X
<1> HIDE DEF n, q
<1>5. QuantBits(FromFile(c)) = {<<OwnByte(q[i][1]), q[i][2]>> : i \in 1..n}
  <2> DEFINE y == FromFile(c)
  <2>1. y[5] = [i \in 1..n |-> <<OwnByte(q[i][1]), q[i][2]>>]
    BY <1>2, <1>4
  <2> HIDE DEF y
  <2>2. QuantBits(y) = {y[5][i] : i \in 1..n}
    BY <2>1 DEF QuantBits
  <2>3. \A i \in 1..n : y[5][i] = <<OwnByte(q[i][1]), q[i][2]>>
    BY <2>1
  <2> QED
    BY <2>2, <2>3 DEF y
<1>6. \A i \in 1..n : <<OwnByte(q[i][1]), q[i][2]>> = FileBit(p, i - 1)
  BY <1>2 DEF FileBit
<1>7. QuantBits(FromFile(c)) = {FileBit(p, i - 1) : i \in 1..n}
  BY <1>5, <1>6
<1>8. \A i \in 1..n : i - 1 \in 0..(n - 1)
  BY <1>1
<1>9. \A k \in 0..(n - 1) : k + 1 \in 1..n /\ (k + 1) - 1 = k
  BY <1>1
<1>10. \A y : y \in {FileBit(p, i - 1) : i \in 1..n} <=> y \in {FileBit(p, k) : k \in 0..(n - 1)}
  BY <1>8, <1>9
<1> QED
  BY <1>7, <1>10 DEF n

LEMMA FileBitTells ==
  ASSUME WalkOk, NEW p \in Real, NEW q \in Real, NEW k \in 0..(QuantWidth - 1), NEW j \in 0..(QuantWidth - 1),
         FileBit(p, k) = FileBit(q, j)
  PROVE  p = q /\ k = j
<1>1. PICK b \in 0..(Blocks - 1), s \in Subs, l \in 0..31 : p = <<b, s, l>>
  BY RealIsPlace
<1>2. PICK c \in 0..(Blocks - 1), t \in Subs, m \in 0..31 : q = <<c, t, m>>
  BY RealIsPlace
<1>3. b \in Nat /\ c \in Nat
  BY BlocksAre
<1>4. QuantBit(p, k) \in Bit /\ QuantBit(q, j) \in Bit
  BY <1>1, <1>2, QuantBitInBlock
<1>5. QuantBit(p, k)[1] = QuantBit(q, j)[1] /\ QuantBit(p, k)[2] = QuantBit(q, j)[2]
  BY DEF FileBit, OwnByte
<1>6. QuantBit(p, k) = QuantBit(q, j)
  BY <1>4, <1>5 DEF Bit
<1>7. PICK x \in 0..(StructBytes - 1) : QuantBit(p, k)[1] = Block(b) + x
  BY <1>1, QuantBitInBlock
<1>8. PICK y \in 0..(StructBytes - 1) : QuantBit(q, j)[1] = Block(c) + y
  BY <1>2, QuantBitInBlock
<1>9. b = c
  <2>1. Block(b) + x = Block(c) + y
    BY <1>5, <1>7, <1>8
  <2> QED
    BY <1>3, <2>1, SameBlock
<1>10. s = t /\ l = m /\ k = j
  <2> DEFINE bit == QuantBit(p, k)
  <2>1. IsBit(bit, <<b, s, l>>, k) /\ IsBit(bit, <<b, t, m>>, j)
    BY <1>1, <1>2, <1>6, <1>9 DEF IsBit
  <2> HIDE DEF bit
  <2> QED
    BY <1>3, <2>1, BitTells
<1> QED
  BY <1>1, <1>2, <1>9, <1>10

LEMMA BitsAreOwn ==
  ASSUME RowInv, FirstRowOfQ2K
  PROVE  OwnBits
<1> DEFINE quants == {c \in Summed : c[1] = "pos"}
           K == 0..(QuantWidth - 1)
           All == UNION {QuantBits(c) : c \in quants}
<1> SUFFICES ASSUME stage = "done"
             PROVE  /\ \A c \in quants : \A bit \in QuantBits(c) : bit[1][1] = walk.row
                    /\ Cardinality(All) = N * QuantWidth
  BY DEF OwnBits
<1>1. WalkOk
  BY SummedAre
<1>2. N \in Nat /\ QuantWidth \in Nat
  BY <1>1, Typed DEF QuantWidth, Formats
<1>3. \A x : x \in quants => \E p \in Real : \E c \in Ref(p) : c[1] = "pos" /\ x = FromFile(c)
  BY SummedAre
<1>4. \A p \in Real : PosOf(p) \in Ref(p) /\ PosOf(p)[1] = "pos" /\ FromFile(PosOf(p)) \in quants
  <2>1. \A p \in Real : PosOf(p) \in Ref(p) /\ PosOf(p)[1] = "pos"
    BY <1>1, RefKinds
  <2> QED
    BY <2>1, SummedAre
<1>5. \A p \in Real : \A c \in Ref(p) :
        c[1] = "pos" => QuantBits(FromFile(c)) = {FileBit(p, k) : k \in K}
  BY <1>1, QuantBitsAre
<1> HIDE DEF quants, K
<1>6. \A c \in quants : \E p \in Real : QuantBits(c) = {FileBit(p, k) : k \in K}
  BY <1>3, <1>5
<1>7. \A c \in quants : \A bit \in QuantBits(c) : bit[1][1] = walk.row
  <2>1. \A p, k : FileBit(p, k)[1][1] = walk.row
    BY DEF FileBit, OwnByte
  <2> QED
    BY <1>6, <2>1
<1>8. \A y : y \in All <=> \E p \in Real : \E k \in K : y = FileBit(p, k)
  <2>1. ASSUME NEW y \in All PROVE \E p \in Real : \E k \in K : y = FileBit(p, k)
    BY <1>6
  <2>2. ASSUME NEW p \in Real, NEW k \in K PROVE FileBit(p, k) \in All
    <3>1. FileBit(p, k) \in QuantBits(FromFile(PosOf(p)))
      BY <1>4, <1>5
    <3> QED
      BY <1>4, <3>1
  <2> HIDE DEF All
  <2> QED
    BY <2>1, <2>2
<1>9. Cardinality(All) = N * QuantWidth
  <2> DEFINE S == Elements \X K
             f == [z \in S |-> FileBit(PlaceOf(z[1]), z[2])]
  <2>1. IsFiniteSet(Elements) /\ Cardinality(Elements) = N
    BY <1>2, FS_Interval DEF Elements
  <2>2. IsFiniteSet(K) /\ Cardinality(K) = QuantWidth
    BY <1>2, FS_Interval DEF K
  <2>3. IsFiniteSet(S) /\ Cardinality(S) = N * QuantWidth
    BY <2>1, <2>2, FS_Product
  <2> HIDE DEF All
  <2>4. f \in [S -> All]
    BY <1>1, <1>8, PlaceIsReal
  <2>5. ASSUME NEW y \in S, NEW z \in S, f[y] = f[z] PROVE y = z
    <3>1. FileBit(PlaceOf(y[1]), y[2]) = FileBit(PlaceOf(z[1]), z[2])
      BY <2>5
    <3>2. PlaceOf(y[1]) \in Real /\ PlaceOf(z[1]) \in Real /\ y[2] \in K /\ z[2] \in K
      BY <1>1, PlaceIsReal
    <3>3. PlaceOf(y[1]) = PlaceOf(z[1]) /\ y[2] = z[2]
      BY <1>1, <3>1, <3>2, FileBitTells DEF K
    <3>4. Index(PlaceOf(y[1])) = y[1] /\ Index(PlaceOf(z[1])) = z[1]
      BY <1>1, PlaceIsReal
    <3> QED
      BY <3>3, <3>4
  <2>6. ASSUME NEW y \in All PROVE \E z \in S : f[z] = y
    <3>1. PICK p \in Real : \E k \in K : y = FileBit(p, k)
      BY <1>8
    <3>2. PICK k \in K : y = FileBit(p, k)
      BY <3>1
    <3>3. <<Index(p), k>> \in S /\ PlaceOf(Index(p)) = p
      BY <1>1, RealIsPlace
    <3>4. f[<<Index(p), k>>] = FileBit(PlaceOf(Index(p)), k)
      BY <3>3
    <3> QED
      BY <3>2, <3>3, <3>4
  <2> HIDE DEF f, S
  <2>7. f \in Bijection(S, All)
    BY <2>4, <2>5, <2>6 DEF Bijection, Injection, Surjection, IsInjective
  <2>8. ExistsBijection(S, All)
    BY <2>7 DEF ExistsBijection
  <2> QED
    BY <2>3, <2>8, FS_Bijection
<1> QED
  BY <1>7, <1>9

(* No two elements of a row share a bit of their quants, and none reaches  *)
(* into another row; of Q2_K in the first row (row_view places the others  *)
(* wrongly).                                                               *)
THEOREM EveryRowOwnsItsBits ==
  ASSUME FirstRowOfQ2K
  PROVE  RowSpec => []OwnBits
<1>1. RowInv => OwnBits
  BY BitsAreOwn
<1> QED
  BY <1>1, RowInductive, PTL
=============================================================================
