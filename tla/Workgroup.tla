------------------------------ MODULE Workgroup ------------------------------
(***************************************************************************)
(* One workgroup of a cooperative GPU kernel (src/src/ops/kernels_wgpu.rs):*)
(* the norms, attention_softmax, kv_cache_write_q8_0 and the matmuls.      *)
(*                                                                         *)
(* All of them are built the same way.  A lane folds a strided slice of    *)
(* the input into a partial result, puts it into shared memory, and a tree *)
(* reduction, halving the stride at every sync_cube, leaves the result of  *)
(* all lanes in smem[0].  What differs is what happens to it, how often    *)
(* the shared memory is used again, and where the barriers stand.          *)
(*                                                                         *)
(* A lane runs a list of segments, a segment being what it does up to a    *)
(* barrier or up to its next kind of access.  Segments of different lanes  *)
(* interleave; a step is one segment of one lane, which is sound as long   *)
(* as no two lanes can be in conflicting segments (RaceFree).  Control is  *)
(* uniform: n, n_rot and CUBE_DIM are the same for every lane, and no      *)
(* sync_cube stands inside a condition on the lane.                        *)
(*                                                                         *)
(* Numbers are abstracted to what went into them: a partial result is the  *)
(* set of elements it folds and the round it was computed in; one that     *)
(* mixes rounds or counts an element twice is Garbage.                     *)
(***************************************************************************)
EXTENDS Integers, Sequences, FiniteSets

CONSTANTS
  LaneCounts,  \* CUBE_DIM: 32, 64 and 256 in the launches
  Sizes,       \* elements reduced: d_model, head_dim, pos + 1, in_dim
  RotDims,     \* dims rotated per head
  MaxBatch,    \* bound: tokens of a batched matmul
  Block,       \* elements one lane dequantizes at a time: 32
  Pack,        \* bytes per word of the q8_0 cache: 4
  Garbage,     \* a value no reduction of the reference yields
  Unset        \* memory nothing has been stored to

(* Every number of a chain is one or twice another: powers of two.         *)
Chain(S) == \A s \in S : s = 1 \/ \E h \in S : s = 2 * h

ASSUME LanesAssumption ==
  \A l \in LaneCounts : /\ l \in Nat /\ l > 2 /\ l % Pack = 0
                        /\ \E S \in SUBSET (1..l) : l \in S /\ Chain(S)
ASSUME SizesAssumption == Sizes \cup RotDims \subseteq Nat /\ Block \in Nat \ {0}
ASSUME BatchAssumption == MaxBatch \in Nat \ {0} /\ Pack \in Nat \ {0}
ASSUME GarbageAssumption ==
  {Garbage, Unset} \cap [round : Nat, elems : SUBSET Nat] = {}

Kernels == {"norm", "norm_rope", "softmax", "kv_write", "matmul", "coop"}

VARIABLES
  kernel,   \* the kernel launched
  nlanes,   \* CUBE_DIM
  n,        \* elements of this workgroup's slice
  n_rot,    \* dims rotated (norm_rope)
  rounds,   \* reductions in sequence: max and sum, K and V, tokens
  at,       \* where each lane is: segment, round, stride
  waiting,  \* the lanes at a sync_cube
  smem,     \* smem, red, amax_mem
  row,      \* wrow: the weight row dequantized into shared memory
  staged,   \* byte_mem
  x,        \* the elements written in place, or weights of the softmax
  total,    \* what each lane read from smem[0]
  result,   \* sums[h], out[t], the scale: written by lane 0, by round
  words     \* the packed words of the q8_0 cache, by round

launch == <<kernel, nlanes, n, n_rot, rounds>>
vars   == <<launch, at, waiting, smem, row, staged, x, total, result, words>>

Lane   == 0..(nlanes - 1)
Elem   == 0..(n - 1)
Half   == n_rot \div 2

Strided(l) == {d \in Elem : d % nlanes = l}
Blocked(l) == {d \in Elem : (d \div Block) % nlanes = l}
Pairs(l)   == {d \in 0..(Half - 1) : d % nlanes = l}
Rotated(l) == Pairs(l) \cup {p + Half : p \in Pairs(l)}
Word(l)    == {l * Pack + i : i \in 0..(Pack - 1)}

(* What a reduction over all elements yields in round r.                   *)
All(r) == [round |-> r, elems |-> Elem]

Combine(a, b) ==
  IF {a, b} \cap {Garbage, Unset} = {} /\ a.round = b.round /\ a.elems \cap b.elems = {}
  THEN [round |-> a.round, elems |-> a.elems \cup b.elems] ELSE Garbage

-----------------------------------------------------------------------------
(* The segments of a lane, and the barriers between them.                  *)

Matmul == kernel \in {"matmul", "coop"}

Body(r) ==
  CASE kernel = "norm"      -> <<"fill", "reduce", "total", "write">>
    [] kernel = "norm_rope" -> <<"fill", "reduce", "total", "write", "rope">>
    [] kernel = "softmax"   -> <<"fill", "reduce", IF r = 1 THEN "total" ELSE "result">>
    [] kernel = "kv_write"  -> <<"fill", "reduce", "total", "stage", "pack">>
    [] kernel = "matmul"    -> <<"fill", "reduce", "result">>
    [] kernel = "coop" /\ r = 1 -> <<"prepare", "fill", "reduce", "result">>
    [] kernel = "coop" /\ r # 1 -> <<"fill", "reduce", "result">>

Phase(a) == IF a.seg = 0 THEN "done" ELSE Body(a.round)[a.seg]

EarlyStride == 2     \* broken: while stride > 1, for every kernel

(* The unrolled matmul reduction stops at two partial sums.                *)
LastStride == IF Matmul THEN 2 ELSE 1

After(a) ==
  IF Phase(a) = "reduce" /\ a.stride \div 2 >= LastStride
  THEN [a EXCEPT !.stride = @ \div 2]
  ELSE IF a.seg < Len(Body(a.round))
  THEN [a EXCEPT !.seg = @ + 1, !.stride = nlanes \div 2]
  ELSE IF a.round < rounds
  THEN [seg |-> 1, round |-> a.round + 1, stride |-> nlanes \div 2]
  ELSE [seg |-> 0, round |-> a.round, stride |-> 0]

(* Broken: smem is refilled right after smem[0] was read; the pairs are    *)
(* rotated right after the lane's own slice was normalized.                *)
SyncWithoutTotal(a) ==
  \/ Phase(a) \in {"prepare", "fill", "reduce", "stage"}
  \/ Phase(a) = "write" /\ kernel = "norm_rope"
  \/ Phase(a) = "result" /\ Matmul
  \/ Phase(a) = "pack" /\ a.round = 1

SyncWithoutWrite(a) ==
  \/ Phase(a) \in {"prepare", "fill", "reduce", "stage"}
  \/ Phase(a) = "total" /\ kernel \in {"softmax", "kv_write"}
  \/ Phase(a) = "result" /\ Matmul
  \/ Phase(a) = "pack" /\ a.round = 1

(* A sync_cube ends the segment.                                           *)
Sync(a) ==
  \/ Phase(a) \in {"prepare", "fill", "reduce", "stage"}
  \/ Phase(a) = "total" /\ kernel \in {"softmax", "kv_write"}
  \/ Phase(a) = "write" /\ kernel = "norm_rope"
  \/ Phase(a) = "result" /\ Matmul
  \/ Phase(a) = "pack" /\ a.round = 1

At(l, phase) == l \notin waiting /\ Phase(at[l]) = phase
Round(l)     == at[l].round

Leave(l) ==
  IF Sync(at[l]) THEN waiting' = waiting \cup {l} /\ UNCHANGED at
                 ELSE at' = [at EXCEPT ![l] = After(@)] /\ UNCHANGED waiting

-----------------------------------------------------------------------------
Init ==
  /\ kernel \in Kernels
  /\ nlanes \in LaneCounts
  /\ n \in Sizes /\ (kernel = "kv_write" => n <= nlanes)
  /\ n_rot \in IF kernel = "norm_rope" THEN RotDims \cap (0..n) ELSE {0}
  /\ rounds \in CASE kernel \in {"softmax", "kv_write"} -> {2}
                  [] kernel \in {"matmul", "coop"} -> 1..MaxBatch
                  [] OTHER -> {1}
  /\ at = [l \in Lane |-> [seg |-> 1, round |-> 1, stride |-> nlanes \div 2]]
  /\ waiting = {}
  /\ smem = [l \in Lane |-> Unset]
  /\ row = [d \in Elem |-> Unset]
  /\ staged = [l \in Lane |-> Unset]
  /\ x = [d \in Elem |-> "raw"]
  /\ total = [l \in Lane |-> Unset]
  /\ result = [r \in 1..rounds |-> Unset]
  /\ words = [r \in 1..rounds |-> [w \in 0..(nlanes \div Pack - 1) |-> Unset]]

(* Dequantize this lane's blocks of the weight row.                        *)
Prepare(l) ==
  /\ At(l, "prepare")
  /\ row' = [d \in Elem |-> IF d \in Blocked(l) THEN "dequantized" ELSE row[d]]
  /\ Leave(l)
  /\ UNCHANGED <<launch, smem, staged, x, total, result, words>>

(* Fold the lane's slice, of the input, of the dequantized row, or of the  *)
(* softmax weights it writes on the way.                                   *)
Fill(l) ==
  /\ At(l, "fill")
  /\ LET r       == Round(l)
         weighs  == kernel = "softmax" /\ r = 2
         input   == IF kernel = "coop" THEN row ELSE x
         ready   == IF kernel = "coop" THEN "dequantized" ELSE "raw"
         exact   == IF weighs THEN total[l] = All(1)
                    ELSE \A d \in Strided(l) : input[d] = ready
     IN /\ smem' = [smem EXCEPT ![l] =
                      IF exact THEN [round |-> r, elems |-> Strided(l)] ELSE Garbage]
        /\ x' = [d \in Elem |-> IF weighs /\ d \in Strided(l)
                                THEN IF exact THEN "weight" ELSE Garbage
                                ELSE x[d]]
  /\ Leave(l)
  /\ UNCHANGED <<launch, row, staged, total, result, words>>

(* Broken: a lane with nothing to add leaves the loop and its barriers.    *)
ReduceOrLeave(l) ==
  /\ At(l, "reduce")
  /\ IF l < at[l].stride
     THEN /\ smem' = [smem EXCEPT ![l] = Combine(@, smem[l + at[l].stride])]
          /\ Leave(l)
     ELSE at' = [at EXCEPT ![l].seg = @ + 1] /\ UNCHANGED <<smem, waiting>>
  /\ UNCHANGED <<launch, row, staged, x, total, result, words>>

Reduce(l) ==
  /\ At(l, "reduce")
  /\ smem' = IF l < at[l].stride
             THEN [smem EXCEPT ![l] = Combine(@, smem[l + at[l].stride])]
             ELSE smem
  /\ Leave(l)
  /\ UNCHANGED <<launch, row, staged, x, total, result, words>>

(* Every lane reads the result: rms, norm, max_score, amax.                *)
Total(l) ==
  /\ At(l, "total")
  /\ total' = [total EXCEPT ![l] = smem[0]]
  /\ Leave(l)
  /\ UNCHANGED <<launch, smem, row, staged, x, result, words>>

(* Normalize the lane's slice, in place or to an output of the same shape. *)
Write(l) ==
  /\ At(l, "write")
  /\ x' = [d \in Elem |->
             IF d \notin Strided(l) THEN x[d]
             ELSE IF total[l] = All(1) /\ x[d] = "raw" THEN "normed" ELSE Garbage]
  /\ Leave(l)
  /\ UNCHANGED <<launch, smem, row, staged, total, result, words>>

(* Rotate the pairs (d, d + half): most of them belong to two lanes.       *)
Rope(l) ==
  /\ At(l, "rope")
  /\ x' = [d \in Elem |->
             IF d \notin Rotated(l) THEN x[d]
             ELSE LET p == d % Half
                  IN IF x[p] = "normed" /\ x[p + Half] = "normed"
                     THEN "rotated" ELSE Garbage]
  /\ Leave(l)
  /\ UNCHANGED <<launch, smem, row, staged, total, result, words>>

(* Quantize the lane's element against the scale of the block.             *)
Stage(l) ==
  /\ At(l, "stage")
  /\ staged' = [staged EXCEPT ![l] = total[l]]
  /\ Leave(l)
  /\ UNCHANGED <<launch, smem, row, x, total, result, words>>

(* Lane 0 stores the scale, the first lanes one word of Pack bytes each.   *)
Pack4(l) ==
  /\ At(l, "pack")
  /\ LET r == Round(l) IN
     /\ result' = IF l = 0 THEN [result EXCEPT ![r] = total[l]] ELSE result
     /\ words' = IF l < nlanes \div Pack
                 THEN [words EXCEPT ![r][l] = {staged[m] : m \in Word(l)}]
                 ELSE words
  /\ Leave(l)
  /\ UNCHANGED <<launch, smem, row, staged, x, total>>

(* Lane 0 stores what the reduction yields.                                *)
Result(l) ==
  /\ At(l, "result")
  /\ result' = IF l = 0
               THEN [result EXCEPT ![Round(l)] =
                       IF Matmul THEN Combine(smem[0], smem[1]) ELSE smem[0]]
               ELSE result
  /\ Leave(l)
  /\ UNCHANGED <<launch, smem, row, staged, x, total, words>>

(* sync_cube: nobody leaves before everybody has come.                     *)
Release ==
  /\ waiting = Lane
  /\ at' = [l \in Lane |-> After(at[l])]
  /\ waiting' = {}
  /\ UNCHANGED <<launch, smem, row, staged, x, total, result, words>>

Segment(l) == \/ Prepare(l) \/ Fill(l) \/ Reduce(l) \/ Total(l) \/ Write(l)
              \/ Rope(l) \/ Stage(l) \/ Pack4(l) \/ Result(l)

Next == (\E l \in Lane : Segment(l)) \/ Release

Spec == Init /\ [][Next]_vars /\ WF_vars(Next)

-----------------------------------------------------------------------------
(* The memory a lane's next segment touches, as <<array, index>>.          *)

Cells(array, indices) == {<<array, i>> : i \in indices}

Reads(l) ==
  LET reduces == l < at[l].stride IN
  CASE At(l, "fill")   -> Cells(IF kernel = "coop" THEN "row" ELSE "x", Strided(l))
    [] At(l, "reduce") -> Cells("smem", IF reduces THEN {l, l + at[l].stride} ELSE {})
    [] At(l, "total")  -> Cells("smem", {0})
    [] At(l, "write")  -> Cells("x", Strided(l))
    [] At(l, "rope")   -> Cells("x", Rotated(l))
    [] At(l, "pack")   -> Cells("staged", IF l < nlanes \div Pack THEN Word(l) ELSE {})
    [] At(l, "result") -> Cells("smem", IF l > 0 THEN {} ELSE IF Matmul THEN {0, 1} ELSE {0})
    [] OTHER           -> {}

Writes(l) ==
  CASE At(l, "prepare") -> Cells("row", Blocked(l))
    [] At(l, "fill")    -> Cells("smem", {l}) \cup
                           Cells("x", IF kernel = "softmax" /\ Round(l) = 2
                                      THEN Strided(l) ELSE {})
    [] At(l, "reduce")  -> Cells("smem", IF l < at[l].stride THEN {l} ELSE {})
    [] At(l, "write")   -> Cells("x", Strided(l))
    [] At(l, "rope")    -> Cells("x", Rotated(l))
    [] At(l, "stage")   -> Cells("staged", {l})
    [] At(l, "pack")    -> Cells("words", IF l < nlanes \div Pack THEN {l} ELSE {})
                           \cup Cells("result", IF l = 0 THEN {Round(l)} ELSE {})
    [] At(l, "result")  -> Cells("result", IF l = 0 THEN {Round(l)} ELSE {})
    [] OTHER            -> {}

AllDone == \A l \in Lane : Phase(at[l]) = "done"

(* Between two barriers no lane writes what another reads or writes: what  *)
(* makes the value of a parallel kernel a function of its inputs, and what *)
(* the trailing barriers (after max_score, after a token) are there for.   *)
RaceFree ==
  \A l, m \in Lane : l # m => Writes(l) \cap (Reads(m) \cup Writes(m)) = {}

(* Every total read, and every result stored, folds each element of the    *)
(* slice exactly once, and of one round only: a max, not a sum; this       *)
(* token's partials, not the last one's.                                   *)
TotalsExact ==
  /\ \A l \in Lane : total[l] \in {Unset} \cup {All(r) : r \in 1..rounds}
  /\ \A l \in Lane : Phase(at[l]) \in {"write", "rope", "stage", "pack"}
                       => total[l] = All(Round(l))
  /\ \A r \in 1..rounds : result[r] \in {Unset, All(r)}

(* At the end every element has been through all its stages, each stage    *)
(* computed from finished inputs, and every word holds bytes of its round. *)
OutputExact ==
  AllDone =>
    /\ \A d \in Elem :
         x[d] = CASE kernel \in {"norm", "norm_rope"} ->
                       IF d < 2 * Half THEN "rotated" ELSE "normed"
                  [] kernel = "softmax" -> "weight"
                  [] OTHER -> "raw"
    /\ kernel \in {"norm", "norm_rope"} \/ \A r \in 1..rounds :
         result[r] = IF kernel = "softmax" /\ r = 1 THEN Unset ELSE All(r)
    /\ kernel = "kv_write" => \A r \in 1..rounds :
                                words[r] = [w \in DOMAIN words[r] |-> {All(r)}]

(* No lane is left behind at a barrier: the kernel ends.                   *)
Retires == <>AllDone

=============================================================================
