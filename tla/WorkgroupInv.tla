---------------------------- MODULE WorkgroupInv ----------------------------
(***************************************************************************)
(* The inductive invariant behind RaceFree, TotalsExact and OutputExact.   *)
(*                                                                         *)
(* Between two barriers every lane is in the same interval: a segment and  *)
(* those after it up to a sync_cube or the end.  The invariant names the   *)
(* first segment c of that interval and says, in terms of c and of what    *)
(* each lane has already done, what every memory holds.                    *)
(***************************************************************************)
EXTENDS Workgroup

(* The strides a reduction of this workgroup goes through.                 *)
Strides == CHOOSE S \in SUBSET (1..nlanes) : nlanes \in S /\ Chain(S)

(* Where a lane can be.                                                    *)
Place == {a \in [seg : 0..5, round : 1..rounds, stride : 0..nlanes] :
            /\ a.seg <= Len(Body(a.round))
            /\ Phase(a) = "done"   => a.round = rounds
            /\ Phase(a) = "reduce" => /\ a.stride \in Strides /\ a.stride >= LastStride
                                      /\ 2 * a.stride <= nlanes}

Partial == [round : 1..rounds, elems : SUBSET Elem]
Value   == Partial \cup {Garbage, Unset}

Launch ==
  /\ kernel \in Kernels /\ nlanes \in LaneCounts
  /\ n \in Sizes /\ n_rot \in Nat /\ n_rot <= n
  /\ kernel = "kv_write" => n <= nlanes
  /\ kernel # "norm_rope" => n_rot = 0
  /\ rounds \in Nat \ {0}
  /\ kernel \in {"softmax", "kv_write"} => rounds = 2
  /\ kernel \in {"norm", "norm_rope"} => rounds = 1

TypeOK ==
  /\ Launch
  /\ at \in [Lane -> Place] /\ waiting \subseteq Lane
  /\ smem \in [Lane -> Value] /\ total \in [Lane -> Value] /\ staged \in [Lane -> Value]
  /\ row \in [Elem -> {Unset, "dequantized"}]
  /\ x \in [Elem -> {"raw", "normed", "rotated", "weight", Garbage}]
  /\ result \in [1..rounds -> Value]
  /\ words \in [1..rounds -> [0..(nlanes \div Pack - 1) -> {Unset} \cup SUBSET Value]]

-----------------------------------------------------------------------------
(* The interval that begins with segment c.                                *)

Ends(a) == Phase(a) = "done" \/ Sync(a)

Within(c) ==
  {c} \cup IF Ends(c) THEN {}
           ELSE {After(c)} \cup IF Ends(After(c)) THEN {} ELSE {After(After(c))}

Interval(c) ==
  /\ c \in Place
  /\ Phase(c) # "write" /\ (Phase(c) = "done" => Matmul)
  /\ \A l \in Lane : at[l] \in Within(c) /\ (l \in waiting => Sync(at[l]))

(* What a lane has done of it: the first segment; the write after a total. *)
Did(l, c)   == at[l] # c \/ l \in waiting
DidWrite(l) == Phase(at[l]) = "done" \/ (Phase(at[l]) = "write" /\ l \in waiting)

(* The elements congruent to l modulo m, folded in round r.                *)
Fold(r, m, l) == [round |-> r, elems |-> {d \in Elem : d % m = l}]

RowReady(c) ==
  kernel = "coop" =>
    \A l \in Lane : Phase(c) # "prepare" \/ Did(l, c) =>
      \A d \in Blocked(l) : row[d] = "dequantized"

(* A reduction at stride s turns residues modulo 2s into residues modulo s.*)
Partials(c) ==
  /\ Phase(c) = "fill" =>
       \A l \in Lane : Did(l, c) => smem[l] = Fold(c.round, nlanes, l)
  /\ Phase(c) = "reduce" =>
       \A l \in Lane : l < 2 * c.stride =>
         smem[l] = Fold(c.round, IF l < c.stride /\ Did(l, c) THEN c.stride
                                 ELSE 2 * c.stride, l)
  /\ Phase(c) \in {"total", "result"} =>
       \A l \in 0..(LastStride - 1) : smem[l] = Fold(c.round, LastStride, l)

Totals(c) ==
  /\ \A l \in Lane : total[l] \in {Unset} \cup {All(r) : r \in 1..rounds}
  /\ \A l \in Lane :
       \/ Phase(c) = "total" /\ Did(l, c)
       \/ Phase(c) \in {"stage", "pack", "rope"}
       => total[l] = All(c.round)
  /\ kernel = "softmax" /\ c.round = 2 => \A l \in Lane : total[l] = All(1)

Slices(c) ==
  /\ kernel \in {"norm", "norm_rope"} /\ Phase(c) # "rope" =>
       \A l \in Lane : \A d \in Strided(l) :
         x[d] = IF Phase(c) = "total" /\ DidWrite(l) THEN "normed" ELSE "raw"
  /\ Phase(c) = "rope" =>
       /\ \A l \in Lane : \A d \in Rotated(l) :
            x[d] = IF Did(l, c) THEN "rotated" ELSE "normed"
       /\ \A d \in Elem : d >= 2 * Half => x[d] = "normed"
  /\ kernel = "softmax" =>
       IF c.round = 1 THEN \A d \in Elem : x[d] = "raw"
       ELSE \A l \in Lane : Phase(c) # "fill" \/ Did(l, c) =>
              \A d \in Strided(l) : x[d] = "weight"
  /\ kernel \in {"kv_write", "matmul", "coop"} => \A d \in Elem : x[d] = "raw"

StagedBytes(c) ==
  \A l \in Lane : Phase(c) = "pack" \/ (Phase(c) = "stage" /\ Did(l, c))
                  => staged[l] = All(c.round)

(* Rounds that are over, and the one that is ending.                       *)
Stored(c, r, l) ==
  \/ r < c.round
  \/ Phase(c) = "done"
  \/ r = c.round /\ Phase(c) \in {"result", "pack"} /\ Did(l, c)

Results(c) ==
  /\ kernel = "softmax" => result[1] = Unset
  /\ \A r \in 1..rounds :
       /\ result[r] \in {Unset, All(r)}
       /\ Stored(c, r, 0) => (kernel = "softmax" /\ r = 1) \/ result[r] = All(r)
       /\ kernel = "kv_write" =>
            \A w \in 0..(nlanes \div Pack - 1) :
              Stored(c, r, w) => words[r][w] = {All(r)}

Memory(c) == /\ RowReady(c) /\ Partials(c) /\ Totals(c) /\ Slices(c)
             /\ StagedBytes(c) /\ Results(c)

IInv == TypeOK /\ \E c \in Place : Interval(c) /\ Memory(c)

=============================================================================
