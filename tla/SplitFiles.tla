----------------------------- MODULE SplitFiles -----------------------------
(***************************************************************************)
(* A model split over several files (src/src/loader.rs): the parts are     *)
(* found by the name of the first, and a tensor is looked up by its offset *)
(* in all of them together.  Byte k of part i of a model is <<i, k>>.      *)
(***************************************************************************)
EXTENDS Integers, Sequences, SequencesExt

CONSTANTS
  MaxParts, \* the largest number of parts
  MaxSize,  \* the largest part, in bytes
  Digits    \* the forms the two numbers of a name come in: "padded", "plain"

ASSUME BoundsAssumption ==
  MaxParts \in Nat \ {0} /\ MaxSize \in Nat \ {0} /\ Digits \subseteq {"padded", "plain"}

VARIABLES
  sizes,   \* the parts on disk, in order
  digits,  \* how their names write the numbers: "-00001-of-00004", "-1-of-4"
  first,   \* the part whose name is given to load
  mmaps,   \* <<part, start>> of the files mapped so far
  mapping  \* "load", "ready", "err"

splitVars == <<sizes, digits, first, mmaps, mapping>>

-----------------------------------------------------------------------------
(* parse_split_index reads the numbers in either form; the total is used.  *)
Total == Len(sizes)

(* Mutant: the next start is that of the last file mapped.                 *)
LastStart(maps) == Last(maps)[2]

(* cumulative: where the next file starts.                                 *)
Cumulative(maps) == Last(maps)[2] + sizes[Last(maps)[1]]

(* sibling_path: "-00001-of-{total:05}" in the name is replaced.  Without  *)
(* it the name stays as it is, and names the first file again; the         *)
(* replacement is a name of a part, as the parts have padded numbers then. *)
Sibling(i) == IF first = 1 /\ digits = "padded" THEN i ELSE first

SplitInit ==
  /\ sizes \in UNION {[1 .. n -> 1 .. MaxSize] : n \in 1 .. MaxParts}
  /\ digits \in Digits /\ first \in DOMAIN sizes
  /\ mmaps = <<<<first, 0>>>>
  /\ mapping = "load"

(* The loop of MultiFileMmap::load, behind the first file; a part that     *)
(* cannot be opened is an Err.                                             *)
MapSibling ==
  /\ mapping = "load" /\ Len(mmaps) < Total
  /\ \/ mmaps' = Append(mmaps, <<Sibling(Len(mmaps) + 1), Cumulative(mmaps)>>) /\ UNCHANGED mapping
     \/ mapping' = "err" /\ UNCHANGED mmaps
  /\ UNCHANGED <<sizes, digits, first>>

AllMapped ==
  /\ mapping = "load" /\ Len(mmaps) = Total
  /\ mapping' = "ready"
  /\ UNCHANGED <<sizes, digits, first, mmaps>>

SplitNext == MapSibling \/ AllMapped

SplitSpec == SplitInit /\ [][SplitNext]_splitVars

-----------------------------------------------------------------------------
(* The file m holds len bytes from offset on.                              *)
Holds(m, offset, len) == m[2] <= offset /\ offset + len <= m[2] + sizes[m[1]]

(* slice: from the first file that holds it all, or None.                  *)
None == <<"None">>
Slice(offset, len) ==
  LET holding == {k \in DOMAIN mmaps : Holds(mmaps[k], offset, len)}
  IN  IF holding = {} THEN None
      ELSE LET m == mmaps[CHOOSE k \in holding : \A n \in holding : k <= n]
           IN  <<"Some", [k \in 1 .. len |-> <<m[1], offset - m[2] + k>>]>>

-----------------------------------------------------------------------------
(* Properties.                                                             *)

AllBytes == FlattenSeq([i \in DOMAIN sizes |-> [k \in 1 .. sizes[i] |-> <<i, k>>]])
Requests == (0 .. Len(AllBytes) + 1) \X (1 .. MaxSize + 1)

(* Of a model loaded by its first, padded name a slice is the bytes at     *)
(* that offset of all the parts together; only a slice that does not lie   *)
(* in one part is None.                                                    *)
SliceIsOfTheWhole ==
  (mapping = "ready" /\ first = 1 /\ digits = "padded") =>
     \A r \in Requests :
       LET onePart == /\ r[1] + r[2] <= Len(AllBytes)
                      /\ AllBytes[r[1] + 1][1] = AllBytes[r[1] + r[2]][1]
       IN  Slice(r[1], r[2]) =
             IF onePart THEN <<"Some", SubSeq(AllBytes, r[1] + 1, r[1] + r[2])>> ELSE None
=============================================================================
