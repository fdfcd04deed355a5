------------------------------ MODULE MmapRelease ------------------------------
(***************************************************************************)
(* pre_upload_gpu (src/src/model/llama/gpu_resident.rs) reads the weights  *)
(* of a model from the mapped file and copies them to the GPU, in the      *)
(* order of the file, and tells the kernel after each of them that the     *)
(* pages read so far are no longer needed (release_mmap_prefix), so that   *)
(* the page cache never holds the whole file beside the copy on the GPU.   *)
(*                                                                         *)
(* Addresses are bytes, page p holds the bytes p * PageSize up to          *)
(* (p + 1) * PageSize, and raw_data starts at base, which need not be the  *)
(* start of a page.  resident is the part of the page cache that belongs   *)
(* to the mapping: a read brings pages in, MADV_DONTNEED drops them.       *)
(***************************************************************************)
EXTENDS Integers, Sequences, Functions

CONSTANTS
  PageSize,   \* page_size()
  Layouts     \* the files: base, the weights to upload in the order in which
              \* the layers name them, and the pages that loading has touched

Region == [off : Nat, size : Nat \ {0}]
Layout == [base : Nat, regions : Seq(Region), touched : SUBSET Nat]

ASSUME PageAssumption == PageSize \in Nat \ {0}
ASSUME LayoutsAssumption == Layouts \subseteq Layout

VARIABLES
  layout,     \* the file being uploaded
  queue,      \* to_upload_sorted
  uploaded,   \* how many of them are on the GPU
  released,   \* released_up_to, an offset in raw_data
  dropped,    \* the pages that madvise was called for, so far
  resident    \* the pages of the mapping in the page cache

releaseVars == <<layout, queue, uploaded, released, dropped, resident>>

End(r) == r.off + r.size

(* The bytes of raw_data consumed by the first n uploads.                  *)
Consumed(n) == IF n = 0 THEN 0 ELSE End(queue[n])

(* The pages with bytes of a region: a read brings them in.                *)
FirstPage(r) == (layout.base + r.off) \div PageSize
LastPage(r)  == (layout.base + End(r) - 1) \div PageSize
PagesOf(r)   == FirstPage(r) .. LastPage(r)

(* sort_by_key(byte_offset).  Regions of the same offset are the same      *)
(* tensor, so it does not matter that the sort is stable.                  *)
Orders(regions) ==
  {[i \in DOMAIN regions |-> regions[p[i]]] : p \in Bijection(DOMAIN regions, DOMAIN regions)}
Ascending(q) == \A j, k \in DOMAIN q : j < k => q[j].off <= q[k].off
Declared(regions) == {regions}       \* broken: uploads in the order of the layers
SortByOffset(regions) == {q \in Orders(regions) : Ascending(q)}

(* release_mmap_prefix: the whole pages between what was released before   *)
(* and new_end, rounded up and down, and the new high-water mark.          *)
FromPage(rel) == (layout.base + rel + PageSize - 1) \div PageSize
ToPageUp(new_end) == (layout.base + new_end + PageSize - 1) \div PageSize   \* broken: rounds up
ToPage(new_end) == (layout.base + new_end) \div PageSize
Releases(rel, new_end) == new_end > rel /\ ToPage(new_end) > FromPage(rel)
Advised(rel, new_end) ==
  IF Releases(rel, new_end) THEN FromPage(rel) .. (ToPage(new_end) - 1) ELSE {}
ToNewEnd(rel, new_end) ==            \* broken: forgets the bytes of the page cut
  IF Releases(rel, new_end) THEN new_end ELSE rel
ReleasedUpTo(rel, new_end) ==
  IF Releases(rel, new_end) THEN ToPage(new_end) * PageSize - layout.base ELSE rel

ReleaseInit ==
  /\ layout \in Layouts
  /\ queue \in SortByOffset(layout.regions)
  /\ uploaded = 0 /\ released = 0
  /\ dropped = {} /\ resident = layout.touched

Upload ==
  /\ uploaded < Len(queue)
  /\ uploaded' = uploaded + 1
  /\ LET r       == queue[uploaded + 1]
         advised == Advised(released, End(r))
     IN /\ released' = ReleasedUpTo(released, End(r))
        /\ dropped'  = dropped \cup advised
        /\ resident' = (resident \cup PagesOf(r)) \ advised
  /\ UNCHANGED <<layout, queue>>

ReleaseNext == Upload

ReleaseSpec == ReleaseInit /\ [][ReleaseNext]_releaseVars
-----------------------------------------------------------------------------
(* The weights of the model do not share a byte (none is named twice).     *)
Disjoint ==
  \A j, k \in DOMAIN layout.regions : j # k =>
    \/ End(layout.regions[j]) <= layout.regions[k].off
    \/ End(layout.regions[k]) <= layout.regions[j].off

TypeOK ==
  /\ layout \in Layouts
  /\ queue \in Seq(Region)
  /\ uploaded \in 0 .. Len(queue)
  /\ released \in Nat
  /\ dropped \subseteq Nat /\ resident \subseteq Nat

(* No page is dropped that holds a byte of a weight still to be uploaded,  *)
(* wherever the tensors start and end within their pages: no byte is read  *)
(* from the disk twice.                                                    *)
PendingKept ==
  \A k \in (uploaded + 1) .. Len(queue) : dropped \cap PagesOf(queue[k]) = {}

(* The same for the weights of a model in which none is named twice.       *)
PendingKeptDisjoint == Disjoint => PendingKept

(* The other half: after an upload no page that lies within the consumed   *)
(* prefix is left in the page cache, however small the regions are and     *)
(* whatever was touched before, so the cache holds less than a page at     *)
(* each end and what is still to come.                                     *)
ConsumedReleased ==
  (Disjoint /\ uploaded > 0) =>
    \A p \in resident :
      ~ (layout.base <= p * PageSize /\ (p + 1) * PageSize <= layout.base + Consumed(uploaded))
=============================================================================
