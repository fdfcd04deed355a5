---------------------------- MODULE LlamaModelInv ----------------------------
(***************************************************************************)
(* The inductive invariant behind LogitsExact.  LogitsExact speaks of what *)
(* a call returned; to be preserved it needs to know what every activation *)
(* under way, every slot and every recurrent state holds in the middle of  *)
(* a pass, in either order of layers and positions.                        *)
(***************************************************************************)
EXTENDS LlamaModel

(* The positions of the batch that have been through layer i.              *)
Through(i) ==
  IF OnCpu THEN IF i < layer THEN Width ELSE IF i = layer THEN t - 1 ELSE 0
           ELSE IF i < layer THEN t ELSE t - 1

(* The next layer of position k.                                           *)
LayerOf(k) ==
  IF OnCpu THEN IF k < t THEN layer + 1 ELSE layer
           ELSE IF k < t THEN Depth + 1 ELSE IF k = t THEN layer ELSE 1

History == seq[job.cache] \o job.toks

(* The cursor stays within the batch and the stack, the batch within the   *)
(* cache, and the pass belongs to a cache the model knows.                 *)
PassShape ==
  state = "taken" =>
    /\ Width >= 1 /\ t \in 1..Width
    /\ layer > Depth => t = IF OnCpu THEN 1 ELSE Width
    /\ job.start = Len(seq[job.cache])
    /\ job.start + Width <= geom[job.cache].max_seq
    /\ job.cache \in users
    /\ logits[job.cache] = NoLogits
    /\ ~OnCpu => gpu.geom = geom[job.cache]

(* Only tokens that were embedded get past the start of layer 1.           *)
Embedded ==
  state = "taken" =>
    \A k \in 1..Width :
      (IF OnCpu THEN layer > 1 \/ t > 1 ELSE k < t \/ (k = t /\ layer > 1))
      => job.toks[k] \in Token

(* A cache the model has not served is empty, and no other holds more      *)
(* tokens than it has slots.                                               *)
Served ==
  \A c \in Cache :
    /\ c \notin users => seq[c] = <<>> /\ logits[c] = NoLogits
    /\ Len(seq[c]) <= geom[c].max_seq
    /\ ~OnCpu /\ users = {c} => gpu.geom = geom[c]

(* Before the first call the recurrent states are zero.                    *)
Fresh == users = {} => /\ rec = [i \in Layers |-> <<>>]
                       /\ state = "present"

(* What the running pass has written and computed.                         *)
InFlight ==
  state = "taken" /\ Supported(job.cache) =>
    /\ \A i \in Layers : model.layers[i] = "attention" =>
         \A k \in 1..Through(i) :
           Slots[i][job.start + k - 1] = Reference(History, i, job.start + k - 1)
    /\ \A i \in Layers : model.layers[i] = "recurrent" =>
         rec[i] = SubSeq(History, 1, job.start + Through(i))
    /\ \A k \in 1..Width :
         x[k] = IF LayerOf(k) = 1 THEN Embed(job.toks[k])
                ELSE SubSeq(History, 1, job.start + k)

(* Between passes the recurrent states have absorbed what was placed.      *)
AtRest ==
  state = "present" =>
    \A c \in users : Supported(c) =>
      \A i \in Layers : model.layers[i] = "recurrent" => rec[i] = seq[c]

IInv == /\ TypeOK /\ PassShape /\ Embedded /\ Served /\ Fresh
        /\ CachedPrefixExact /\ InFlight /\ AtRest /\ LogitsExact

=============================================================================
