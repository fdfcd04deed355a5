----------------------------- MODULE LlamaModel -----------------------------
(***************************************************************************)
(* The inference core: LlamaModel (src/src/model/llama) and the KvCache    *)
(* objects its callers own (src/src/model/mod.rs).                         *)
(*                                                                         *)
(* A call of Model::forward or Model::forward_batch is a pass: it carries  *)
(* the activations of a batch of tokens through the layer stack.  The CPU  *)
(* path (run, run_batch) goes layer by layer, all positions of the batch   *)
(* at each; the GPU-resident path (run_gpu_resident in a loop) goes token  *)
(* by token, all layers at each.  One step of this module is one layer of  *)
(* one position: mixer, residual, feed-forward, residual.                  *)
(*                                                                         *)
(* Memory between passes is of two kinds.  An attention layer writes the   *)
(* K/V of a position to a slot of a KV cache and reads all slots up to it: *)
(* the cache of the caller on the CPU, the cache of the model on the GPU.  *)
(* A recurrent layer (short convolution, gated delta net) folds its inputs *)
(* into a state that always belongs to the model.                          *)
(*                                                                         *)
(* Numbers are abstracted to names.  An activation, a cached slot, a       *)
(* recurrent state or a row of logits is named by the token history it is  *)
(* the reference value of, and is Garbage when it is the reference value   *)
(* of none: an attention that read a slot of another history, a recurrence *)
(* that continued one.  The input of layer 1 is an embedding, which        *)
(* depends on one token only.                                              *)
(***************************************************************************)
EXTENDS Integers, Sequences, FiniteSets

CONSTANTS
  Token,       \* the vocabulary: the rows of token_embd
  Invalid,     \* a token id without a row, as a foreign tokenizer may send
  Cache,       \* the KvCache objects of the callers
  Models,      \* the loaded models considered: records [path, layers, faulty]
  Geometries,  \* the cache shapes considered: functions Cache -> [max_seq, dtype]
  MaxBatch,    \* bound: tokens of one forward_batch
  MaxCalls,    \* bound: forward and forward_batch calls on one model
  Garbage      \* the name of a value that belongs to no token history

Kind     == {"attention", "recurrent"}
Path     == {"cpu", "gpu"}
Dtype    == {"f16", "q8_0"}
Geometry == [max_seq : Nat \ {0}, dtype : Dtype]

(* faulty is the first layer with a weight that cannot be read (a missing  *)
(* tensor, a type without dequantization), Depth + 1 for lm_head, 0 for    *)
(* none.  A model with one is never resident-ready, and errs in each pass. *)
ModelSet == {m \in [path : Path, layers : Seq(Kind) \ {<<>>}, faulty : Nat] :
               /\ m.faulty <= Len(m.layers) + 1
               /\ m.path = "gpu" => m.faulty = 0}

ASSUME ModelsAssumption     == Models \subseteq ModelSet
ASSUME GeometriesAssumption == Geometries \subseteq [Cache -> Geometry]
ASSUME BoundsAssumption     == MaxBatch \in Nat /\ MaxCalls \in Nat
ASSUME GarbageAssumption    == Garbage \notin Seq(Token) /\ Invalid \notin Token
ASSUME CacheAssumption      == Cache # {}

VARIABLES
  model,   \* LlamaModel: the path of every pass, the mixers, a fault
  geom,    \* max_seq_len and dtype of every caller's KvCache
  kv,      \* the slots of every caller's KvCache, by layer and position
  gpu,     \* gpu_kv_cache_k/v with gpu_kv_max_seq and gpu_kv_dtype
  rec,     \* conv_state, gdn_conv_state, gdn_recurrent_state, by layer
  state,   \* LlamaModel.state : Option<InferenceState>
  job,     \* arguments of the pass under way
  layer,   \* its layer, Depth + 1 once the stack is done
  t,       \* its position in the batch
  x,       \* the residual stream of every position of the batch
  logits,  \* what the last call on a cache returned; NoLogits after an Err
  seq,     \* the tokens a caller has placed in its cache, by position
  calls,   \* calls so far
  users,   \* the caches this model has served
  linear   \* no call has rewound, and none failed after layer work was done

passVars == <<state, job, layer, t, x>>
memVars  == <<kv, gpu, rec>>
vars == <<model, geom, kv, gpu, rec, state, job, layer, t, x, logits, seq,
          calls, users, linear>>

-----------------------------------------------------------------------------
(* Names.                                                                  *)

Name      == Seq(Token) \cup {Garbage}
Unwritten == <<>>     \* a slot nothing has been written to
NoLogits  == <<>>
Batches   == UNION {[1..n -> Token \cup {Invalid}] : n \in 1..MaxBatch}
Embed(id) == IF id \in Token THEN <<id>> ELSE Garbage
Depth     == Len(model.layers)
Layers    == 1..Depth

(* Attention of layer i at position p with query own: softmax over the     *)
(* scores of slots 0..p.  At layer 1 a slot holds a single token.          *)
Attend(i, slots, own, p) ==
  IF own = Garbage \/ \E k \in 0..p : slots[k] \in {Unwritten, Garbage} THEN Garbage
  ELSE IF i = 1
  THEN IF slots[p] = own THEN [k \in 1..(p + 1) |-> slots[k - 1][1]] ELSE Garbage
  ELSE IF \A k \in 0..p : slots[k] = SubSeq(own, 1, k + 1) THEN own ELSE Garbage

(* Broken: the state is read as if it were zero.                           *)
RecurFromZero(i, mem, own) == own

(* The recurrence of layer i: the state has absorbed mem, own comes next.  *)
Recur(i, mem, own) ==
  IF Garbage \in {mem, own} THEN Garbage
  ELSE IF i = 1 THEN mem \o own
  ELSE IF own = Append(mem, own[Len(own)]) THEN own ELSE Garbage

-----------------------------------------------------------------------------
(* Allocation.                                                             *)

Blank(g) == [i \in Layers |-> [p \in 0..(g.max_seq - 1) |-> Unwritten]]

(* Broken: allocates for every call.                                       *)
AllocateGpuKvCache(g) == [geom |-> g, slots |-> Blank(g)]

(* Reallocates, dropping what is cached, when max_seq or dtype changed.    *)
EnsureGpuKvCache(g) ==
  IF gpu.geom = g THEN gpu ELSE [geom |-> g, slots |-> Blank(g)]

NoGpuCache == [geom |-> [max_seq |-> 0, dtype |-> "f16"],
               slots |-> [i \in Layers |-> [p \in {} |-> Unwritten]]]

NoJob == [cache |-> CHOOSE c \in Cache : TRUE, toks |-> <<>>, start |-> 0]

-----------------------------------------------------------------------------
(* Passes.                                                                 *)

OnCpu    == model.path = "cpu"
Width    == Len(job.toks)
BatchIndex == t - 1     \* broken: the index in the batch taken for the position
Position == job.start + t - 1
Slots    == IF OnCpu THEN kv[job.cache] ELSE gpu.slots

(* run_batch embeds the whole batch first, the GPU loop token by token.    *)
EmbedErr ==
  /\ layer = 1
  /\ IF OnCpu THEN \E k \in 1..Width : job.toks[k] = Invalid
              ELSE job.toks[t] = Invalid

Mixing == /\ state = "taken" /\ layer <= Depth
          /\ ~EmbedErr
          /\ model.faulty = 0 \/ layer <= model.faulty

Init ==
  /\ model \in Models
  /\ geom \in Geometries
  /\ kv = [c \in Cache |-> Blank(geom[c])]
  /\ gpu = NoGpuCache
  /\ rec = [i \in Layers |-> <<>>]
  /\ state = "present"
  /\ job = NoJob /\ layer = 1 /\ t = 1 /\ x = <<>>
  /\ logits = [c \in Cache |-> NoLogits]
  /\ seq = [c \in Cache |-> <<>>]
  /\ calls = 0 /\ users = {} /\ linear = TRUE

(* forward(token, pos, kv) is the batch of one token.  A caller appends to *)
(* what its cache holds or rewinds to an earlier position, and stays in    *)
(* the cache: KvCache::write slices out of range and panics otherwise.     *)
Begin(c, toks, start) ==
  /\ state = "present"
  /\ calls < MaxCalls
  /\ start + Len(toks) <= geom[c].max_seq
  /\ state' = "taken"
  /\ job' = [cache |-> c, toks |-> toks, start |-> start]
  /\ layer' = 1 /\ t' = 1
  /\ x' = [k \in 1..Len(toks) |-> Embed(toks[k])]
  /\ gpu' = IF OnCpu THEN gpu ELSE EnsureGpuKvCache(geom[c])
  /\ logits' = [logits EXCEPT ![c] = NoLogits]
  /\ seq' = [seq EXCEPT ![c] = SubSeq(@, 1, start)]
  /\ calls' = calls + 1
  /\ users' = users \cup {c}
  /\ linear' = (linear /\ start = Len(seq[c]))
  /\ UNCHANGED <<model, geom, kv, rec>>

(* The order in which a pass visits layers and positions.  Broken: the     *)
(* position loop without its increment; the token loop without its end.    *)
StuckBatch ==
  IF t < Width THEN layer' = layer /\ t' = t
               ELSE layer' = layer + 1 /\ t' = 1

UnboundedResident ==
  IF layer < Depth THEN layer' = layer + 1 /\ t' = t
                   ELSE layer' = 1 /\ t' = t + 1

AdvanceBatch ==
  IF t < Width THEN layer' = layer /\ t' = t + 1
               ELSE layer' = layer + 1 /\ t' = 1

AdvanceResident ==
  IF layer < Depth \/ t = Width
  THEN layer' = layer + 1 /\ t' = t
  ELSE layer' = 1 /\ t' = t + 1

Advance == IF OnCpu THEN AdvanceBatch ELSE AdvanceResident

(* Attention and GatedAttention: write this position, then read up to it.  *)
AttentionLayer ==
  /\ Mixing /\ model.layers[layer] = "attention"
  /\ LET written == [Slots EXCEPT ![layer][Position] = x[t]]
     IN /\ x' = [x EXCEPT ![t] = Attend(layer, written[layer], x[t], Position)]
        /\ IF OnCpu
           THEN kv' = [kv EXCEPT ![job.cache] = written] /\ UNCHANGED gpu
           ELSE gpu' = [gpu EXCEPT !.slots = written] /\ UNCHANGED kv
  /\ Advance
  /\ UNCHANGED <<model, geom, rec, state, job, logits, seq, calls, users, linear>>

(* ShortConv and GatedDeltaNet: pos plays no part.                         *)
RecurrentLayer ==
  /\ Mixing /\ model.layers[layer] = "recurrent"
  /\ rec' = [rec EXCEPT ![layer] = Recur(layer, @, x[t])]
  /\ x' = [x EXCEPT ![t] = rec'[layer]]
  /\ Advance
  /\ UNCHANGED <<model, geom, kv, gpu, state, job, logits, seq, calls, users, linear>>

EndPass ==
  /\ state' = "present"
  /\ job' = NoJob /\ layer' = 1 /\ t' = 1 /\ x' = <<>>

(* Broken: the logits of the first position; an Ok without logits.         *)
FinishFirst ==
  /\ state = "taken" /\ layer > Depth /\ model.faulty = 0
  /\ logits' = [logits EXCEPT ![job.cache] = x[1]]
  /\ seq' = [seq EXCEPT ![job.cache] = @ \o job.toks]
  /\ EndPass
  /\ UNCHANGED <<model, geom, kv, gpu, rec, calls, users, linear>>

FinishSilently ==
  /\ state = "taken" /\ layer > Depth /\ model.faulty = 0
  /\ logits' = logits
  /\ seq' = [seq EXCEPT ![job.cache] = @ \o job.toks]
  /\ EndPass
  /\ UNCHANGED <<model, geom, kv, gpu, rec, calls, users, linear>>

(* Output norm and lm_head of the last position; the state is put back.    *)
Finish ==
  /\ state = "taken" /\ layer > Depth /\ model.faulty = 0
  /\ logits' = [logits EXCEPT ![job.cache] = x[Width]]
  /\ seq' = [seq EXCEPT ![job.cache] = @ \o job.toks]
  /\ EndPass
  /\ UNCHANGED <<model, geom, kv, gpu, rec, calls, users, linear>>

(* An Err ends the pass where it is and puts the state back; nothing that  *)
(* was written is rolled back.                                             *)
Fail ==
  /\ EndPass
  /\ UNCHANGED <<model, geom, kv, gpu, rec, logits, seq, calls, users>>

FailEmbedding ==
  /\ state = "taken" /\ EmbedErr
  /\ linear' = (linear /\ (OnCpu \/ t = 1))
  /\ Fail

(* The weights of a layer are read before its mixer (wq, in_proj), after   *)
(* its first position (out_proj, which recurrent and gated layers read     *)
(* position by position) and after its last (wo, the feed-forward).        *)
FailWeights ==
  /\ state = "taken" /\ ~EmbedErr
  /\ model.faulty # 0
  /\ (layer = model.faulty /\ t <= 2) \/ layer = model.faulty + 1
  /\ linear' = FALSE
  /\ Fail

Call == \E c \in Cache : \E toks \in Batches, start \in 0..Len(seq[c]) :
          Begin(c, toks, start)
Step == AttentionLayer \/ RecurrentLayer \/ Finish \/ FailEmbedding \/ FailWeights

Next == Call \/ Step

Spec     == Init /\ [][Next]_vars
FairSpec == Spec /\ WF_vars(Step)

-----------------------------------------------------------------------------
(* What the callers rely on.                                               *)

HasKind(k) == \E i \in Layers : model.layers[i] = k

(* How far a model can be shared.  Attention on the CPU keeps nothing in   *)
(* the model, so any number of caches may take turns, rewind and retry.    *)
(* On the GPU the model holds the one KV cache.  A recurrent layer cannot  *)
(* go back either.                                                         *)
Supported(c) ==
  /\ (~OnCpu \/ HasKind("recurrent")) => users \subseteq {c}
  /\ HasKind("recurrent") => linear

Owner(c)    == state = "taken" /\ job.cache = c
Intended(c) == IF Owner(c) THEN seq[c] \o job.toks ELSE seq[c]

(* The name a slot of layer i must hold for position p of token history h. *)
Reference(h, i, p) == IF i = 1 THEN <<h[p + 1]>> ELSE SubSeq(h, 1, p + 1)

TypeOK ==
  /\ model \in Models
  /\ geom \in Geometries
  /\ kv = [c \in Cache |-> kv[c]]
  /\ \A c \in Cache : kv[c] \in [Layers -> [0..(geom[c].max_seq - 1) -> Name]]
  /\ gpu = [geom |-> gpu.geom, slots |-> gpu.slots]
  /\ gpu.geom \in {NoGpuCache.geom} \cup {geom[c] : c \in Cache}
  /\ gpu.slots \in [Layers -> [0..(gpu.geom.max_seq - 1) -> Name]]
  /\ rec \in [Layers -> Name]
  /\ state \in {"present", "taken"}
  /\ job.cache \in Cache /\ job.toks \in Batches \cup {<<>>} /\ job.start \in Nat
  /\ layer \in 1..(Depth + 1) /\ t \in Nat \ {0} /\ (state = "taken" => t <= Width)
  /\ x \in Seq(Name) /\ Len(x) = Width
  /\ logits \in [Cache -> Name]
  /\ seq \in [Cache -> Seq(Token)]
  /\ calls \in 0..MaxCalls /\ users \subseteq Cache /\ linear \in BOOLEAN

(* What a call returns is the row of logits of exactly the tokens placed   *)
(* in its cache, however they were split into forward and forward_batch    *)
(* calls, on either path (Model::forward_batch: "behaviourally identical   *)
(* to sequential prefill").                                                *)
LogitsExact ==
  \A c \in Cache : Supported(c) /\ logits[c] # NoLogits => logits[c] = seq[c]

(* Every attention layer holds the K/V of every position a caller has      *)
(* placed and not rewound, also while a pass runs and after one failed.    *)
CachedPrefixExact ==
  \A c \in Cache, i \in Layers :
    /\ Supported(c) /\ model.layers[i] = "attention"
    /\ OnCpu \/ c \in users
    => \A p \in 0..(Len(seq[c]) - 1) :
         (IF OnCpu THEN kv[c] ELSE gpu.slots)[i][p] = Reference(seq[c], i, p)

(* The recurrent states of the layers have absorbed the same sequence, up  *)
(* to the positions of the running pass each has already seen.             *)
Absorbed(i) ==
  IF i < layer THEN IF OnCpu THEN Width ELSE t
  ELSE IF i = layer \/ ~OnCpu THEN t - 1 ELSE 0

RecurrenceInStep ==
  \A c \in Cache, i \in Layers :
    Supported(c) /\ c \in users /\ model.layers[i] = "recurrent"
    => rec[i] = IF state = "taken"
                THEN SubSeq(Intended(c), 1, job.start + Absorbed(i))
                ELSE seq[c]

(* "every position is fully written before it's ever read"                 *)
(* (ensure_gpu_kv_cache): the slots below the position an attention layer  *)
(* is about to write are all written, so what it reads is.                 *)
WrittenBeforeRead ==
  Mixing /\ model.layers[layer] = "attention"
  => \A p \in 0..(Position - 1) : Slots[layer][p] # Unwritten

(* A step changes no slot of a caller's cache below the positions the pass *)
(* in that cache is placing: not in another cache, and not in a failed     *)
(* pass, so the caller can retry from job.start.                           *)
CommittedSlotsStable ==
  [][\A c \in Cache, i \in Layers : \A p \in 0..(Len(seq[c]) - 1) :
       kv'[c][i][p] = kv[c][i][p]]_vars

(* "The caller never needs to know which architecture is running" (Model): *)
(* no condition on how caches share a model or on its mixers.              *)
ArchitectureAgnostic ==
  \A c \in Cache : logits[c] # NoLogits => logits[c] = seq[c]

(* Every call returns: the pass reaches the end of the stack or an Err.    *)
PassesEnd == state = "taken" ~> state = "present"

=============================================================================
