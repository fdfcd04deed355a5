------------------------------ MODULE ModelLoad ------------------------------
(***************************************************************************)
(* From a GGUF file to the first answer (src/src/model/llama/):            *)
(* from_gguf_with_backend looks at the tensors to see what layers there    *)
(* are, pre_upload_gpu copies what a GPU kernel can read, a pass then      *)
(* takes every weight from the GPU or from the file, or keeps everything   *)
(* on the GPU if gpu_resident_ready_backend found it complete.  Four lists *)
(* of tensors written in four places have to fit together, for files that  *)
(* may lack tensors or hold them in formats one side cannot read.          *)
(*                                                                         *)
(* A tensor is known by its layer (0 for the whole model) and its name.    *)
(* Its format is "gpu" (Q8_0, Q4_K, Q5_K, Q6_K), "float" (F32, F16; only   *)
(* the CPU reads these, as Q5_0 and Q2_K), "bf16" or "other" (no code      *)
(* reads it); it is whole unless the file ends inside it.                  *)
(***************************************************************************)
EXTENDS Integers, Sequences, SequencesExt

CONSTANTS
  Files,   \* the files considered
  Backends \* a subset of {"cpu", "wgpu"}

ASSUME BackendsAssumption == Backends \subseteq {"cpu", "wgpu"}
ASSUME FilesAssumption ==
  \A f \in Files :
    /\ f.blocks \in Nat
    /\ \A t \in DOMAIN f.tensors :
         /\ f.tensors[t].format \in {"gpu", "float", "bf16", "other"}
         /\ f.tensors[t].whole \in BOOLEAN

T(i, name) == <<i, name>>

(* Names are those of the GGUF file without "blk.{i}.", ".weight", ".bias".*)

VARIABLES
  file,     \* the tensors, the metadata keys and the number of layers
  backend,  \* where matmuls run if they can
  pc,       \* "load", "upload", "warmup", "idle", "pass", "done"
  todo,     \* what the current function still does, in order
  gpu,      \* the entries of the gpu_* maps of the model
  compiled, \* the matmul kernels compiled before the first pass
  stalls,   \* the kernels a pass had to compile
  result    \* "ok", "err" or "panic"

vars == <<file, backend, pc, todo, gpu, compiled, stalls, result>>

Layers == 1 .. file.blocks
Has(t) == t \in DOMAIN file.tensors
Format(t) == file.tensors[t].format
Whole(t) == file.tensors[t].whole

-----------------------------------------------------------------------------
(* The layers of the model.                                                *)

Mixer(i) ==
  IF Has(T(i, "shortconv.conv")) THEN "ShortConv"
  ELSE IF Has(T(i, "ssm_alpha")) THEN "GatedDeltaNet"
  ELSE IF i \in file.wide THEN "GatedAttention"
  ELSE "Attention"

lm_head == IF Has(T(0, "output")) THEN T(0, "output") ELSE T(0, "token_embd")

(* The QK-norms of a layer: of an Attention layer those the file has.      *)
QkNorms(i) ==
  CASE Mixer(i) = "GatedAttention" -> {T(i, "attn_q_norm"), T(i, "attn_k_norm")}
    [] Mixer(i) = "Attention" -> {t \in {T(i, "attn_q_norm"), T(i, "attn_k_norm")} : Has(t)}
    [] OTHER -> {}

(* The projections that read the normed activations together, and the one  *)
(* behind the mixer.                                                       *)
Inputs(i) ==
  CASE Mixer(i) = "ShortConv" -> <<T(i, "shortconv.in_proj")>>
    [] Mixer(i) = "GatedDeltaNet" ->
         <<T(i, "attn_qkv"), T(i, "attn_gate"), T(i, "ssm_beta"), T(i, "ssm_alpha")>>
    [] OTHER -> <<T(i, "attn_q"), T(i, "attn_k"), T(i, "attn_v")>>
Output(i) ==
  CASE Mixer(i) = "ShortConv" -> T(i, "shortconv.out_proj")
    [] Mixer(i) = "GatedDeltaNet" -> T(i, "ssm_out")
    [] OTHER -> T(i, "attn_output")
Ffn(i) == <<T(i, "ffn_gate"), T(i, "ffn_up"), T(i, "ffn_down")>>

-----------------------------------------------------------------------------
(* Accesses: what is done with a tensor or a map, and its outcome.         *)

(* quant::dequant_row, and WeightMap::dequant_tensor, which knows no BF16  *)
(* and takes its slice before it looks.                                    *)
DequantRow(t) == IF Has(t) /\ Whole(t) /\ Format(t) # "other" THEN "ok" ELSE "err"
DequantTensor(t) ==
  IF ~Has(t) THEN "err"
  ELSE IF Format(t) \notin {"gpu", "float"} THEN "err"
  ELSE IF Whole(t) THEN "ok"
  ELSE IF Format(t) = "float" THEN "panic" ELSE "err"

OnGpu(t) == <<"gpu_tensors", t>> \in gpu

(* LlamaModel::matmul_into: the uploaded tensor; else, with a GPU, a slice *)
(* of the file, uploaded for this call if a kernel can read it; else the   *)
(* CPU.                                                                    *)
AdHoc(t) == backend = "wgpu" /\ ~OnGpu(t) /\ Has(t) /\ Whole(t) /\ Format(t) = "gpu"
Matmul(t) ==
  IF OnGpu(t) THEN "ok"
  ELSE IF backend = "wgpu" /\ Has(t) /\ ~Whole(t) THEN "panic"
  ELSE DequantRow(t)

(* matmul_qkv_into, matmul_gdn_proj_into: together if all are uploaded.    *)
First(outcomes) ==
  LET bad == {k \in DOMAIN outcomes : outcomes[k] # "ok"}
  IN  IF bad = {} THEN "ok" ELSE outcomes[CHOOSE k \in bad : \A n \in bad : k <= n]
Together(ts) == First([k \in DOMAIN ts |-> Matmul(ts[k])])

(* Mutant: ffn_down is not looked at.                                      *)
GateAndUpOnGpu(ts) == OnGpu(ts[1]) /\ OnGpu(ts[2])

(* matmul_ffn_into: chained if all three are uploaded, else gate and up on *)
(* the CPU whatever the backend, and down as any matmul.                   *)
FfnChained(ts) == \A k \in DOMAIN ts : OnGpu(ts[k])
FfnOutcome(ts) ==
  IF FfnChained(ts) THEN "ok" ELSE First(<<DequantRow(ts[1]), DequantRow(ts[2]), Matmul(ts[3])>>)

(* What a model without the metadata of its layers meets: gdn_dims is None,*)
(* l_cache is 0 and l_cache - 1 taps are out of range.                     *)
DimsOf(i) ==
  IF \/ Mixer(i) = "GatedDeltaNet" /\ "ssm" \notin file.keys
     \/ Mixer(i) = "ShortConv" /\ "l_cache" \notin file.keys
  THEN "panic" ELSE "ok"

(* A tensor no kernel can read is passed over (GPU_DEQUANT_DTYPES).        *)
Uploadable(t) == Has(t) /\ Format(t) = "gpu"

(* Indexing a gpu_* map without an entry panics.                           *)
Lookup(entries) == IF entries \subseteq gpu THEN "ok" ELSE "panic"

Outcome(a) ==
  CASE a.op = "present"        -> IF \E t \in a.of : Has(t) THEN "ok" ELSE "err"
    [] a.op = "dequant_row"    -> DequantRow(a.of)
    [] a.op = "dequant_tensor" -> DequantTensor(a.of)
    [] a.op = "upload"         -> IF Uploadable(a.of) => Whole(a.of) THEN "ok" ELSE "panic"
    [] a.op = "matmul"         -> Matmul(a.of)
    [] a.op = "together"       -> Together(a.of)
    [] a.op = "ffn"            -> FfnOutcome(a.of)
    [] a.op = "matmul_batch"   -> DequantRow(a.of)
    [] a.op = "dims"           -> DimsOf(a.of)
    [] a.op \in {"lookup", "lm_head"} -> Lookup(a.of)

Do(op, of) == [op |-> op, of |-> of]
Each(op, ts) == [k \in DOMAIN ts |-> Do(op, ts[k])]
PerLayer(F(_)) == FlattenSeq([i \in Layers |-> F(i)])

-----------------------------------------------------------------------------
(* from_gguf_with_backend.                                                 *)

LoadMixer(i) ==
  CASE Mixer(i) = "ShortConv" -> <<Do("dequant_tensor", T(i, "shortconv.conv"))>>
    [] Mixer(i) = "GatedDeltaNet" ->
         <<Do("dequant_tensor", T(i, "ssm_conv1d")), Do("dequant_row", T(i, "ssm_a")),
           Do("dequant_row", T(i, "ssm_dt")), Do("dequant_row", T(i, "ssm_norm"))>>
    [] OTHER -> <<Do("present", {T(i, "attn_q")})>>
FfnNorm(i) == IF Has(T(i, "ffn_norm")) THEN T(i, "ffn_norm") ELSE T(i, "post_attention_norm")
OutputNorm == IF Has(T(0, "output_norm")) THEN T(0, "output_norm") ELSE T(0, "token_embd_norm")

LoadLayer(i) == LoadMixer(i) \o <<Do("dequant_row", FfnNorm(i)), Do("dequant_row", T(i, "attn_norm"))>>
LoadProgram ==
  <<Do("present", {T(0, "token_embd")})>>
    \o PerLayer(LoadLayer)
    \o <<Do("present", {T(0, "output_norm"), T(0, "token_embd_norm")}), Do("dequant_row", OutputNorm)>>

-----------------------------------------------------------------------------
(* pre_upload_gpu.                                                         *)

(* Mutant: the projection behind a Gated DeltaNet mixer is not in the list.*)
HotLayerWithoutSsmOut(i) ==
  Inputs(i) \o (IF Mixer(i) = "GatedDeltaNet" THEN <<>> ELSE <<Output(i)>>) \o Ffn(i)

(* The tensors of the matmuls; those a kernel can read are uploaded, each  *)
(* from a slice of the file, in an order that only release_mmap_prefix     *)
(* depends on.                                                             *)
HotLayer(i) == Inputs(i) \o <<Output(i)>> \o Ffn(i)
HotPath == PerLayer(HotLayer) \o <<lm_head, T(0, "token_embd")>>
UploadProgram == Each("upload", HotPath)

(* The small maps: norms, taps and histories, the QK-norms that can be     *)
(* read, and the Gated DeltaNet tensors and states if the dims are known.  *)
GdnMaps == {"gpu_gdn_conv_weights", "gpu_gdn_ssm_norm", "gpu_gdn_ssm_a", "gpu_gdn_ssm_dt_bias",
            "gpu_gdn_conv_history", "gpu_gdn_recurrent_state"}
SmallMaps(i) ==
  ({"gpu_attn_norms", "gpu_ffn_norms"} \X {i})
    \union (IF Mixer(i) = "ShortConv" THEN {"gpu_conv_weights", "gpu_conv_history"} \X {i} ELSE {})
    \union ({"gpu_qk_norm"} \X {t \in QkNorms(i) : DequantRow(t) = "ok"})
    \union (IF Mixer(i) = "GatedDeltaNet" /\ "ssm" \in file.keys THEN GdnMaps \X {i} ELSE {})

-----------------------------------------------------------------------------
(* gpu_resident_ready_backend.                                             *)

(* Mutant: the QK-norms are not looked at.                                 *)
MixerReadyWithoutNorms(i) ==
  /\ \A t \in ToSet(Inputs(i)) \union {Output(i)} : OnGpu(t)
  /\ Mixer(i) = "ShortConv" => {"gpu_conv_weights", "gpu_conv_history"} \X {i} \subseteq gpu
  /\ Mixer(i) = "GatedDeltaNet" => GdnMaps \X {i} \subseteq gpu

MixerReady(i) ==
  /\ \A t \in ToSet(Inputs(i)) \union {Output(i)} : OnGpu(t)
  /\ {"gpu_qk_norm"} \X QkNorms(i) \subseteq gpu
  /\ Mixer(i) = "ShortConv" => {"gpu_conv_weights", "gpu_conv_history"} \X {i} \subseteq gpu
  /\ Mixer(i) = "GatedDeltaNet" => GdnMaps \X {i} \subseteq gpu

Ready ==
  /\ backend = "wgpu"
  /\ OnGpu(lm_head) /\ <<"gpu_output_norm", 0>> \in gpu
  /\ \A i \in Layers :
       /\ {"gpu_attn_norms", "gpu_ffn_norms"} \X {i} \subseteq gpu
       /\ MixerReady(i)
       /\ \A t \in ToSet(Ffn(i)) : OnGpu(t)

-----------------------------------------------------------------------------
(* Passes: run, run_batch, run_gpu_resident.                               *)

Embedding == <<Do("dequant_row", T(0, "token_embd"))>>

RunMixer(i) ==
  <<Do("dims", i), Do("together", Inputs(i))>> \o Each("dequant_row", SetToSeq(QkNorms(i)))
    \o <<Do("matmul", Output(i))>>
RunLayer(i) == RunMixer(i) \o <<Do("ffn", Ffn(i))>>
Run == Embedding \o PerLayer(RunLayer) \o <<Do("matmul", lm_head)>>

(* Plain attention and the FFN read their weights in batches, from the     *)
(* file; the other mixers are those of run, position by position.          *)
BatchLayer(i) ==
  (IF Mixer(i) = "Attention"
   THEN Each("matmul_batch", Inputs(i)) \o Each("dequant_row", SetToSeq(QkNorms(i)))
          \o <<Do("matmul_batch", Output(i))>>
   ELSE RunMixer(i))
    \o Each("matmul_batch", Ffn(i))
RunBatch == Embedding \o PerLayer(BatchLayer) \o <<Do("matmul", lm_head)>>

(* The entries run_gpu_resident indexes.                                   *)
MixerLookups(i) ==
  CASE Mixer(i) = "ShortConv" -> {"gpu_conv_weights", "gpu_conv_history"} \X {i}
    [] Mixer(i) = "GatedDeltaNet" -> GdnMaps \X {i}
    [] OTHER -> ({"gpu_qk_norm"} \X QkNorms(i)) \union ({"gpu_kv_cache_k", "gpu_kv_cache_v"} \X {i})
Tensors(ts) == {"gpu_tensors"} \X ToSet(ts)
ResidentLayer(i) ==
  <<Do("dims", i), Do("lookup", Tensors(Inputs(i)) \union MixerLookups(i)),
    Do("lookup", Tensors(<<Output(i)>>)),
    Do("lookup", Tensors(Ffn(i)) \union {<<"gpu_attn_norms", i>>, <<"gpu_ffn_norms", i>>})>>
RunGpuResident ==
  Embedding \o PerLayer(ResidentLayer)
    \o <<Do("lookup", {<<"gpu_output_norm", 0>>}), Do("lm_head", {<<"gpu_tensors", lm_head>>})>>

(* ensure_gpu_kv_cache, called before a resident pass.                     *)
KvEntries ==
  UNION {IF Mixer(i) \in {"Attention", "GatedAttention"}
         THEN {"gpu_kv_cache_k", "gpu_kv_cache_v"} \X {i} ELSE {} : i \in Layers}

(* The matmul kernels an access launches: the activation-typed one for     *)
(* chained projections, the f32 one where the result is read back.         *)
Kernels(a) ==
  CASE a.op = "lm_head" -> {"matmul_dequant_wgpu_f32out"}
    [] a.op = "lookup" /\ (\E e \in a.of : e[1] = "gpu_tensors") -> {"matmul_dequant_wgpu"}
    [] a.op = "ffn" /\ FfnChained(a.of) -> {"matmul_dequant_wgpu"}
    [] a.op = "ffn" /\ ~FfnChained(a.of) /\ OnGpu(a.of[3]) -> {"matmul_dequant_wgpu_f32out"}
    [] a.op = "matmul" /\ (OnGpu(a.of) \/ AdHoc(a.of)) -> {"matmul_dequant_wgpu_f32out"}
    [] a.op = "together" /\ (\E k \in DOMAIN a.of : OnGpu(a.of[k])) -> {"matmul_dequant_wgpu_f32out"}
    [] OTHER -> {}

-----------------------------------------------------------------------------
Init ==
  /\ file \in Files /\ backend \in Backends
  /\ pc = "load" /\ todo = LoadProgram
  /\ gpu = {} /\ compiled = {} /\ stalls = {} /\ result = "ok"

(* One access of the running function; the first that fails ends it.       *)
Access ==
  /\ pc \in {"load", "upload", "pass"} /\ todo # <<>>
  /\ LET a == Head(todo) IN
     /\ result' = Outcome(a)
     /\ pc' = IF Outcome(a) = "ok" THEN pc ELSE "done"
     /\ gpu' = IF a.op = "upload" /\ Uploadable(a.of) /\ Outcome(a) = "ok"
               THEN gpu \union {<<"gpu_tensors", a.of>>} ELSE gpu
     /\ stalls' = stalls \union (Kernels(a) \ compiled)
  /\ todo' = Tail(todo)
  /\ UNCHANGED <<file, backend, compiled>>

(* create_model_with_backend goes on to pre_upload_gpu, which returns      *)
(* without a GPU.                                                          *)
Loaded ==
  /\ pc = "load" /\ todo = <<>>
  /\ pc' = IF backend = "wgpu" THEN "upload" ELSE "idle"
  /\ todo' = IF backend = "wgpu" THEN UploadProgram ELSE <<>>
  /\ UNCHANGED <<file, backend, gpu, compiled, stalls, result>>

UploadSmall ==
  /\ pc = "upload" /\ todo = <<>>
  /\ gpu' = gpu \union {<<"gpu_output_norm", 0>>} \union (UNION {SmallMaps(i) : i \in Layers})
  /\ pc' = "warmup"
  /\ UNCHANGED <<file, backend, todo, compiled, stalls, result>>

(* warmup: one dummy matmul_dequant for every dtype in gpu_tensors, whose  *)
(* result is read back.                                                    *)
Warmed == IF \E e \in gpu : e[1] = "gpu_tensors" THEN {"matmul_dequant_wgpu_f32out"} ELSE {}
Warmup ==
  /\ pc = "warmup"
  /\ compiled' = Warmed
  /\ pc' = "idle"
  /\ UNCHANGED <<file, backend, todo, gpu, stalls, result>>

(* forward or forward_batch.                                               *)
Forward ==
  /\ pc = "idle"
  /\ IF Ready
     THEN todo' = RunGpuResident /\ gpu' = gpu \union KvEntries
     ELSE todo' \in {Run, RunBatch} /\ gpu' = gpu
  /\ pc' = "pass"
  /\ UNCHANGED <<file, backend, compiled, stalls, result>>

Return ==
  /\ pc = "pass" /\ todo = <<>>
  /\ pc' = "done"
  /\ UNCHANGED <<file, backend, todo, gpu, compiled, stalls, result>>

Next == Access \/ Loaded \/ UploadSmall \/ Warmup \/ Forward \/ Return

Spec == Init /\ [][Next]_vars

-----------------------------------------------------------------------------
(* Properties.                                                             *)

(* A model declared ready for the resident path has every map entry that   *)
(* path will index: no file makes a resident pass panic in its middle.     *)
ResidentComplete ==
  (pc = "pass" /\ Ready) =>
    \A k \in DOMAIN todo : todo[k].op \in {"lookup", "lm_head"} => todo[k].of \subseteq gpu

(* "Collect all tensor names on the matmul hot path": no matmul of a pass  *)
(* is left to the ad-hoc upload, which would copy a weight for every token.*)
Matmuls(a) == CASE a.op = "matmul" -> {a.of} [] a.op = "together" -> ToSet(a.of)
                [] a.op = "ffn" -> {a.of[3]} [] OTHER -> {}
HotPathUploaded ==
  pc = "pass" => \A k \in DOMAIN todo : \A t \in Matmuls(todo[k]) : ~AdHoc(t)

(* What the answer depends on: the tensors a layer of this kind needs, and *)
(* whether they can be read; neither the backend nor the kind of call nor  *)
(* the path.  A file that lacks something is an Err, never a panic.        *)
LoadNeeds(i) ==
  CASE Mixer(i) = "GatedDeltaNet" -> {T(i, "ssm_a"), T(i, "ssm_dt"), T(i, "ssm_norm")} [] OTHER -> {}
Needed ==
  {T(0, "token_embd"), lm_head, OutputNorm} \union
  (UNION {ToSet(Inputs(i)) \union {Output(i)} \union ToSet(Ffn(i)) \union QkNorms(i) \union LoadNeeds(i)
            \union {FfnNorm(i), T(i, "attn_norm")} : i \in Layers})
Taps == {T(i, "shortconv.conv") : i \in {j \in Layers : Mixer(j) = "ShortConv"}}
          \union {T(i, "ssm_conv1d") : i \in {j \in Layers : Mixer(j) = "GatedDeltaNet"}}
Readable(t) == Has(t) /\ Whole(t) /\ Format(t) # "other"

(* Nothing is cut off and the layers have their metadata.                  *)
Intact == (\A t \in DOMAIN file.tensors : Whole(t)) /\ (\A i \in Layers : DimsOf(i) = "ok")
FileDecides ==
  (pc = "done" /\ Intact) =>
    result = IF (\A t \in Needed : Readable(t)) /\ (\A t \in Taps : Readable(t) /\ Format(t) # "bf16")
             THEN "ok" ELSE "err"

(* warmup_gpu_kernels runs "so the ~7s shader compile happens with a       *)
(* visible message at load time instead of silently stalling on the        *)
(* model's first forward pass" (src/src/model/llama/gpu_resident.rs:301),  *)
(* and warmup is to "Compile every GPU kernel variant a model will need,   *)
(* up front" (src/src/ops/backend_select.rs:113): no pass after loading    *)
(* launches a matmul kernel that was not compiled before it.               *)
FirstPassNeverStalls == stalls = {}
=============================================================================
