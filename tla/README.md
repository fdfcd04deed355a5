# agention-infer in TLA+

Specifications, model-checked instances and machine-checked proofs for
agention-infer, a GGUF inference engine in Rust (`src/src`). Configurations are
run with TLC (`tlc -config X.cfg M.tla`), proofs with TLAPS (`tlapm M.tla`).
`PROJECT.json` says which lines every definition stands for.

## 1. Inventory

| part | source | state it keeps | operations | interacts with |
|---|---|---|---|---|
| model | `model/llama/{mod,cpu_path,gpu_resident}.rs` | weights, `state: Option<InferenceState>`, GPU handles | `forward`, `forward_batch`, `pre_upload_gpu` | writes the caller's `KvCache` or its own GPU cache; reads `WeightMap`; launches kernels |
| recurrent mixers | `state.rs`, `cpu_path.rs` | `conv_state`, `gdn_conv_state`, `gdn_recurrent_state` per layer, GPU twins of them | one update per position | owned by the model, advanced by every pass |
| `KvCache` | `model/mod.rs` | packed K/V per layer and position, `max_seq_len`, dtype | `write`, `write_range`, `read_up_to` | owned by the caller, lent to a pass |
| GPU KV cache | `gpu_resident.rs` | `gpu_kv_cache_k/v`, `gpu_kv_max_seq`, `gpu_kv_dtype` | `ensure_gpu_kv_cache` | owned by the model, shaped by the caller's cache |
| decode loop | `runner.rs`, `bin/generate.rs`, `bin/generate_trace.rs` | `pos`, `logits`, emitted tokens, `KvCache` | prefill, decode, stop | drives the model and the sampler |
| GPU kernels | `ops/kernels_wgpu.rs` | shared memory of a workgroup, buffers | one launch each | launched in queue order by `wgpu_backend` |
| GPU backend | `ops/wgpu_backend/*` | client, buffer pools | uploads, launches, reads | kernels, model |
| upload | `gpu_resident.rs` | tensor handles, `released_up_to` | `pre_upload_gpu`, `release_mmap_prefix` | mmap, GPU backend |
| weights, quantization | `model/mod.rs`, `quant/*` | none | row dot products, dequantization, rayon loops | mmap |
| metadata | `model/mod.rs` | none | `ModelInfo`, `ModelConfig`, byte estimates | parser |
| parser, loader | `parser.rs`, `loader.rs` | read position; cumulative offsets of split files | parse, sibling names, slice | mmap |
| tokenizer | `tokenizer.rs` | vocabulary, merge ranks, special tokens | encode, decode | loop |
| sampler | `sampler.rs` | PRNG | sample | loop |
| streaming | `bin/generate.rs` | `pending` bytes | `flush_utf8` | loop |
| trace | `ops/trace.rs` | record buffer | push, dump | model, tools |
| backend selection | `ops/backend_select.rs`, `ops/mod.rs` | none | create, fall back | loop, tools |
| tools | the other `bin/*` | none | | everything |

Nothing in the engine runs concurrently but two things: the lanes of a GPU
workgroup, which share memory and barriers, and the rayon loops, which write
disjoint rows. What is hard is elsewhere: state that outlives a call and
belongs to somebody else than the caller (the recurrent states, the GPU cache);
two orders in which the same computation is done (batched by layer, resident by
token); calls that fail half way and leave their writes behind; positions,
capacities and boundaries; and inside a kernel the barriers that make reusing
shared memory safe. `PROJECT.json` lists these hazards at their lines.

What makes each part correct:

* model: the logits a call returns are those of the tokens placed in its cache,
  however they were split into calls and on whichever path; a pass ends.
* caches: a committed position keeps its K/V, in every layer, through other
  callers' passes and through failures.
* recurrent mixers: all layers have absorbed the same sequence.
* decode loop: the run is one the reference model allows token by token; it
  fits the cache, ends, and fails only for a cause.
* kernels: no race between barriers, every reduction folds every element once.
* layer programs: `run`, `run_batch` and `run_gpu_resident` compute the same
  network, and leave the same state, operation by operation.
* elementwise kernels: a launch stores what the CPU loops store, whatever the
  grid rounds up to and in whatever order its threads run.
* quantized rows: every element is read once, from its own bits, and every
  implementation of a format reads the same ones.
* `KvCache`: the packed bytes are a map from layer and position to what was last
  written there; the bytes promised are the bytes allocated.
* loading: a cut or unsupported file is refused at its first defect; no page is
  given back before its bytes are on the GPU; the four lists of tensors
  (loaded, uploaded, checked, used) fit together; the offsets of split files
  continue from part to part.
* tokenizer: no byte is lost, special tokens are whole, words and merges are those
  of the reference definitions, and `encode` returns.
* sampler: the token drawn is in the nucleus and drawn by its share, whenever the
  logits kept have a softmax.
* streaming: the screen is what decoding all tokens at once gives.

## 2. Modules

| module | what it is |
|---|---|
| `LlamaModel` | the model, the callers' caches, passes layer by layer |
| `LlamaModelInv`, `LlamaModelProofs` | its inductive invariant; type correctness, the proof that it is inductive, and what follows |
| `Autoregressive` | abstract: what a decode run promises |
| `Generation`, `GenerationProofs` | the decode loop composed with `LlamaModel`; the proofs |
| `Workgroup`, `WorkgroupInv`, `WorkgroupProofs` | one workgroup of a cooperative kernel; its inductive invariant; the proofs |
| `Elementwise`, `ElementwiseInv` | one launch of a kernel without shared memory; its inductive invariant |
| `LayerPrograms` | the operations inside a layer, on all three paths |
| `QuantLayout` | one row of quantized weights, walked by each implementation |
| `ArithmeticProofs` | the proofs about `Elementwise` and `QuantLayout` |
| `KvStore`, `KvCache` | abstract and byte-level KV cache |
| `KvDtype` | the two cache formats and the bytes of a token |
| `KvBudget` | memory promised and allocated |
| `KvProofs` | the proofs about `KvCache` and `KvBudget` |
| `SequenceLemmas` | induction and flattened sequences, for the proofs of three components |
| `GgufParser` | `parse`, read by read |
| `SplitFiles` | `MultiFileMmap` |
| `ModelLoad` | from a file to the first answer, as a set of tensors |
| `MmapRelease` | upload and release of pages |
| `LoadProofs` | the proofs about `GgufParser`, `SplitFiles`, `ModelLoad` and `MmapRelease` |
| `Tokenizer`, `Sampler`, `Utf8Stream` | the text side of `generate` |
| `TextProofs` | the proofs about `Tokenizer`, `Sampler` and `Utf8Stream` |
| `MCLlamaModel`, `MCGeneration` | instances for TLC |
| `MCArithmetic`, `MCLoad`, `MCText` | suites of instances |

`Generation` extends `LlamaModel`; `LlamaModel` takes three things for granted
that other modules show: a cache is a map (`KvCache` implements `KvStore`), a layer
computes its mixer on either path (`LayerPrograms`, whose operations are launches
that `Elementwise` and `Workgroup` check against the CPU loops), a pass has the
weights it needs (`ModelLoad`).

A suite puts components side by side that share no state. It extends those with
proofs (as `KvProofs`, `TextProofs`, `LoadProofs` and `ArithmeticProofs` do) and instantiates the
others; the variable `part` says which one a behaviour is
about, and the variables of the rest keep one of their initial values. So the
reachable states are those of the parts, one after the other, and not their
product.

### LlamaModel

A step is one layer of one position: mixer, residual, feed-forward, residual.
`Begin` is the entry of `forward` (a batch of one) and `forward_batch`: it takes
`state`, and on the GPU-resident path calls `ensure_gpu_kv_cache`. An empty
batch returns at once and changes nothing, so it is not an action.
`AttentionLayer` writes the slot of the position and reads all slots up to it;
`RecurrentLayer` advances the state of the layer. `Advance` is the order of the
pass: all positions per layer (`run_batch`; `run` is the case of one), or all
layers per position (`run_gpu_resident` in a loop). `Finish` returns the logits
of the last position, `FailEmbedding` and `FailWeights` are the `?` exits.

Numbers are abstracted to the token history they are the reference value of.
`<<a, b>>` as an activation is "what a correct model computes at position 1 after
a, b"; a value that is the reference value of no history is `Garbage`. So the
model does not decide what attention computes, it tells apart whether a layer
read the right slots and states. The input of layer 1 is an embedding and names
one token, which is why a layer-1 slot holds a single token; an attention over
wrong slots is `Garbage` at any layer.

`kv` and `gpu.slots` are indexed by layer and position. Blank slots are
`Unwritten`: zero in the code (f16 and CPU) or uninitialized (q8_0 on the GPU),
and the reference value of no history either way. `seq`, `users` and `linear`
are history variables: what a caller has committed, which caches the model has
served, and whether the calls have been append-only and free of late failures.

`Supported(c)` is how far a model can be shared, read off the code. On the CPU a
dense model can serve any number of caches, which may rewind and retry. On the
GPU the model holds one cache, so it can serve one. With recurrent layers it can
serve one, and only forward. Within it the properties below hold; the two runs
that expect a violation show that the condition is needed.

### Generation

`greedy_run_with_kv_dtype` with its two siblings: allocate the cache for the
run, prefill the prompt, then choose and place tokens. `Draw` is argmax or the
sampler as a set of tokens that depends on the logits, any token when they are
`Garbage`. A prompt longer than the context is rejected by no code. On a CPU path its
prefill panics in `KvCache::write` at the first attention layer (`OverrunPanics`); the
resident path never writes the caller's cache, its kernels do not look at the end,
and the loop behind it ends without a token (`OverrunUnchecked`, also of a model
without attention); an invalid id or a weight that cannot be read is met before
(`OverrunFails`). `Autoregressive` is the specification it
implements: a continuation in which each token is one the reference model
allows after all tokens before it, with a length limit computed from the
context. The refinement maps the three ways to end to `stopped` and `failed`.

### Workgroup

The cooperative kernels share one shape: fold a strided slice, reduce through
shared memory with a barrier per halving, use `smem[0]`. `Body` lists the
segments of each kernel, `Sync` the barriers between them, `After` the loops.
`norm` stands for `rms_norm`, `add_residual_rms_norm`, `l2_norm_heads` and
`gdn_gated_rms_norm`; `matmul` for the plain, the f32-output and the batched
matmul; `coop` for the two kernels that first dequantize the weight row into
shared memory. A segment of one lane is one step. This is sound when no two
lanes can be in conflicting segments at once, which is the property `RaceFree`.
`sync_cube` is taken to order storage buffers as well as shared memory. The launches
use 64 or 256 lanes; `LanesAssumption` asks no more than that the number can be
halved down to the stride a reduction ends with.

### Elementwise

A thread of such a kernel divides its flat index to find a head, a dimension, a
tap. `Load` computes what it stores from the memory it sees, `Store` writes it,
`Terminate` is the bounds check; threads interleave freely, which is what the
in-place kernels (`rope`, the two convolutions, the delta rule) have to stand.
Values are terms that name the elements they were computed from. `Launched` is
the launcher of `resident.rs`: the arrays it binds and the threads of its grid.
The right-hand sides after "What the CPU path stores" are the nested loops of
`cpu_path.rs` from the memory before the launch. A matmul is here one thread per
row, with its two-dimensional grid and its row guard; `Workgroup` looks inside.

### LayerPrograms

Each path is a program: a sequence of instructions over named buffers, written
down in the order of the source, with the scratch buffers of `InferenceState`, the
rows of `run_batch` (which shuttles recurrent and gated mixers through the state's
`xn` and `proj`), and the handles of `run_gpu_resident`, where rotation, gates and
norms work in place and a residual add is fused with the norm that follows it, be
it of the next layer. `Step` executes one instruction on terms. The reference is
the network as a definition by layer and position, with no buffers and no order.
`RopeGpu` has no scale because the launchers pass none.

### QuantLayout

A row is walked block by block on the CPU, lane by lane on the GPU. A unit of a
walk contributes, for each element, the bits of its quant, its scale, its minimum,
and the activation it meets; a byte is known by the row and offset it has in the
file. `row_view` may refuse the row, the fused dots of Q4_K and Q5_K panic when a
partial last group is shorter than the vectors they slice.

### KvDtype, KvCache, KvStore, KvBudget

`KvDtype` is `KvDtype::bytes_for`: a slot of the cache and an estimate of the
budget are both computed with it. `KvCache` has one byte array per layer for K and one for V, `pack` and `unpack` for
both formats, and the scratch `read_up_to` returns a prefix of, shared by all
layers and never cleared. The refinement reads a slot's token off its bytes.
`KvBudget` has the three places that compute the bytes of a cached token: the
planner (`ModelInfo`), the configuration (`ModelConfig`) and the allocation. The
`f32` scratch of a cache is in none of the estimates and is left out.

### GgufParser, SplitFiles

A document is flattened to fields as the format says, each with the error it
deserves; the file is its bytes, cut anywhere. The parser is a list of reads to
come that every value read may extend, in the order of the code. A byte knows the
field it belongs to, so a read that is out of step shows as a misread. `Document` is
the set of what can be written, of any size; the metadata gathered is a set of pairs,
since the map of the code has no order. `SplitFiles`
has the cumulative starts and the sibling names; only the path of a padded name
given by its first part is demanded to work. `MultiFileMmap` is exported and not
used by the binaries.

### ModelLoad

A file is a set of tensors with a format class and a flag for being cut. Functions
are lists of accesses with outcomes (`ok`, `err`, `panic`); the first that is not
`ok` ends the run. Loading, `pre_upload_gpu`, `warmup`, and then one pass: resident
if the model is found ready, else `run` or `run_batch` with each weight taken from
the GPU, uploaded for this one matmul, or read on the CPU. `compiled` and `stalls` are
the two matmul kernels, the activation-typed one and that of the read-back results;
the kernels of norms, attention and the like, which `warmup` does not compile either,
are left out. It is the release build (debug assertions off) without
`GGUF_CROSSCHECK_GPU`.

### MmapRelease

Pages of the page cache against the bytes of the weights. The code uploads in file
order and releases, after each tensor, the whole pages below its end. `touched`
are pages that loading had brought in before.

### Tokenizer

One step cuts a special token (the longest at the first place one begins), takes a
word off a gap (`Pretokenize`), merges one pair, or looks the symbols up. The
references are a declarative word pattern and the merge rounds of the published
algorithm, which merges every occurrence of the best pair before the next. A token
id stands for its string. `is_alphabetic` and `is_numeric` are the classes the
tables give; they are wider than `\p{L}` and `\p{N}`. Special tokens are not empty
(the scan would not advance) and of printable ASCII characters (any other, a space
among them, stands for another byte or for none when the token is decoded).

### Sampler

Floats have `Bits` significant bits and round to even, so every sum of the softmax
and both running sums round. A logit is finite, an infinity or a NaN of either sign,
ordered by `Above` as `>` and by `AtLeast` as `total_cmp`. `exp` is a table by distance
from the largest logit, one table for each temperature: the distance is a number,
infinite for a `-inf`, and none when the largest is infinite itself or a NaN is there
(`Away`); a temperature that is NaN, or so small that its reciprocal overflows, makes a
NaN of the distance 0, an infinite temperature one of an infinite distance. `Undefined` is when one
of these has left a NaN among the weights. Sorting leaves equal logits in any order. The comment says the nucleus ends when
the sum "exceeds" `top_p`; the code, and the model, end it at `>=`.

### Utf8Stream

A byte is ASCII, a lead of two or three, a continuation byte or none of these. What
`from_utf8` and `from_utf8_lossy` do is stated by positions: a byte starts something
unless it goes on a character begun before it (`Starts`), a text is valid when
everything that starts is complete, and `valid_up_to` is the longest valid prefix.
The remainder is printed when the loop ends; an `Err` of `forward` leaves it unprinted.

## 3. Runs

| run | states | what it shows |
|---|---|---|
| `llama_model` | 248,644 | `TypeOK`, `LogitsExact`, `CachedPrefixExact`, `RecurrenceInStep`, `CommittedSlotsStable`, `PassesEnd` |
| `generation` | 7,211 | `ImplementsReference`, `PlacesNextToken`, `FailsForCause`, `RunEnds` |
| `workgroup` | 99,448 | `RaceFree`, `TotalsExact`, `OutputExact`, `Retires` |
| `arithmetic` | 235,970 | `LaunchExact` (launches); `PathsAgree` (layers); `OncePerElement`, `AgreesWithDequant`, `OwnBits` (rows) |
| `load` | 110,379 | `ParseInvertsWrite`, `FirstDefectDecides` (parser); `SliceIsOfTheWhole` (split files); `ResidentComplete`, `HotPathUploaded`, `FileDecides` (model); `PendingKeptDisjoint`, `ConsumedReleased` (pages); `PlanIsTightForPlainFiles` (budget); `ImplementsStore` (cache bytes) |
| `text` | 2,419,707 | `NothingLost`, `SpecialsAreWhole`, `WordsFollowPattern`, `MergesFollowRounds`, `EncodeReturns` (tokenizer); `FallbackWithoutSoftmax`, `DrawnIsInNucleus`, `DrawnByShare` (sampler); `ScreenIsDecode`, `NoCharacterWaits` (streaming) |
| `shared_recurrence` | violation | a second sequence on a model with recurrent layers |
| `shared_gpu_cache` | violation | a second cache shape on the GPU-resident path |
| `linear_rope` | violation | a model with linear rope scaling on the resident path |
| `q2k_rows` | violation | the second row of a Q2_K tensor |
| `odd_budget` | violation | the budget of a file with per-layer heads or its own head dimension |
| `cold_kernels` | violation | the kernels compiled when the first resident pass runs |

Bounds. `llama_model`: two tokens and one invalid id, so histories can differ
and an embedding can fail; two caches of equal or different shape, so that the
GPU cache is shared or replaced; batches of up to two and three calls, enough for
place, rewind or fail, and place again with a second caller in between; stacks of
two and three layers with attention before, between and after recurrent layers,
one with an unreadable weight. `generation`: prompts of zero to three tokens
against contexts of one to four and up to three new tokens, so that every limit
is hit first in some run and the prompt can exceed the context. `workgroup`: four
and eight lanes (two and three reduction steps), slices of one, six and nine
elements (empty lanes, a partial round, more than one element per lane), two
tokens, pairs of which both members belong to one lane and to two.
`arithmetic`: four shapes (grouped heads, one KV head with a partial rotation, an
odd number of heads at the first position with a convolution without history, one
tap more than the shape of the others), workgroups of four threads and grids three
wide, so that every launch overhangs; stacks of every mixer alone and of the hybrid
models in small, up to three layers, three tokens split in five ways, so that every
path continues its own state and `run_batch` and `run` each other's; rows of one to
nine blocks, with partial last blocks wherever the code accepts them, and more
blocks than lanes. `load`: strings of up to two bytes, two
entries, two tensors, every kind of value and every unsupported field, cut at every
byte; up to three parts of up to three bytes; one- and two-layer models of all five
layer kinds with one tensor missing or in another format, and two for plain
attention; hybrid models with a tensor the file ends inside, or without metadata;
three tensors of one to six bytes on pages of four, which covers every alignment of
both ends; a cache of two layers and positions, head dimension three with
blocks of two, so that the last block is partial and slots do not align; budgets
around the size of one token and of many. `text`: texts of up to four characters
over the classes the splitter tells apart, up to five over two merging letters, and each contraction;
three merge tables (trained, out of order, with pieces that are no tokens); four
logits on the finite levels, both infinities and NaN of either sign, at most two of
them not finite (one, at the three unusual temperatures); answers of up to four tokens and eight
bytes, with tokens that begin and end inside characters.

`CHECK_DEADLOCK FALSE` because callers stop after `MaxCalls`, a decode run ends, a
kernel or launch retires, and a call of one of the sequential parts returns.

Fairness. A pass runs to its end on the calling thread without waiting for
anything, so weak fairness of `Step` is what the language gives; calls have
none, a caller need not come back. `Generation` is a sequential program, with
weak fairness of its next-state relation. `Workgroup` assumes that some lane
that can run does.
`encode` runs to its end on the calling thread: weak fairness of its step.

## 4. Proofs

`TypeCorrect`, `Inductive`, `LogitsAreExact`, `CachedPrefixIsExact`,
`RecurrenceStaysInStep` and `CommittedSlotsAreStable` are proved for all token
sets, caches, shapes, models and bounds. The assumptions are those named in
`LlamaModel`: constants of the right type, `Garbage` is no token sequence,
`Invalid` no token, there is a cache.

`LogitsExact` speaks of finished calls and is not inductive. `IInv` adds

* `PassShape`: the cursor within batch and stack, the batch within the cache;
* `Embedded`: what is past the start of layer 1 came from valid tokens;
* `Served`: a cache nobody has passed is empty;
* `Fresh`: before the first call the recurrent states are zero;
* `InFlight`: in the middle of a pass, for each layer, how many positions have
  been through it (`Through`), hence what its slots, its recurrent state and
  every activation hold. The two orders of layers and positions differ only in
  `Through` and `LayerOf`;
* `AtRest`: between passes the recurrent states equal what was placed.

The proof has one step per action. The attention step shows that the slots read
are exactly the reference slots (`InFlight` for this pass's positions,
`CachedPrefixExact` for earlier ones), the recurrent step that the state is one
token behind. `CommittedSlotsStable` follows from `PassShape`: a pass writes at
`job.start` or later, and `job.start` is the length of what is committed.

`LoadProofs` proves, for every page size, base, and list of weights,
`ReleaseInductive`, `ReleaseTypes`, `PendingIsKept` and `ConsumedIsReleased`. The
invariant `ReleaseInv` says that the queue is the list in ascending order (`Queued`) and, for
weights that do not overlap, that the high-water mark is right (`Watermark`): it is
zero or a page boundary, no whole page lies between it and what is consumed, the
pages dropped end at or below it and resident ones above it. The step is arithmetic
of rounding (`Rounding`, `PageBoundary`): the page in which one weight ends and the
next begins is the one that neither release may touch. Assumed: a positive page
size, layouts of the right type.

`LoadProofs` proves the parser correct for every document in `Document` and every
length its file is cut to: `ParseInductive`, `ParseReturnsTheDocument` and
`ParseRefusesTheFirstDefect`. A document flattens to a sequence of fields; `ParseInv`
splits it into what is read, free of defects and as long as `pos`, and the rest
(`Upto`), and ties plan, `vals` and `gguf` to that place (`Control`): the plan is what
the format has next, `vals` what it has had of the entry, `gguf` what it has had
before. A string, the items of an array and the dimensions of a tensor are one kind of
work, a unit of the plan repeated over groups of fields (`Job`); the rest is done field by
field. Every step then reads the field the format has next (`DocumentStep`), whose
bytes are the next of the file (`FieldAhead`), so no read is out of step; the error it
reports is the one owed to that field (`ErrorIsOwed`), and all fields before it have
none, which is what "first" means (`FirstIs`). At the end no field is left and the
mask of `align_to` gives the one multiple of 32 in range (`DataStartIs`). Assumed
(`DocumentsAssumption`): the documents are in `Document`.

`LoadProofs` proves `SlicesAreOfTheWhole`, for any number and sizes of parts. The
invariant is that the parts are mapped in order, each behind the one before
(`InOrder`). The bytes of all parts are then, by induction over the parts, each at
the start of its part plus its place in it (`AllBytesInOrder`), so a slice that lies
in one part is found there and nowhere else. Assumed: parts are not empty.

`LoadProofs` also proves, for every file, that `ModelLoad`'s lists of tensors fit
together: `ResidentPassesComplete`, `NoAdHocUpload` and `OnlyTheFileDecides`. A program enters these proofs only as the set of its accesses
(`RunElements` and its like), whatever their order. The invariant `PathsInv` says
that what is left to do belongs to the program that runs (`OfProgram`); that of the
tensors on the hot path exactly those a kernel can read are on the GPU once the
upload is through (`GpuFilled`), and a QK-norm only if it could be read
(`NormsFilled`). From these, what `gpu_resident_ready_backend` has found covers what
the resident pass indexes (`ResidentAccess`), and any other pass meets no tensor it
could upload. For `OnlyTheFileDecides`, an access says what it wants of the file
(`Wants`): it fails, and with an Err, just if it does not get it (`AccessOutcome`),
and the three kinds of pass, different as they are, want the same (`RunWants`,
`RunBatchWants`, `ResidentWants`). Assumed: formats are the four classes, a model
has a number of layers. `FileDecides` is about files that are `Intact`: nothing cut
off, and the metadata of the layers there; the other files panic on some paths.

`GenerationProofs` proves, for every prompt, sampler, context and limit,
`LoopIsACaller` (the loop, with the model in it, is a behaviour of `LlamaModel`'s
specification: it takes the calls the model allows, within `Supported`),
`FailureHasCause`, `NextTokenIsPlaced` and `FollowsReference`, the refinement of
`Autoregressive` without its fairness. The invariant is `LlamaModel`'s together with
`LoopInv`, which ties the two: while a pass runs, what it will have placed is the
text so far (`Calling`), between passes the cache holds it and the logits are there
(`Placed`), and a pass that cannot embed a token got it from the prompt. It is
`LogitsExact` that then makes the token chosen one the reference allows. Assumed: the
choices of a history are tokens (`ChoicesAssumption`), prompts are empty or batches,
and the bound on calls does not end the loop (`LoopBounds`).

`WorkgroupProofs` proves, for every kernel, length, and number of lanes,
`Inductive`, `NoRaces`, `TotalsAreExact` and `OutputIsExact`. None of the three is
inductive, a race being a fact about two lanes at once. What is: between two
barriers all lanes are in the same interval (`Interval`), and what each cell holds
follows from the interval and from which lanes have done their part of it
(`Memory`). In a reduction, `smem[l]` folds the elements congruent to `l` modulo twice
the stride, and modulo the stride once lane `l` is through (`Partials`); the step is
that two residue classes make one. No race follows because two lanes in one interval
touch different cells. The proof has a lemma for each segment, one for the barrier,
and one for the end. Assumed: lanes halve down to the last stride
(`LanesAssumption`) and come in whole packs, `Garbage` is no fold.

`ArithmeticProofs` proves `Inductive` and `LaunchIsExact`, for every shape, cache
length, block size, batch and grid limit, and for each of the fourteen kernels. The
invariant gives every element written one owner, the thread that stores it
(`Owner`): until the owner is done the element is as the launch found it, after that
it holds what the CPU path stores there (`MemHolds`), and a loaded thread carries
exactly its own stores (`RegsHold`). The proof is in two parts. That the steps keep the
invariant needs of a kernel only that it is `Sound`: its stores are in bounds and
have an owner that runs (`Placed`), there is one value for a cell (`Functional`), and
a thread whose memory is `Fresh`, where only other threads' cells may have changed,
computes its own stores (`Decodes`). That each kernel is `Sound` is arithmetic of
quotient and remainder, with one lemma per kernel: pairs of a head and a dimension
are the flat indices below their product (`Grid`); the pairs of two rotations, the
histories of two channels and the columns of two states are disjoint (`HistoryCells`,
`StateCells`), so no thread needs a cell of another; a q8_0 element has one block, word
and byte, in the token's record (`Q8Place`, `Q8Addresses`); whole workgroups and the
two-dimensional grid cover the outputs (`GroupsCover`, `Rounded`). TLC has checked
`IInv` and `Sound` on the shapes of `arithmetic` as far as it got and, to the end, on
smaller ones. Assumed of a shape: positive
dimensions, query heads in whole groups, an even `n_rot` within the head, `pos` below
the context (`ShapesAssumption`); of a q8_0 block that it is whole words. A model
without a mixer launches none of its kernels, and its `taps` and `v_dim` may be any
positive number.

It also proves, for every format, implementation, row length and number of rows,
`RowInductive`, `EveryElementOnce`, `EveryWalkAgrees` and `EveryRowOwnsItsBits`. An
element is a place: block, sub-block, and one of 32 (`Places`, `Index`). `Ref` says
once per format which scale, minimum and bits the element there is made of, and
`UnitOf` which block or lane reads it. The invariant (`RowInv`) is that what has been
collected is the `Ref` of the places owned by the units walked so far (`Made`). What
that rests on is `ReadsAre`: a unit reads the `Ref` of its places and nothing else, up
to elements past the end, with a lemma for each loop (`ElemsQ8`, `GroupQ4`, `UnitOfQ4`,
`DotQ8K`, `SlotQ6`, `BlockQ2`, ...), where nibbles in word order, shifts counted up
along the loop and slots across blocks all come to the same quotients and remainders.
The properties follow from `Ref`: places and elements are in bijection
(`PlaceIsReal`, `RealIsPlace`); no bit serves two elements (`BitTells`, `SameBlock`);
every address of a contribution lies in the row of the struct (`RefInRow`) and every
memory holds there the byte of the same row of the file (`RowIsOwn`), whether rows
follow each other or are packed to words. The last fails for the later rows of Q2_K,
which is the finding of `q2k_rows`; `EveryWalkAgrees` and `EveryRowOwnsItsBits` are
under the hypothesis that Q2_K is read in its first row (`FirstRowOfQ2K`), as is the run
`arithmetic`, and `EveryElementOnce` needs no hypothesis. A row the view refuses ends in
`error` and a group the fused dots cannot slice in `panic`, of which they say nothing.
Assumed: a format is read by the loops the code has for it
(`WalksAssumption`).

`KvProofs` proves `CacheIsAStore`: for every number of layers, positions, head
dimension and block size, and both formats, `KvCache` implements `KvStore`. The invariant says
that a slot is blank or holds one vector whole, in K and in V (`Written`): a pack
writes exactly the bytes of its elements (`PackF16`, `PackQ8`), over whatever a slot
held before (`PackAgain`), inside the slot (`PackedSlot`), and an unpack gives the
vector back (`UnpackPacked`), zeros for a blank slot (`UnpackBlank`). `write_range` is a
recursive function over the positions of a batch; what it computes
(`RangeContents`) is by induction, in the form that a set which contains 0 and with
each number its successor is all of `Nat`. Assumed: a positive block size, a scale of
two bytes, positive dimensions. `PlansAreTight`: the bytes of a cache are linear in
the context with the factor the planner divides by (`CacheBytesLinear`), so the
quotient is the largest context that fits (`Tight`). Assumed: metadata of the right
type.

`TextProofs` proves `EncodeKeepsTheText` and `SpecialsStayWhole`, for every text and
every table, and `ScreenShowsTheAnswer` and `OnlyBeginningsWait`, for every
vocabulary, valid UTF-8 or not. The invariant of `encode` (`TokInv`) is about types,
and `NothingLost` is inductive with it: each step moves bytes from one part to
another in their order (`NothingLostStep`). Behind that is that flattening
distributes over concatenation (`FlattenConcat`, by induction over sequences) and so
do the maps of characters to bytes and back (`FlatMapConcat`), that the 256
characters of the bytes differ (`ByteToCharInjective`, by counting the bytes that
have none of their own), hence a word in symbols is decoded to its bytes
(`SymbolsOfWord`), that a merge keeps what the symbols spell (`MergeKeepsText`)
whatever pair it takes, and that a symbol looked up character by character is
decoded as it is whole (`LookupBytes`). A special token at a place behind the first
word of the gap would be one of the gap (`AtBehind`), which `find_next_special` has
excluded (`NextSpecial`). For the stream, the invariant says that the answer so far
is a printed part, valid as text, and a pending one no prefix of which is valid
(`Split`). After a valid text a second one is decoded as it is alone (`LossyConcat`)
and is valid when both together are (`ValidConcat`), so what a flush prints extends
the decoding of the whole. Assumed: the types of texts and tables, with the special
tokens as above.

For the sampler, `SampleInductive`, `FallbackOnlyWithoutSoftmax` and
`DrawnTokenIsInNucleus` hold for any number of logits, infinities and NaNs among them,
any float precision and any table of `exp`, those of a temperature without a finite
reciprocal too. The probabilities, once sorted, are summed twice, to find the cutoff and
to find the draw; `SampleInv` says that both loops have added the same prefix of the same
sequence, that the cutoff is the first place where the sum reaches `top_p`, and that the
scaled draw is above every sum passed. Rounding is monotone (`RoundBelow`) and leaves
what is a float alone, so the draw, at most the whole sum before it is rounded, cannot be
above it after: while the kept logits have a softmax the loop finds a candidate
(`DefinedWeights`). When they have none, one weight is NaN (`UndefinedWeight`), hence the
sum of all (`SumWithNaN`) and every probability, no comparison holds, and the loop falls
through (`NaNInv`, `NaNFacts`). That a candidate drawn has positive weight is the strict
growth of the sum where the loop stopped. Assumed (`FormatAssumption`): a format of at
least one significant bit, infinities and NaNs told apart from each other and from every
number, and tables in which the exponential of 0 is one or, at such a temperature, NaN.

Only model-checked: liveness (`PassesEnd`, `RunEnds`, `Retires`, `EncodeReturns`, and
the fairness in `ImplementsReference`); what definitions compute that are
`RECURSIVE` (the network of `LayerPrograms`, hence `PathsAgree`, and the merge rounds);
`DrawnByShare`, which bounds by how much rounding moves
the share of a candidate and needs an error analysis of the sums;
that words and merges follow the reference (`WordsFollowPattern`,
`MergesFollowRounds`), the rounds being recursive over the symbols.

## 5. Disagreements found

* `ArchitectureAgnostic` (`shared_recurrence`). "The caller never needs to know
  which architecture is running" (`model/mod.rs:470`), but recurrent states belong
  to the model and ignore `pos` and `kv_cache`: a new cache on a used hybrid model
  continues the old sequence.
* `WrittenBeforeRead` (`shared_gpu_cache`). "every position is fully written
  before it's ever read" (`gpu_resident.rs:272`), but a call with another cache
  shape reallocates, and the next call of the first caller reads slots that
  nothing has written.
* `OwnBits` (`q2k_rows`). `block_bytes` gives a Q2_K block 256 bytes (`types.rs:137`),
  its own module 84 (`quant/q2_k.rs:3`): `row_view` starts every row but the first in
  the wrong place.
* `LogitsAgree` (`linear_rope`). Linear scaling "divides the effective position"
  (`cpu_path.rs:24`) on the CPU; the resident path launches `rope` without it and
  does not warn.
* `PlanIsTight` (`odd_budget`). The estimate is "exact" (`model/mod.rs:177`), but the
  planner reads one scalar `head_count_kv` and `embedding_length / head_count`, the
  cache per-layer arrays and `attention.key_length`.
* `FirstPassNeverStalls` (`cold_kernels`). The compile happens "at load time instead of
  silently stalling on the model's first forward pass" (`gpu_resident.rs:303`), for
  "every GPU kernel variant a model will need, up front" (`backend_select.rs:113`), but
  `warmup` calls `matmul_dequant` alone, which launches the f32-output kernel
  (`wgpu_backend/mod.rs:664`): the first resident pass compiles the other one
  (`wgpu_backend/resident.rs:24`).

Met while modelling, without a run of their own; each is an exit or an exclusion in
the module named:

* `QuantLayout`: the fused dots of Q4_K and Q5_K slice past the end of a row whose
  last group is short (`quant/q4_k.rs:138`), which the dequantizers allow.
* `Sampler`: the "Numerical fallback" (`sampler.rs:114`) is not reached by any rounding.
  It is reached, and always, when the kept logits have no softmax: the largest is
  infinite or a NaN, a NaN is kept, or the temperature is NaN, has no finite reciprocal,
  or is infinite with a logit of `-inf` kept (`sampler.rs:80-84`). Then the first after
  the sort is returned, which may be a NaN.
* `Generation`: a prompt longer than the context panics on the CPU paths
  (`model/mod.rs:662`); the resident path launches past the end of its cache without a
  check (`ops/kernels_wgpu.rs:567-581`) and returns no tokens.
* `MmapRelease`: tied embeddings put one tensor into the upload list twice
  (`gpu_resident.rs:110`); its pages are dropped and read again. `Disjoint` is the
  condition.
* `Utf8Stream`: a byte that no later one repairs stops the stream until the end of the
  answer (`bin/generate.rs:235`), hence the condition of `NoCharacterWaits`.
* `Tokenizer`: user-defined tokens count as special (`tokenizer.rs:97`); one that is
  white space or not ASCII is pushed whole and decoded through the byte map, which
  has no entry for its characters, to nothing or to other bytes. One without
  characters would be found at once, over and over (`tokenizer.rs:182`).
* `ModelLoad`: recurrent layers without the metadata of their dimensions panic in the
  first pass (`llama/mod.rs:198`) rather than fail to load. A tensor the file ends
  inside is an Err on the CPU and a panic in the upload (`gpu_resident.rs:138`).
* `GgufParser`: nested arrays are refused (`parser.rs:171`), the format has them
  (`docs/03-gguf-format.md:75`); the alignment is always 32.
* `SplitFiles`: for a name without padded numbers every part is the first file again
  (`loader.rs:96`).
* `LayerPrograms`: the overview comment in `gpu_resident.rs:588-594` has the L2 norm
  before the convolution, the code (and the CPU) after it.

## 6. Not modelled

Values of floating-point and quantized arithmetic: the repository's numeric tests
compare them with reference data. With them go the rounding differences between
int8 and f32 activations (`model/mod.rs:385`) and f16 numbers of exponent 31. The
queue of the GPU driver is taken to execute launches in order, and a barrier to
order storage buffers as well as shared memory. Also left out: the activation
trace, a list of timings nothing depends on; the probes and benchmarks; client
set-up and the choice of a backend, which is a branch on the command line; reading
a vocabulary from metadata; the getters of the metadata that neither the layers nor
the cache depend on; command lines, timing and printing. Panics other than those
named above are not modelled: nothing in the repository continues after one.

## 7. Plan

Every component named for modelling in section 1 has its module, and every safety
property a run checks has its theorem but those of section 4's last paragraph. The
open ones there are `DrawnByShare`, for which the error of a floating-point sum would
have to be bounded in the proof, and `PathsAgree`, for which the network of a layer
would have to be written without recursion.
