------------------------------- MODULE MCLoad -------------------------------
(***************************************************************************)
(* From the file to the first pass: the header is parsed (GgufParser), the *)
(* parts of a split model are mapped (SplitFiles), the weights are uploaded*)
(* and their pages given back (MmapRelease), the KV cache is planned and   *)
(* allocated (KvBudget) and written and read (KvCache), and what was loaded*)
(* has to suffice for a pass (ModelLoad).  Each looks at the file or the   *)
(* memory in a way of its own, as bytes of fields, as offsets, as pages, as*)
(* metadata, as slots and as a set of tensors; a behaviour is one of them, *)
(* and the others stay as they are.                                        *)
(***************************************************************************)
EXTENDS MmapRelease, SplitFiles, GgufParser, ModelLoad, KvBudget, KvCache, FiniteSets

CONSTANT Parts

VARIABLE part

-----------------------------------------------------------------------------
(* MmapRelease, with pages of four bytes.                                  *)
R(o, n) == [off |-> o, size |-> n]

(* Three tensors of one to six bytes with gaps of up to three bytes (of    *)
(* tensors that are not uploaded) between them, named in two orders, on    *)
(* every alignment of the base; nothing or everything is in the page cache *)
(* when the uploads start.                                                 *)
MCLayouts ==
  {[base |-> b, touched |-> t,
    regions |-> IF o = 1 THEN <<R(g, n), R(g + n + h, m), R(g + n + h + m, 5)>>
                         ELSE <<R(g + n + h + m, 5), R(g, n), R(g + n + h, m)>>]
    : b \in 0 .. 4, t \in {{}, 0 .. 7}, g \in {0, 3}, h \in {0, 2}, n \in {1, 4, 6}, m \in {1, 3, 5},
      o \in 1 .. 2}

-----------------------------------------------------------------------------
(* GgufParser: strings of up to two bytes, at most two entries and two     *)
(* tensors, every kind of value, arrays of up to two items, and every      *)
(* field that can be unsupported; files cut anywhere.                      *)
Str(text, width) == [text |-> text, width |-> width, utf8 |-> TRUE]
NoString == [text |-> "", width |-> 0, utf8 |-> TRUE]
BadString == [text |-> "bad", width |-> 2, utf8 |-> FALSE]
K1 == Str("k", 1)
K2 == Str("kk", 2)

Doc(metadata, tensors) == [magic |-> "GGUF", version |-> 3, metadata |-> metadata, tensors |-> tensors]
Entry(key, value) == [key |-> key, value |-> value]
T1 == [name |-> K1, dims |-> <<64>>, type |-> 8, offset |-> 0]
T2 == [name |-> K2, dims |-> <<64, 2>>, type |-> 12, offset |-> 96]
T0 == [name |-> K2, dims |-> <<>>, type |-> 0, offset |-> 96]

ValueChoices ==
  {<<t, 5>> : t \in {0, 1, 2, 3, 4, 5, 6, 7, 10, 11, 12}} \union
  {<<7, 0>>, <<8, K1>>, <<8, NoString>>, <<8, BadString>>, <<13, 0>>} \union
  {<<9, 2, <<>>>>, <<9, 2, <<1, 2>>>>, <<9, 7, <<0, 2>>>>, <<9, 8, <<K2, NoString>>>>,
   <<9, 8, <<BadString, K1>>>>, <<9, 13, <<>>>>}

MCDocuments ==
  {Doc(<<Entry(K1, value)>>, <<>>) : value \in ValueChoices} \union
  {Doc(<<Entry(K1, <<0, 1>>), Entry(K1, <<4, 2>>)>>, <<T1>>),
   Doc(<<Entry(K1, <<0, 1>>), Entry(K2, <<7, 1>>)>>, <<T1, T2>>),
   Doc(<<Entry(BadString, <<0, 1>>)>>, <<>>), Doc(<<>>, <<>>), Doc(<<>>, <<T2, T0>>),
   Doc(<<>>, <<[T1 EXCEPT !.type = 5]>>), Doc(<<>>, <<[T1 EXCEPT !.type = 34]>>),
   Doc(<<>>, <<[T1 EXCEPT !.name = BadString]>>)} \union
  {[Doc(<<Entry(K2, <<9, 4, <<7>>>>)>>, <<T1>>) EXCEPT !.version = n] : n \in 1 .. 4} \union
  {[Doc(<<>>, <<>>) EXCEPT !.magic = "GGML"]}

-----------------------------------------------------------------------------
(* ModelLoad: one or two layers of every kind, then with one or two        *)
(* tensors missing or in another format, with a tensor the file ends       *)
(* inside, and without the metadata of the layers.                         *)
GpuTensor == [format |-> "gpu", whole |-> TRUE]
FloatTensor == [format |-> "float", whole |-> TRUE]

Norms == {"attn_norm", "ffn_norm", "attn_q_norm", "attn_k_norm", "shortconv.conv", "ssm_conv1d",
          "ssm_a", "ssm_dt", "ssm_norm", "post_attention_norm", "output_norm", "token_embd_norm"}

FfnNames == {"ffn_gate", "ffn_up", "ffn_down", "attn_norm"}
AttnNames == FfnNames \union {"attn_q", "attn_k", "attn_v", "attn_output", "ffn_norm"}
NamesOf(kind) ==
  CASE kind = "Attention" -> AttnNames
    [] kind = "NormedAttention" -> AttnNames \union {"attn_q_norm", "attn_k_norm"}
    [] kind = "GatedAttention" ->
         (AttnNames \ {"ffn_norm"}) \union {"attn_q_norm", "attn_k_norm", "post_attention_norm"}
    [] kind = "ShortConv" ->
         FfnNames \union {"shortconv.conv", "shortconv.in_proj", "shortconv.out_proj", "ffn_norm"}
    [] kind = "GatedDeltaNet" ->
         FfnNames \union {"attn_qkv", "attn_gate", "ssm_beta", "ssm_alpha", "ssm_out", "ssm_conv1d",
                          "ssm_a", "ssm_dt", "ssm_norm", "post_attention_norm"}

Weights(stack, globals) ==
  LET names == UNION {{i} \X NamesOf(stack[i]) : i \in DOMAIN stack} \union ({0} \X globals)
  IN  [blocks |-> Len(stack), keys |-> {"ssm", "l_cache"},
       wide |-> {i \in DOMAIN stack : stack[i] = "GatedAttention"},
       tensors |-> [t \in names |-> IF t[2] \in Norms THEN FloatTensor ELSE GpuTensor]]

Tied == {"token_embd", "token_embd_norm"}
Untied == {"token_embd", "output", "output_norm"}

Single == {Weights(<<kind>>, Tied) : kind \in {"Attention", "NormedAttention", "ShortConv",
                                             "GatedAttention", "GatedDeltaNet"}}
Double == {Weights(<<"ShortConv", "NormedAttention">>, Tied),
           Weights(<<"GatedDeltaNet", "GatedAttention">>, Untied)}

Without(f, t) ==
  [f EXCEPT !.tensors = [u \in DOMAIN f.tensors \ {t} |-> f.tensors[u]],
            !.wide = IF t[2] = "attn_q" THEN f.wide \ {t[1]} ELSE f.wide]
Damaged(f) ==
  {Without(f, t) : t \in DOMAIN f.tensors}
    \union {[f EXCEPT !.tensors[t].format = x] : t \in DOMAIN f.tensors, x \in {"float", "bf16", "other"}}

NotIntact(f) ==
  {[f EXCEPT !.keys = {}]} \union {[f EXCEPT !.tensors[t].whole = FALSE] : t \in DOMAIN f.tensors}

AllFiles == Single \union Double
              \union (UNION {NotIntact(f) : f \in Double})
              \union (UNION {Damaged(f) : f \in Double})
              \union (UNION {Damaged(g) : g \in Damaged(Weights(<<"NormedAttention">>, Untied))})
              \union (UNION {Damaged(f) : f \in Single})
MCFiles == {f \in AllFiles : TRUE}   \* as one enumerated set

-----------------------------------------------------------------------------
(* KvBudget: dense models, with and without grouped heads; rows that fill  *)
(* a q8_0 block exactly, leave one over, or take several.                  *)
Info(h, kv, e, l, key) ==
  [head_count |-> h, head_count_kv |-> kv, embedding_length |-> e, block_count |-> l,
   key_length |-> key]

MCInfos ==
  {Info(h, kv, e, l, NONE) : h \in {1, 2, 3}, kv \in {Absent, Scalar(0), Scalar(1), Scalar(2)},
                             e \in {4, 9, 12}, l \in {1, 3}}
    \union {Info(2, Scalar(1), 8, 2, 4), Info(2, Array({2}), 8, 2, NONE)}

(* Hybrid models, with the heads in an array, and models with their own    *)
(* head dimension.                                                         *)
OddInfos ==
  {Info(4, Array({0, 2}), 16, 2, NONE), Info(4, Scalar(2), 16, 2, 6)}

-----------------------------------------------------------------------------
(* A part that does not run is in one of its initial states.               *)
IdleLayout   == CHOOSE x \in Layouts : TRUE
IdleDocument == CHOOSE x \in Documents : TRUE
IdleFile     == CHOOSE x \in Files : TRUE
IdleInfo     == CHOOSE x \in Infos : TRUE
LoadInit ==
  /\ part \in Parts
  /\ IF part = "parse" THEN TRUE ELSE document = IdleDocument /\ data = <<>>
  /\ ParseInit
  /\ IF part = "split" THEN TRUE ELSE sizes = <<1>> /\ digits = "padded"
  /\ SplitInit
  /\ IF part = "load" THEN TRUE ELSE file = IdleFile /\ backend = "cpu"
  /\ Init
  /\ IF part = "release" THEN TRUE ELSE layout = IdleLayout
  /\ ReleaseInit
  /\ IF part = "budget" THEN TRUE ELSE info = IdleInfo /\ kv_dtype = "F16" /\ available = 0
  /\ BudgetInit
  /\ IF part = "cache" THEN TRUE ELSE dtype = "F16"
  /\ CacheInit

memoryVars == <<budgetVars, cacheVars>>

ReleaseStep ==
  part = "release" /\ ReleaseNext /\ UNCHANGED <<part, parseVars, splitVars, vars, memoryVars>>
ParseStep ==
  part = "parse" /\ ParseNext /\ UNCHANGED <<part, releaseVars, splitVars, vars, memoryVars>>
SplitStep ==
  part = "split" /\ SplitNext /\ UNCHANGED <<part, releaseVars, parseVars, vars, memoryVars>>
LoadStep ==
  part = "load" /\ Next /\ UNCHANGED <<part, releaseVars, parseVars, splitVars, memoryVars>>
BudgetStep ==
  /\ part = "budget" /\ BudgetNext
  /\ UNCHANGED <<part, releaseVars, parseVars, splitVars, vars, cacheVars>>
CacheStep ==
  /\ part = "cache" /\ CacheNext
  /\ UNCHANGED <<part, releaseVars, parseVars, splitVars, vars, budgetVars>>

LoadNext == ReleaseStep \/ ParseStep \/ SplitStep \/ LoadStep \/ BudgetStep \/ CacheStep

LoadSpec ==
  LoadInit /\ [][LoadNext]_<<part, releaseVars, parseVars, splitVars, vars, memoryVars>>

=============================================================================
