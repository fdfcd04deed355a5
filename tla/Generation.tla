----------------------------- MODULE Generation -----------------------------
(***************************************************************************)
(* The decode loop of runner.rs (and of bin/generate.rs and                *)
(* bin/generate_trace.rs, which differ from it in the sampler and in       *)
(* always stopping at EOS), composed with the model it drives: prefill of  *)
(* the whole prompt in one forward_batch, then one forward per token       *)
(* chosen from the logits of the call before.                              *)
(***************************************************************************)
EXTENDS LlamaModel

CONSTANTS
  Prompts,       \* encoded prompts considered
  MaxNew,        \* bound: largest max_new considered
  MaxContext,    \* bound: largest context_length considered
  Eos,
  Choices(_)     \* argmax (a singleton) or the sampler, by token history

ASSUME PromptsAssumption == Prompts \subseteq Batches \cup {<<>>}
ASSUME LoopBounds == MaxNew \in Nat /\ MaxContext \in Nat \ {0} /\ MaxCalls > MaxNew
ASSUME ChoicesAssumption ==
  \A n \in 0..MaxContext : \A h \in [1..n -> Token] : Choices(h) \subseteq Token

VARIABLES
  pc,            \* "setup", "prefill", "choose", "decode" or how it ended
  prompt,        \* prompt_ids
  max_new,
  context,       \* context_length of the model
  stop_at_eos,
  out,           \* token_ids
  pos

loopVars == <<pc, prompt, max_new, context, stop_at_eos, out, pos>>
allVars  == <<vars, loopVars>>

kvc     == CHOOSE c \in Cache : TRUE    \* the one KvCache of the run
max_seq == geom[kvc].max_seq
Least(m, n) == IF m < n THEN m ELSE n

(* The cache is allocated for what the run can place in it.                *)
GInit ==
  /\ Init
  /\ prompt \in Prompts
  /\ max_new \in 0..MaxNew /\ context \in 1..MaxContext
  /\ stop_at_eos \in BOOLEAN
  /\ prompt # <<>> => max_seq = Least(Len(prompt) + max_new, context)
  /\ pc = "setup" /\ out = <<>> /\ pos = 0

EmptyPrompt ==
  /\ pc = "setup" /\ prompt = <<>>
  /\ pc' = "failed"
  /\ UNCHANGED <<vars, prompt, max_new, context, stop_at_eos, out, pos>>

Prefill ==
  /\ pc = "setup" /\ prompt # <<>>
  /\ Begin(kvc, prompt, 0)
  /\ pc' = "prefill"
  /\ UNCHANGED <<prompt, max_new, context, stop_at_eos, out, pos>>

(* A prompt longer than the context: nothing checks it, and the prefill    *)
(* places tokens past the end of the cache.  The first attention layer of  *)
(* a CPU pass indexes past it and panics; the kernels of a resident pass   *)
(* do not look at the end, and the run ends as if max_new were 0.          *)
TooLong  == pc = "setup" /\ prompt # <<>> /\ Len(prompt) > max_seq
Embeddable == \A k \in 1..Len(prompt) : prompt[k] # Invalid
Overrun(end) ==
  /\ pc' = end
  /\ UNCHANGED <<vars, prompt, max_new, context, stop_at_eos, out, pos>>

OverrunPanics ==
  /\ TooLong /\ OnCpu /\ Embeddable
  /\ \E i \in Layers : /\ model.layers[i] = "attention"
                       /\ model.faulty = 0 \/ i <= model.faulty
  /\ Overrun("overrun")

OverrunUnchecked ==
  /\ TooLong /\ Embeddable /\ model.faulty = 0
  /\ ~OnCpu \/ ~HasKind("attention")
  /\ Overrun("done")

(* An Err comes first: of an embedding, or of a weight read before that    *)
(* attention layer gets to its positions.                                  *)
OverrunFails ==
  /\ TooLong
  /\ \/ ~Embeddable
     \/ /\ model.faulty # 0
        /\ \A i \in Layers : model.layers[i] = "attention" => model.faulty <= i
  /\ Overrun("failed")

ModelStep == Step /\ UNCHANGED loopVars

(* Broken: the position does not move on after a decode step.              *)
ReturnedInPlace ==
  /\ pc \in {"prefill", "decode"} /\ state = "present"
  /\ IF logits[kvc] = NoLogits
     THEN pc' = "failed" /\ UNCHANGED pos
     ELSE /\ pc' = "choose"
          /\ pos' = Len(prompt)
  /\ UNCHANGED <<vars, prompt, max_new, context, stop_at_eos, out>>

(* The call returned: logits, or an Err that ends the run.                 *)
Returned ==
  /\ pc \in {"prefill", "decode"} /\ state = "present"
  /\ IF logits[kvc] = NoLogits
     THEN pc' = "failed" /\ UNCHANGED pos
     ELSE /\ pc' = "choose"
          /\ pos' = IF pc = "prefill" THEN Len(prompt) ELSE pos + 1
  /\ UNCHANGED <<vars, prompt, max_new, context, stop_at_eos, out>>

LoopGuard == Len(out) < max_new /\ pos < max_seq

(* argmax or sample: any token at all when the logits are no reference's.  *)
Draw == IF logits[kvc] = Garbage THEN Token ELSE Choices(logits[kvc])
IsEos(next) == stop_at_eos /\ next = Eos

Decode ==
  /\ pc = "choose" /\ LoopGuard
  /\ \E next \in Draw :
       /\ ~IsEos(next)
       /\ out' = Append(out, next)
       /\ Begin(kvc, <<next>>, pos)
  /\ pc' = "decode"
  /\ UNCHANGED <<prompt, max_new, context, stop_at_eos, pos>>

Done ==
  /\ pc = "choose"
  /\ ~LoopGuard \/ \E next \in Draw : IsEos(next)
  /\ pc' = "done"
  /\ UNCHANGED <<vars, prompt, max_new, context, stop_at_eos, out, pos>>

GNext == \/ EmptyPrompt \/ Prefill \/ ModelStep \/ Returned \/ Decode \/ Done
         \/ OverrunPanics \/ OverrunUnchecked \/ OverrunFails

GSpec == GInit /\ [][GNext]_allVars /\ WF_allVars(GNext)

-----------------------------------------------------------------------------
Ended == {"done", "failed", "overrun"}

(* The abstract limit: max_new tokens, or what the context leaves room for.*)
Room == IF Len(prompt) > context THEN 0 ELSE Least(max_new, context - Len(prompt))

AR ==
  INSTANCE Autoregressive WITH
    limit  <- Room,
    status <- IF pc \notin Ended THEN "running"
              ELSE IF pc = "done" THEN "stopped" ELSE "failed"

(* The run emits a continuation the reference model allows, token by token *)
(* over the whole history, and stops for the reasons it should: batching,  *)
(* caching, positions and recurrent states are invisible (the golden tests *)
(* compare the same thing on a few prompts).                               *)
ImplementsReference == AR!Spec

(* A token is placed right behind everything the cache holds, never past   *)
(* its end: what the recurrent layers need, and KvCache::write.            *)
PlacesNextToken ==
  [][Decode => /\ job'.start = Len(seq[kvc])
               /\ job'.start = Len(prompt) + Len(out)]_allVars

(* A run fails for a reason the user gave it.                              *)
FailsForCause ==
  pc = "failed" => \/ prompt = <<>>
                   \/ \E k \in 1..Len(prompt) : prompt[k] = Invalid
                   \/ model.faulty # 0

(* Every run ends: at a limit, at end of sequence, with an error, or in    *)
(* the panic of a prompt longer than the context.                          *)
RunEnds == <>(pc \in Ended)

=============================================================================
