-------------------------- MODULE GenerationProofs --------------------------
(***************************************************************************)
(* Proofs about Generation, for every vocabulary, model, prompt, sampler   *)
(* and limit: the decode loop is a caller within Supported, so the theorem *)
(* about the model applies to it, and with it the loop implements the      *)
(* abstract specification, its liveness apart.                             *)
(***************************************************************************)
EXTENDS Generation, LlamaModelProofs

(* The tokens the run has placed or is placing.                            *)
Text == prompt \o out

(* What the loop was called with.                                          *)
Arguments ==
  /\ prompt \in Prompts
  /\ max_new \in 0..MaxNew /\ context \in 1..MaxContext /\ stop_at_eos \in BOOLEAN
  /\ prompt # <<>> => max_seq = Least(Len(prompt) + max_new, context)
  /\ out \in Seq(Token)
  /\ users \subseteq {kvc}

Cause == \/ prompt = <<>>
         \/ \E k \in 1..Len(prompt) : prompt[k] = Invalid
         \/ model.faulty # 0

(* Between two passes the cache holds the text, and its logits are there.  *)
Placed == linear /\ seq[kvc] = Text /\ logits[kvc] # NoLogits

Setup == pc = "setup" =>
  state = "present" /\ linear /\ seq[kvc] = <<>> /\ out = <<>> /\ pos = 0

(* A pass places the rest of the text, and what it cannot embed comes from *)
(* the prompt.                                                             *)
Calling == pc \in {"prefill", "decode"} =>
  /\ prompt # <<>> /\ Len(out) <= Room
  /\ pc = "prefill" => out = <<>> /\ pos = 0
  /\ pc = "decode"  => pos + 1 = Len(prompt) + Len(out)
  /\ state = "taken" =>
       /\ linear /\ job.cache = kvc /\ History = Text
       /\ \A k \in 1..Width : job.toks[k] = Invalid => Cause
  /\ state = "present" => IF logits[kvc] = NoLogits THEN Cause ELSE Placed

Choosing == pc = "choose" =>
  /\ prompt # <<>> /\ Len(out) <= Room /\ pos = Len(prompt) + Len(out)
  /\ state = "present" /\ Placed

LoopInv == /\ pc \in {"setup", "prefill", "choose", "decode"} \cup Ended
           /\ Arguments /\ Setup /\ Calling /\ Choosing /\ FailsForCause

ModelInv == Shape /\ Exact

-----------------------------------------------------------------------------
(* The loop calls the model as LlamaModel assumes a caller to.             *)

LEMMA TheCache == kvc \in Cache
  BY CacheAssumption DEF kvc

LEMMA PromptIsBatch ==
  ASSUME Arguments, prompt # <<>>
  PROVE  /\ prompt \in Batches /\ prompt \in Seq(Id) /\ Len(prompt) \in Nat \ {0}
         /\ MaxBatch \in Nat \ {0}
<1>1. prompt \in Batches
  BY PromptsAssumption DEF Arguments
<1>2. prompt \in Seq(Id) /\ Len(prompt) \in 1..MaxBatch
  BY <1>1, BatchIsSeq
<1>3. QED
  BY <1>1, <1>2, BoundsAssumption, SMT

LEMMA SingleIsBatch ==
  ASSUME NEW e \in Token, MaxBatch \in Nat \ {0}
  PROVE  <<e>> \in Batches /\ <<e>> \in Seq(Token) /\ Len(<<e>>) = 1 /\ <<e>>[1] = e
<1>1. <<e>> \in [1..1 -> Token \cup {Invalid}] /\ 1 \in 1..MaxBatch
  OBVIOUS
<1>2. <<e>> \in Batches
  BY <1>1 DEF Batches
<1>3. QED
  BY <1>2

(* Room is what the cache was allocated for.                               *)
LEMMA RoomOfCache ==
  ASSUME Arguments, prompt # <<>>
  PROVE  /\ Room \in Nat /\ max_seq \in Nat /\ context \in Nat /\ max_new \in Nat
         /\ Len(prompt) \in Nat /\ Len(out) \in Nat /\ max_seq <= context
         /\ Len(prompt) <= max_seq => max_seq = Len(prompt) + Room
         /\ Len(prompt) > max_seq => Len(prompt) > context /\ Room = 0
<1>1. /\ Len(prompt) \in Nat \ {0} /\ Len(out) \in Nat
      /\ max_new \in Nat /\ context \in Nat \ {0}
  BY PromptIsBatch, LoopBounds, LenProperties DEF Arguments
<1>2. max_seq = IF Len(prompt) + max_new < context THEN Len(prompt) + max_new ELSE context
  BY DEF Arguments, Least
<1>3. Room = IF Len(prompt) > context THEN 0
             ELSE IF max_new < context - Len(prompt) THEN max_new ELSE context - Len(prompt)
  BY DEF Room, Least
<1> HIDE DEF Room, max_seq
<1>4. QED
  BY <1>1, <1>2, <1>3, SMT

(* With one cache and no failure before, the model is within Supported.    *)
LEMMA WithinSupported ==
  ASSUME Arguments, linear
  PROVE  Supported(kvc)
  BY DEF Arguments, Supported

LEMMA PlacedIsRead ==
  ASSUME ModelInv, Arguments, Placed
  PROVE  /\ logits[kvc] = Text /\ Text \in Seq(Token) /\ Text # Garbage
         /\ Len(Text) = Len(seq[kvc])
<1>1. logits[kvc] = seq[kvc] /\ seq[kvc] \in Seq(Token)
  BY TheCache, WithinSupported DEF ModelInv, Exact, LogitsExact, Placed, Shape, TypeOK
<1>2. QED
  BY <1>1, GarbageAssumption DEF Placed

(* The tokens the sampler or the argmax may choose, with room left.        *)
LEMMA DrawIsToken ==
  ASSUME ModelInv, LoopInv, pc = "choose", LoopGuard
  PROVE  Draw = Choices(Text) /\ Draw \subseteq Token
<1>1. /\ prompt # <<>> /\ pos = Len(prompt) + Len(out) /\ Placed
      /\ Arguments
  BY DEF LoopInv, Choosing
<1>2. /\ logits[kvc] = Text /\ Text \in Seq(Token) /\ Text # Garbage
  BY <1>1, PlacedIsRead
<1>3. Draw = Choices(Text)
  BY <1>2 DEF Draw
<1>4. Len(Text) = pos
  <2>1. prompt \in Seq(Id) /\ out \in Seq(Id)
    BY <1>1, PromptIsBatch, SeqMonotonic DEF Arguments, Id
  <2>2. QED
    BY <1>1, <2>1, ConcatProperties DEF Text
<1>5. Len(Text) \in 0..MaxContext
  <2>1. max_seq <= context /\ max_seq \in Nat /\ context \in Nat
    BY <1>1, RoomOfCache
  <2>2. context <= MaxContext /\ MaxContext \in Nat
    BY <1>1, LoopBounds DEF Arguments
  <2>3. pos < max_seq
    BY DEF LoopGuard
  <2>4. Len(Text) \in Nat
    BY <1>2, LenProperties
  <2> HIDE DEF Text, max_seq
  <2>5. QED
    BY <1>4, <2>1, <2>2, <2>3, <2>4, SMT
<1>6. Text \in [1..Len(Text) -> Token]
  BY <1>2, LenProperties
<1> HIDE DEF Text
<1>7. QED
  BY <1>3, <1>5, <1>6, ChoicesAssumption

(* A prefill and a decode step start right behind what the cache holds.    *)
LEMMA StartOfPass ==
  ASSUME ModelInv, LoopInv
  PROVE  /\ Prefill => 0 = Len(seq[kvc]) /\ prompt \in Batches
         /\ Decode => /\ pos = Len(seq[kvc]) /\ pos \in Nat
                      /\ pos = Len(prompt) + Len(out)
                      /\ \A next \in Draw : next \in Token /\ <<next>> \in Batches
<1>1. ASSUME Prefill PROVE 0 = Len(seq[kvc]) /\ prompt \in Batches
  <2>1. Arguments /\ prompt # <<>> /\ seq[kvc] = <<>>
    BY <1>1 DEF Prefill, LoopInv, Setup
  <2>2. Len(<<>>) = 0
    OBVIOUS
  <2>3. QED
    BY <2>1, <2>2, PromptIsBatch
<1>2. ASSUME Decode
      PROVE  /\ pos = Len(seq[kvc]) /\ pos \in Nat /\ pos = Len(prompt) + Len(out)
             /\ \A next \in Draw : next \in Token /\ <<next>> \in Batches
  <2>1. /\ pc = "choose" /\ LoopGuard /\ Arguments /\ prompt # <<>>
        /\ pos = Len(prompt) + Len(out) /\ Placed
    BY <1>2 DEF Decode, LoopInv, Choosing
  <2>2. prompt \in Seq(Id) /\ out \in Seq(Id) /\ MaxBatch \in Nat \ {0}
    BY <2>1, PromptIsBatch, SeqMonotonic DEF Arguments, Id
  <2>3. Len(Text) = pos /\ Len(Text) = Len(seq[kvc]) /\ pos \in Nat
    BY <2>1, <2>2, ConcatProperties, LenProperties, PlacedIsRead DEF Text
  <2>4. \A next \in Draw : next \in Token
    BY <2>1, DrawIsToken
  <2>5. QED
    BY <2>1, <2>2, <2>3, <2>4, SingleIsBatch
<1>3. QED
  BY <1>1, <1>2

LEMMA LoopCalls ==
  ASSUME ModelInv, LoopInv, [GNext]_allVars
  PROVE  [Next]_vars
<1>1. seq[kvc] \in Seq(Token) /\ Len(seq[kvc]) \in Nat
  BY TheCache, LenProperties DEF ModelInv, Shape, TypeOK
<1>2. CASE Prefill
  <2>1. Begin(kvc, prompt, 0) /\ prompt \in Batches /\ 0 \in 0..Len(seq[kvc])
    BY <1>1, <1>2, StartOfPass DEF Prefill
  <2>2. Call
    BY <2>1, TheCache DEF Call
  <2>3. QED
    BY <2>2 DEF Next
<1>3. CASE Decode
  <2>1. PICK next \in Draw : Begin(kvc, <<next>>, pos)
    BY <1>3 DEF Decode
  <2>2. <<next>> \in Batches /\ pos \in 0..Len(seq[kvc])
    BY <1>1, <1>3, <2>1, StartOfPass
  <2>3. Call
    BY <2>1, <2>2, TheCache DEF Call
  <2>4. QED
    BY <2>3 DEF Next
<1>4. CASE ModelStep
  BY <1>4 DEF ModelStep, Next
<1>5. CASE EmptyPrompt \/ Returned \/ Done \/ OverrunPanics \/ OverrunUnchecked \/ OverrunFails
  BY <1>5 DEF EmptyPrompt, Returned, Done, OverrunPanics, OverrunUnchecked, OverrunFails, Overrun
<1>6. CASE UNCHANGED allVars
  BY <1>6 DEF allVars
<1>7. QED
  BY <1>2, <1>3, <1>4, <1>5, <1>6 DEF GNext

LEMMA ModelInvInit == GInit => ModelInv
  BY ShapeInit, ExactInit DEF GInit, ModelInv

LEMMA ModelInvStep == ModelInv /\ LoopInv /\ [GNext]_allVars => ModelInv'
  BY LoopCalls, ShapeStep, ExactStep DEF ModelInv

-----------------------------------------------------------------------------
(* LoopInv is an invariant.                                                *)

LEMMA LoopInit == GInit => LoopInv
<1> SUFFICES ASSUME GInit PROVE LoopInv
  OBVIOUS
<1>1. /\ pc = "setup" /\ out = <<>> /\ pos = 0 /\ state = "present" /\ linear
      /\ users = {} /\ seq = [c \in Cache |-> <<>>]
  BY DEF GInit, Init
<1>2. out \in Seq(Token) /\ seq[kvc] = <<>>
  BY <1>1, TheCache, EmptySeq
<1>3. Arguments
  BY <1>1, <1>2 DEF GInit, Arguments
<1>4. QED
  BY <1>1, <1>2, <1>3 DEF LoopInv, Setup, Calling, Choosing, FailsForCause

LEMMA PassBegun ==
  ASSUME ModelInv, Arguments, linear, NEW toks \in Batches, NEW start,
         start = Len(seq[kvc]), Begin(kvc, toks, start)
  PROVE  /\ state' = "taken" /\ linear' /\ users' \subseteq {kvc}
         /\ job'.cache = kvc /\ job'.toks = toks
         /\ History' = seq[kvc] \o toks
         /\ UNCHANGED <<model, geom, max_seq>>
<1>1. seq \in [Cache -> Seq(Token)] /\ kvc \in Cache
  BY TheCache DEF ModelInv, Shape, TypeOK
<1>2. SubSeq(seq[kvc], 1, start) = seq[kvc]
  BY <1>1, SubSeqFull
<1>3. /\ state' = "taken" /\ job' = [cache |-> kvc, toks |-> toks, start |-> start]
      /\ seq' = [seq EXCEPT ![kvc] = SubSeq(seq[kvc], 1, start)]
      /\ users' = users \cup {kvc} /\ linear' = (linear /\ start = Len(seq[kvc]))
      /\ UNCHANGED <<model, geom>>
  BY DEF Begin
<1>4. seq'[kvc] = seq[kvc] /\ job'.cache = kvc /\ job'.toks = toks
  BY <1>1, <1>2, <1>3
<1>5. History' = seq[kvc] \o toks
  BY <1>4 DEF History, kvc
<1>6. QED
  BY <1>3, <1>4, <1>5 DEF Arguments, max_seq, kvc

LEMMA LoopPrefill == ModelInv /\ LoopInv /\ Prefill => LoopInv'
<1> SUFFICES ASSUME ModelInv, LoopInv, Prefill PROVE LoopInv'
  OBVIOUS
<1>1. /\ pc = "setup" /\ pc' = "prefill" /\ prompt # <<>> /\ Begin(kvc, prompt, 0)
      /\ UNCHANGED <<prompt, max_new, context, stop_at_eos, out, pos>>
  BY DEF Prefill
<1>2. Arguments /\ linear /\ seq[kvc] = <<>> /\ out = <<>> /\ pos = 0
  BY <1>1 DEF LoopInv, Setup
<1>3. /\ state' = "taken" /\ linear' /\ users' \subseteq {kvc}
      /\ job'.cache = kvc /\ job'.toks = prompt /\ History' = <<>> \o prompt
      /\ UNCHANGED <<model, geom, max_seq>>
  BY <1>1, <1>2, StartOfPass, PassBegun
<1>4. History' = prompt /\ Text = prompt
  BY <1>2, <1>3, PromptIsBatch, ConcatEmptySeq, <1>1 DEF Text
<1>5. Arguments'
  BY <1>1, <1>2, <1>3 DEF Arguments, kvc
<1>6. Calling'
  <2>1. Len(out) <= Room
    BY <1>1, <1>2, RoomOfCache
  <2>2. Room' = Room /\ Text' = Text /\ Width' = Len(prompt)
    BY <1>1, <1>3 DEF Room, Text, Width
  <2>3. \A k \in 1..Len(prompt) : prompt[k] = Invalid => Cause'
    BY <1>1 DEF Cause
  <2>4. kvc' = kvc
    BY DEF kvc
  <2>5. QED
    BY <1>1, <1>2, <1>3, <1>4, <2>1, <2>2, <2>3, <2>4, Zenon DEF Calling
<1>7. QED
  BY <1>1, <1>5, <1>6 DEF LoopInv, Setup, Choosing, FailsForCause

LEMMA LoopDecode == ModelInv /\ LoopInv /\ Decode => LoopInv'
<1> SUFFICES ASSUME ModelInv, LoopInv, Decode PROVE LoopInv'
  OBVIOUS
<1>1. /\ pc = "choose" /\ LoopGuard /\ pc' = "decode"
      /\ UNCHANGED <<prompt, max_new, context, stop_at_eos, pos>>
  BY DEF Decode
<1>2. PICK next \in Draw : out' = Append(out, next) /\ Begin(kvc, <<next>>, pos)
  BY DEF Decode
<1>3. /\ Arguments /\ prompt # <<>> /\ Len(out) <= Room /\ Placed
      /\ pos = Len(prompt) + Len(out) /\ pos = Len(seq[kvc]) /\ pos \in Nat
      /\ next \in Token /\ <<next>> \in Batches
  BY <1>1, StartOfPass DEF LoopInv, Choosing
<1>4. /\ state' = "taken" /\ linear' /\ users' \subseteq {kvc}
      /\ job'.cache = kvc /\ job'.toks = <<next>> /\ History' = seq[kvc] \o <<next>>
      /\ UNCHANGED <<model, geom, max_seq>>
  BY <1>2, <1>3, PassBegun DEF Placed
<1>5. /\ prompt \in Seq(Id) /\ out \in Seq(Token) /\ out \in Seq(Id)
      /\ <<next>> \in Seq(Id) /\ next \in Id /\ Len(prompt) \in Nat
  BY <1>3, PromptIsBatch, SingleIsBatch, BatchIsSeq, SeqMonotonic DEF Arguments, Id
<1>6. out' \in Seq(Token) /\ Len(out') = Len(out) + 1 /\ Len(out) \in Nat
  BY <1>2, <1>3, <1>5, AppendProperties, LenProperties
<1>7. History' = Text'
  <2>1. History' = (prompt \o out) \o <<next>>
    BY <1>3, <1>4 DEF Placed, Text
  <2>2. Append(out, next) = out \o <<next>>
    BY <1>5, AppendIsConcat
  <2>3. QED
    BY <1>1, <1>2, <1>5, <2>1, <2>2, ConcatAssociative DEF Text
<1>8. Arguments'
  BY <1>1, <1>3, <1>4, <1>6 DEF Arguments, kvc
<1>9. Len(out') <= Room'
  <2>1. /\ Room \in Nat /\ max_seq \in Nat
        /\ Len(prompt) <= max_seq => max_seq = Len(prompt) + Room
        /\ Len(prompt) > max_seq => Room = 0
    BY <1>3, RoomOfCache
  <2>2. Len(prompt) + Len(out) < max_seq
    BY <1>1, <1>3 DEF LoopGuard
  <2>3. Len(out) + 1 <= Room
    <3> HIDE DEF max_seq, Room
    <3> QED  BY <1>5, <1>6, <2>1, <2>2
  <2>4. Room' = Room
    BY <1>1 DEF Room
  <2>5. QED
    BY <1>6, <2>3, <2>4
<1>10. Calling'
  <2>1. Width' = 1 /\ \A k \in 1..1 : job'.toks[k] # Invalid
    BY <1>3, <1>4, SingleIsBatch, GarbageAssumption DEF Width
  <2>2. pos' + 1 = Len(prompt') + Len(out')
    BY <1>1, <1>3, <1>5, <1>6
  <2>3. kvc' = kvc
    BY DEF kvc
  <2>4. QED
    BY <1>1, <1>3, <1>4, <1>7, <1>9, <2>1, <2>2, <2>3, Zenon DEF Calling
<1>11. QED
  BY <1>1, <1>8, <1>10 DEF LoopInv, Setup, Choosing, FailsForCause

(* What a step of the pass leaves the loop with: it goes on, or it has put *)
(* the text into the cache, or it failed for a cause.                      *)
LEMMA PassStep ==
  ASSUME ModelInv, LoopInv, pc \in {"prefill", "decode"}, Step, UNCHANGED loopVars
  PROVE  /\ UNCHANGED <<model, geom, users>>
         /\ state' = "taken" => linear' /\ job' = job /\ seq' = seq
         /\ state' = "present" => IF logits'[kvc] = NoLogits THEN Cause ELSE Placed'
<1>1. state = "taken"
  BY DEF Step, AttentionLayer, RecurrentLayer, Mixing, Finish, FailEmbedding, FailWeights
<1>2. /\ Arguments /\ linear /\ job.cache = kvc /\ History = Text
      /\ \A k \in 1..Width : job.toks[k] = Invalid => Cause
  BY <1>1 DEF LoopInv, Calling
<1>3. Shape /\ Exact /\ kvc \in Cache /\ t \in 1..Width /\ Width \in Nat \ {0}
  BY <1>1, TheCache, PassFacts DEF ModelInv
<1>4. Text' = Text
  BY DEF loopVars, Text
<1>5. CASE AttentionLayer \/ RecurrentLayer
  <2>1. UNCHANGED <<model, geom, users, state, job, seq, linear>>
    BY <1>5 DEF AttentionLayer, RecurrentLayer
  <2>2. QED
    BY <1>1, <1>2, <2>1
<1>6. CASE Finish
  <2>1. /\ state' = "present" /\ layer > Depth
        /\ seq' = [seq EXCEPT ![job.cache] = seq[job.cache] \o job.toks]
        /\ UNCHANGED <<model, geom, users, linear>>
    BY <1>6 DEF Finish, EndPass
  <2>2. seq'[kvc] = Text
    BY <1>2, <1>3, <2>1 DEF Shape, TypeOK, History
  <2>3. logits'[kvc] # NoLogits
    <3>1. logits' = [logits EXCEPT ![job.cache] = x[Width]] /\ logits \in [Cache -> Name]
      BY <1>3, <1>6 DEF Finish, Shape, TypeOK
    <3>2. LayerOf(Width) # 1 /\ Width \in 1..Width
      <4>1. Depth \in Nat \ {0} /\ layer \in Nat
        BY <1>1, <1>3, PassFacts, ConstantFacts DEF Shape, TypeOK
      <4>2. t = IF OnCpu THEN 1 ELSE Width
        BY <1>1, <1>3, <2>1 DEF Shape, PassShape
      <4>3. QED
        BY <1>3, <2>1, <4>1, <4>2 DEF LayerOf
    <3>3. Supported(job.cache)
      BY <1>2, WithinSupported
    <3>4. x[Width] = SubSeq(History, 1, job.start + Width)
      BY <1>1, <1>3, <3>2, <3>3 DEF Exact, InFlight
    <3>5. /\ History \in Seq(Id) /\ Len(History) = job.start + Width
          /\ job.start \in Nat
      BY <1>1, <1>3, HistoryFacts, PassFacts
    <3>6. x[Width] = History /\ Len(History) \in Nat \ {0}
      BY <1>3, <3>4, <3>5, SubSeqFull
    <3>7. Len(NoLogits) = 0
      BY DEF NoLogits
    <3>8. QED
      BY <1>2, <1>3, <3>1, <3>6, <3>7
  <2>4. Placed'
    <3>1. kvc' = kvc
      BY DEF kvc
    <3>2. QED
      BY <1>2, <1>4, <2>1, <2>2, <2>3, <3>1, Zenon DEF Placed, NoLogits
  <2>5. QED
    BY <2>1, <2>3, <2>4
<1>7. CASE FailEmbedding \/ FailWeights
  <2>1. /\ state' = "present" /\ UNCHANGED <<model, geom, users, logits>>
    BY <1>7 DEF FailEmbedding, FailWeights, Fail, EndPass
  <2>2. logits[kvc] = NoLogits
    BY <1>1, <1>2, <1>3 DEF Shape, PassShape
  <2>3. Cause
    <3>1. CASE FailWeights
      BY <3>1 DEF FailWeights, Cause
    <3>2. CASE FailEmbedding
      <4>1. \E k \in 1..Width : job.toks[k] = Invalid
        BY <1>3, <3>2 DEF FailEmbedding, EmbedErr
      <4>2. QED
        BY <1>2, <4>1
    <3>3. QED
      BY <1>7, <3>1, <3>2
  <2>4. QED
    BY <2>1, <2>2, <2>3
<1>8. QED
  BY <1>5, <1>6, <1>7 DEF Step

LEMMA LoopModelStep == ModelInv /\ LoopInv /\ ModelStep => LoopInv'
<1> SUFFICES ASSUME ModelInv, LoopInv, ModelStep PROVE LoopInv'
  OBVIOUS
<1>1. /\ Step /\ UNCHANGED loopVars
      /\ UNCHANGED <<pc, prompt, max_new, context, stop_at_eos, out, pos>>
  BY DEF ModelStep, loopVars
<1>2. state = "taken"
  BY <1>1 DEF Step, AttentionLayer, RecurrentLayer, Mixing, Finish, FailEmbedding, FailWeights
<1>3. pc \notin {"setup", "choose"}
  BY <1>2 DEF LoopInv, Setup, Choosing
<1>4. UNCHANGED <<model, geom, users>>
  BY <1>1 DEF Step, AttentionLayer, RecurrentLayer, Finish, FailEmbedding, FailWeights, Fail
<1>5. Arguments' /\ FailsForCause' /\ Room' = Room /\ Text' = Text
  BY <1>1, <1>4 DEF LoopInv, Arguments, FailsForCause, Room, Text, max_seq, kvc
<1>6. Calling'
  <2> SUFFICES ASSUME pc \in {"prefill", "decode"} PROVE Calling'
    BY <1>1 DEF Calling
  <2>1. /\ state' = "taken" => linear' /\ job' = job /\ seq' = seq
        /\ state' = "present" => IF logits'[kvc] = NoLogits THEN Cause ELSE Placed'
    BY <1>1, PassStep
  <2>2. Cause' = Cause
    BY <1>1, <1>4 DEF Cause
  <2>3. /\ prompt # <<>> /\ Len(out) <= Room
        /\ pc = "prefill" => out = <<>> /\ pos = 0
        /\ pc = "decode"  => pos + 1 = Len(prompt) + Len(out)
        /\ job.cache = kvc /\ History = Text
        /\ \A k \in 1..Width : job.toks[k] = Invalid => Cause
    BY <1>2 DEF LoopInv, Calling
  <2>4. ASSUME job' = job, seq' = seq
        PROVE  History' = History /\ Width' = Width
    BY <2>4 DEF History, Width
  <2>5. kvc' = kvc /\ NoLogits' = NoLogits
    BY DEF kvc, NoLogits
  <2>6. ASSUME state' = "taken"
        PROVE  /\ linear' /\ job'.cache = kvc /\ History' = Text'
               /\ \A k \in 1..(Width') : job'.toks[k] = Invalid => Cause'
    BY <1>5, <2>1, <2>2, <2>3, <2>4, <2>6
  <2>7. ASSUME state' = "present"
        PROVE  IF logits'[kvc] = NoLogits THEN Cause' ELSE Placed'
    BY <2>1, <2>2, <2>7
  <2>8. QED
    BY <1>1, <1>5, <2>3, <2>5, <2>6, <2>7, Zenon DEF Calling
<1>7. QED
  BY <1>1, <1>3, <1>5, <1>6 DEF LoopInv, Setup, Choosing

LEMMA LoopReturned == ModelInv /\ LoopInv /\ Returned => LoopInv'
<1> SUFFICES ASSUME ModelInv, LoopInv, Returned PROVE LoopInv'
  OBVIOUS
<1>1. /\ pc \in {"prefill", "decode"} /\ state = "present"
      /\ UNCHANGED <<vars, prompt, max_new, context, stop_at_eos, out>>
  BY DEF Returned
<1>2. /\ UNCHANGED <<model, geom, users, state, linear, seq, logits>>
      /\ Text' = Text /\ Room' = Room
  BY <1>1 DEF vars, Text, Room
<1>3. Arguments'
  BY <1>1, <1>2 DEF LoopInv, Arguments, max_seq, kvc
<1>4. /\ prompt # <<>> /\ Len(out) <= Room /\ Arguments
      /\ pc = "prefill" => out = <<>> /\ pos = 0
      /\ pc = "decode"  => pos + 1 = Len(prompt) + Len(out)
      /\ IF logits[kvc] = NoLogits THEN Cause ELSE Placed
  BY <1>1 DEF LoopInv, Calling
<1>5. CASE logits[kvc] = NoLogits
  <2>1. pc' = "failed" /\ Cause
    BY <1>4, <1>5 DEF Returned
  <2>2. FailsForCause'
    BY <1>1, <1>2, <2>1 DEF FailsForCause, Cause
  <2>3. QED
    BY <1>3, <2>1, <2>2 DEF LoopInv, Setup, Calling, Choosing, Ended
<1>6. CASE logits[kvc] # NoLogits
  <2>1. pc' = "choose" /\ pos' = IF pc = "prefill" THEN Len(prompt) ELSE pos + 1
    BY <1>6 DEF Returned
  <2>2. pos' = Len(prompt) + Len(out)
    <3>1. Len(<<>>) = 0 /\ Len(prompt) \in Nat
      BY <1>4, PromptIsBatch
    <3>2. QED
      BY <1>1, <1>4, <2>1, <3>1
  <2>3. Placed'
    BY <1>2, <1>4, <1>6 DEF Placed, kvc
  <2>4. Choosing'
    BY <1>1, <1>2, <1>4, <2>2, <2>3 DEF Choosing
  <2>5. QED
    BY <1>3, <2>1, <2>4 DEF LoopInv, Setup, Calling, FailsForCause
<1>7. QED
  BY <1>5, <1>6

LEMMA LoopStep == ModelInv /\ LoopInv /\ [GNext]_allVars => LoopInv'
<1> SUFFICES ASSUME ModelInv, LoopInv, [GNext]_allVars PROVE LoopInv'
  OBVIOUS
<1>1. ASSUME UNCHANGED <<vars, prompt, max_new, context, stop_at_eos, out, pos>>
      PROVE  /\ UNCHANGED <<model, geom, state, linear, users, seq, logits, job>>
             /\ Arguments' /\ Text' = Text /\ Room' = Room
  BY <1>1 DEF vars, LoopInv, Arguments, Text, Room, max_seq, kvc
<1>2. CASE EmptyPrompt
  BY <1>1, <1>2 DEF EmptyPrompt, LoopInv, Setup, Calling, Choosing, FailsForCause, Ended
<1>3. CASE OverrunPanics \/ OverrunUnchecked \/ Done
  BY <1>1, <1>3 DEF OverrunPanics, OverrunUnchecked, Overrun, Done, LoopInv, Setup, Calling, Choosing,
                    FailsForCause, Ended
<1>3a. CASE OverrunFails
  <2>1. UNCHANGED <<vars, prompt, max_new, context, stop_at_eos, out, pos>> /\ pc' = "failed"
    BY <1>3a DEF OverrunFails, Overrun
  <2>2. Cause
    BY <1>3a DEF OverrunFails, Embeddable, Cause
  <2>3. FailsForCause'
    BY <1>1, <2>1, <2>2 DEF FailsForCause, Cause
  <2>4. QED
    BY <1>1, <2>1, <2>3 DEF LoopInv, Setup, Calling, Choosing, Ended
<1>4. CASE UNCHANGED allVars
  <2>1. UNCHANGED <<vars, pc, prompt, max_new, context, stop_at_eos, out, pos>>
    BY <1>4 DEF allVars, loopVars
  <2>2. History' = History /\ Width' = Width /\ kvc' = kvc
    BY <1>1, <2>1 DEF History, Width, kvc
  <2>3. Setup' /\ FailsForCause'
    BY <1>1, <2>1, <2>2, Zenon DEF LoopInv, Setup, FailsForCause
  <2>4. Choosing'
    BY <1>1, <2>1, <2>2, Zenon DEF LoopInv, Choosing, Placed, NoLogits
  <2>5. Calling'
    BY <1>1, <2>1, <2>2, Zenon DEF LoopInv, Calling, Placed, Cause, NoLogits
  <2>6. QED
    BY <1>1, <2>1, <2>3, <2>4, <2>5 DEF LoopInv, Ended
<1>5. QED
  BY <1>2, <1>3, <1>3a, <1>4, LoopPrefill, LoopDecode, LoopModelStep, LoopReturned DEF GNext

-----------------------------------------------------------------------------
(* The loop invariant and the invariant of the model, together: neither is *)
(* preserved without the other.                                            *)
THEOREM LoopInductive == GSpec => [](ModelInv /\ LoopInv)
  BY ModelInvInit, LoopInit, ModelInvStep, LoopStep, PTL DEF GSpec

(* Whatever prompt, limit, context and sampler, the loop is a caller the   *)
(* model's own specification allows.                                       *)
THEOREM LoopIsACaller == GSpec => Spec
<1>1. GInit => Init
  BY DEF GInit
<1>2. ModelInv /\ LoopInv /\ [GNext]_allVars => [Next]_vars
  BY LoopCalls
<1>3. QED
  BY LoopInductive, <1>1, <1>2, PTL DEF GSpec, Spec

(* A run that ends with an Err was given an empty prompt, a token without  *)
(* an embedding, or a model with an unreadable weight: no split of the     *)
(* prompt, no limit and no token drawn makes one.                          *)
THEOREM FailureHasCause == GSpec => []FailsForCause
<1>1. LoopInv => FailsForCause
  BY DEF LoopInv
<1>2. QED
  BY LoopInductive, <1>1, PTL

(* Each token drawn goes right behind the text so far and within the cache.*)
THEOREM NextTokenIsPlaced == GSpec => PlacesNextToken
<1> DEFINE Behind == Decode => /\ job'.start = Len(seq[kvc])
                               /\ job'.start = Len(prompt) + Len(out)
<1>1. ModelInv /\ LoopInv /\ [GNext]_allVars => [Behind]_allVars
  <2> SUFFICES ASSUME ModelInv, LoopInv, Decode PROVE Behind
    OBVIOUS
  <2>1. job'.start = pos
    BY DEF Decode, Begin
  <2>2. QED
    BY <2>1, StartOfPass
<1>2. QED
  BY LoopInductive, <1>1, PTL DEF GSpec, PlacesNextToken

-----------------------------------------------------------------------------
(* The refinement, step by step.                                           *)

LEMMA RefinedInit == GInit => AR!Init
<1> SUFFICES ASSUME GInit PROVE AR!Init
  OBVIOUS
<1>1. pc = "setup" /\ out = <<>> /\ stop_at_eos \in BOOLEAN
  BY DEF GInit
<1>2. Room \in Nat
  <2>1. Arguments
    BY LoopInit DEF LoopInv
  <2>2. CASE prompt # <<>>
    BY <2>1, <2>2, RoomOfCache
  <2>3. CASE prompt = <<>>
    <3>1. Len(prompt) = 0 /\ max_new \in Nat /\ context \in Nat
      BY <2>1, <2>3, LoopBounds DEF Arguments
    <3>2. QED
      BY <3>1, SMT DEF Room, Least
  <2>4. QED
    BY <2>2, <2>3
<1>3. QED
  BY <1>1, <1>2 DEF AR!Init, Ended

LEMMA RefinedDecode == ModelInv /\ LoopInv /\ Decode => AR!Emit
<1> SUFFICES ASSUME ModelInv, LoopInv, Decode PROVE AR!Emit
  OBVIOUS
<1>1. /\ pc = "choose" /\ LoopGuard /\ pc' = "decode"
      /\ UNCHANGED <<prompt, max_new, context, stop_at_eos>>
  BY DEF Decode
<1>2. PICK next \in Draw : ~IsEos(next) /\ out' = Append(out, next)
  BY DEF Decode
<1>3. next \in Choices(prompt \o out)
  BY <1>1, <1>2, DrawIsToken DEF Text
<1>4. Len(out) # Room
  <2>1. Arguments /\ prompt # <<>> /\ pos = Len(prompt) + Len(out)
    BY <1>1 DEF LoopInv, Choosing
  <2>2. /\ Room \in Nat /\ max_seq \in Nat /\ Len(prompt) \in Nat /\ Len(out) \in Nat
        /\ Len(prompt) <= max_seq => max_seq = Len(prompt) + Room
    BY <2>1, RoomOfCache
  <2>3. Len(prompt) + Len(out) < max_seq
    BY <1>1, <2>1 DEF LoopGuard
  <2> HIDE DEF Room, max_seq
  <2>4. QED
    BY <2>2, <2>3
<1>5. Room' = Room
  BY <1>1 DEF Room
<1>6. QED
  BY <1>1, <1>2, <1>3, <1>4, <1>5 DEF AR!Emit, AR!AtLimit, Ended, IsEos

LEMMA RefinedDone == ModelInv /\ LoopInv /\ Done => AR!Stop
<1> SUFFICES ASSUME ModelInv, LoopInv, Done PROVE AR!Stop
  OBVIOUS
<1>1. /\ pc = "choose" /\ pc' = "done"
      /\ UNCHANGED <<prompt, max_new, context, stop_at_eos, out>>
      /\ ~LoopGuard \/ \E next \in Draw : IsEos(next)
  BY DEF Done
<1>2. Room' = Room
  BY <1>1 DEF Room
<1>3. CASE ~LoopGuard
  <2>1. /\ Arguments /\ prompt # <<>> /\ pos = Len(prompt) + Len(out)
        /\ Len(out) <= Room
    BY <1>1 DEF LoopInv, Choosing
  <2>2. /\ Room \in Nat /\ max_seq \in Nat /\ Len(prompt) \in Nat /\ Len(out) \in Nat
        /\ context \in Nat /\ max_new \in Nat
        /\ Len(prompt) <= max_seq => max_seq = Len(prompt) + Room
        /\ Len(prompt) > max_seq => Len(prompt) > context /\ Room = 0
    BY <2>1, RoomOfCache
  <2>3. Room <= max_new
    BY <2>2, SMT DEF Room, Least
  <2>4. Len(out) >= max_new \/ Len(prompt) + Len(out) >= max_seq
    <3>1. ~(Len(out) < max_new) \/ ~(Len(prompt) + Len(out) < max_seq)
      BY <1>3, <2>1 DEF LoopGuard
    <3> HIDE DEF max_seq
    <3>2. QED
      BY <2>2, <3>1
  <2>5. Len(out) = Room
    <3> HIDE DEF Room, max_seq
    <3> QED  BY <2>1, <2>2, <2>3, <2>4
  <2>6. QED
    BY <1>1, <1>2, <2>5 DEF AR!Stop, AR!AtLimit, Ended
<1>4. CASE LoopGuard
  <2>1. PICK next \in Draw : IsEos(next)
    BY <1>1, <1>4
  <2>2. next \in Choices(prompt \o out) /\ stop_at_eos /\ next = Eos
    BY <1>1, <1>4, <2>1, DrawIsToken DEF Text, IsEos
  <2>3. QED
    BY <1>1, <1>2, <2>2 DEF AR!Stop, AR!AtEos, Ended
<1>5. QED
  BY <1>3, <1>4

(* The safety part of ImplementsReference: what a run emits is one of the  *)
(* continuations the reference model allows after the whole prompt, and it *)
(* stops at the limit the context sets, at end of sequence, or failing.    *)
THEOREM FollowsReference == GSpec => AR!Safety
<1>1. ModelInv /\ LoopInv /\ [GNext]_allVars => [AR!Next]_(AR!vars)
  <2> SUFFICES ASSUME ModelInv, LoopInv, [GNext]_allVars PROVE [AR!Next]_(AR!vars)
    OBVIOUS
  <2>1. CASE Decode
    BY <2>1, RefinedDecode DEF AR!Next
  <2>2. CASE Done
    BY <2>2, RefinedDone DEF AR!Next
  <2>3. CASE EmptyPrompt \/ OverrunPanics \/ OverrunFails
    <3>0. /\ pc = "setup" /\ pc' \in {"failed", "overrun"}
          /\ UNCHANGED <<prompt, max_new, context, stop_at_eos, out>>
      BY <2>3 DEF EmptyPrompt, OverrunPanics, OverrunFails, Overrun, TooLong
    <3>1. Room' = Room
      BY <3>0 DEF Room
    <3>2. AR!Abandon
      BY <3>0, <3>1 DEF AR!Abandon, Ended
    <3>3. QED
      BY <3>2 DEF AR!Next
  <2>4. CASE Prefill \/ ModelStep \/ Returned \/ UNCHANGED allVars
    <3>1. UNCHANGED <<prompt, max_new, context, stop_at_eos, out>>
      BY <2>4 DEF Prefill, ModelStep, Returned, allVars, loopVars
    <3>2. Room' = Room
      BY <3>1 DEF Room
    <3>3. \/ pc' = pc
          \/ pc \notin Ended /\ pc' \notin Ended
          \/ pc \notin Ended /\ pc' = "failed"
      BY <2>4 DEF Prefill, ModelStep, Returned, allVars, loopVars, Ended
    <3>4. CASE pc \notin Ended /\ pc' = "failed"
      BY <3>1, <3>2, <3>4 DEF AR!Next, AR!Abandon, Ended
    <3>5. CASE pc' = pc \/ (pc \notin Ended /\ pc' \notin Ended)
      BY <3>1, <3>2, <3>5 DEF AR!vars
    <3>6. QED
      BY <3>3, <3>4, <3>5
  <2>5. CASE OverrunUnchecked
    <3>1. /\ pc = "setup" /\ pc' = "done" /\ prompt # <<>> /\ Len(prompt) > max_seq
          /\ UNCHANGED <<prompt, max_new, context, stop_at_eos, out>>
      BY <2>5 DEF OverrunUnchecked, Overrun, TooLong
    <3>2. Room = 0
      BY <3>1, RoomOfCache DEF LoopInv
    <3>3. Room' = Room
      BY <3>1 DEF Room
    <3>4. Len(out) = Room
      BY <3>1, <3>2 DEF LoopInv, Setup
    <3>5. AR!Stop
      BY <3>1, <3>3, <3>4 DEF AR!Stop, AR!AtLimit, Ended
    <3>6. QED
      BY <3>5 DEF AR!Next
  <2>6. QED
    BY <2>1, <2>2, <2>3, <2>4, <2>5 DEF GNext
<1>2. QED
  BY LoopInductive, RefinedInit, <1>1, PTL DEF GSpec, AR!Safety

=============================================================================
