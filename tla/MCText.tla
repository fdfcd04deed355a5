------------------------------- MODULE MCText -------------------------------
(***************************************************************************)
(* The text side of generate: what becomes of a prompt (Tokenizer), of the *)
(* logits of a pass (Sampler) and of the tokens of an answer (Utf8Stream). *)
(* The three share no state; a behaviour is one call of one of them, and   *)
(* the others stay as they are.                                            *)
(***************************************************************************)
EXTENDS Tokenizer, Sampler, Utf8Stream, TLC

CONSTANTS Parts, WordLetters, MaxText

VARIABLE part

-----------------------------------------------------------------------------
(* Texts and tables.  32 is the space, 10 a newline, 39 the apostrophe, 49 *)
(* a digit, 233 a letter of two bytes.  Words: contractions with one and   *)
(* two letters, runs, spaces.                                              *)
UpTo(n, S) == UNION {[1 .. k -> S] : k \in 0 .. n}

MCTexts ==
  UpTo(MaxText, WordLetters)
    \union UpTo(MaxText + 1, {97, 98})
    \union UpTo(MaxText, {60, 62, 97})
    \union {<<97>> \o w \o <<32>> : w \in Range(Contractions)}
    \union {<<39, 114, 115>>, <<39, 108, 39, 108, 108>>, <<97, 233, 98, 97, 233>>}

a == <<97>>
b == <<98>>
ab == <<97, 98>>
aba == <<97, 98, 97>>
(* A trained table, one whose second merge makes the first possible again, *)
(* and one with pieces that are not tokens.                                *)
MCTables ==
  { [merges |-> << <<a, b>>, <<b, a>>, <<a, a>>, <<ab, ab>>, <<ab, a>> >>,
     vocab |-> {ab, aba}, special |-> {<<60, 62>>, <<60, 62, 62>>}],
    [merges |-> << <<ab, a>>, <<a, b>> >>, vocab |-> {ab, aba}, special |-> {}],
    [merges |-> << <<b, a>>, <<<<195>>, <<169>> >>, <<<<98, 97>>, <<195>> >> >>,
     vocab |-> {<<98, 97>>}, special |-> {<<60>>, <<62, 97>>}] }

-----------------------------------------------------------------------------
(* Logits.  Floats of four bits with 1.0 = 32, so that every sum rounds.   *)
(* Two temperatures, and three without a usable reciprocal: so small that  *)
(* it overflows, infinite, and a NaN.                                      *)
Ordinary == { (0 :> 32) @@ (1 :> 12) @@ (2 :> 5) @@ (3 :> 0) @@ (PlusInf :> 0),
              (0 :> 32) @@ (1 :> 28) @@ (2 :> 24) @@ (3 :> 20) @@ (PlusInf :> 0) }
MCExps == Ordinary \union
            { [d \in Reach |-> IF d = 0 THEN NaN ELSE 0],
              [d \in Reach |-> IF d = PlusInf THEN NaN ELSE One],
              [d \in Reach |-> NaN] }

(* At most two logits are not finite, and at most one at the temperatures  *)
(* that are unusual themselves.                                            *)
FewSpecial ==
  Cardinality({t \in 1 .. Logits : logits[t] \in Special}) <= (IF exp \in Ordinary THEN 2 ELSE 1)

-----------------------------------------------------------------------------
(* Answers.  Tokens are single bytes, as a byte-level vocabulary has them, *)
(* tokens that end or begin inside a character, a whole character, and the *)
(* empty token of an id without an entry.                                  *)
MCTokens ==
  {<<x>> : x \in {"ascii", "lead2", "lead3", "cont", "bad"}}
    \union {<<>>, <<"lead2", "cont">>, <<"lead3", "cont">>, <<"cont", "ascii">>, <<"ascii", "lead2">>,
            <<"cont", "lead3">>}

-----------------------------------------------------------------------------
(* A part that does not run is in one of its initial states.               *)
TextInit ==
  /\ part \in Parts
  /\ IF part = "tokenizer" THEN TRUE
     ELSE text = <<>> /\ table = (CHOOSE t \in MCTables : TRUE) /\ add_bos = FALSE /\ add_eos = FALSE
  /\ Init
  /\ IF part = "sampler" THEN TRUE
     ELSE /\ logits = [t \in 1 .. Logits |-> 0] /\ exp = (CHOOSE e \in Ordinary : TRUE)
          /\ greedy = TRUE /\ top_k = 0 /\ top_p = 32
  /\ SampleInit /\ FewSpecial
  /\ StreamInit

Encode == part = "tokenizer" /\ Next /\ UNCHANGED <<part, sampleVars, streamVars>>
Sample == part = "sampler" /\ SampleNext /\ UNCHANGED <<part, vars, streamVars>>
Answer == part = "stream" /\ StreamNext /\ UNCHANGED <<part, vars, sampleVars>>

TextNext == Encode \/ Sample \/ Answer

(* encode runs to its end on the calling thread.                           *)
TextSpec ==
  TextInit /\ [][TextNext]_<<part, vars, sampleVars, streamVars>> /\ WF_vars(Encode)

-----------------------------------------------------------------------------
(* encode returns, when it is called.                                      *)
EncodeReturns == (part = "tokenizer") => Returns
=============================================================================
