--------------------------- MODULE Autoregressive ---------------------------
(***************************************************************************)
(* What a decode run promises, with no model, cache or position in it: a   *)
(* continuation of the prompt in which every token is one the reference    *)
(* model allows after all the tokens before it, cut off at a length limit  *)
(* or at end of sequence, or abandoned.                                    *)
(***************************************************************************)
EXTENDS Naturals, Sequences

CONSTANTS
  Token,
  Eos,          \* eos_token_id
  Choices(_)    \* the tokens the sampler may draw after a token history

VARIABLES
  prompt,       \* the encoded prompt
  limit,        \* tokens that may be emitted
  stop_at_eos,
  out,          \* tokens emitted
  status        \* "running", "stopped" or "failed"

vars == <<prompt, limit, stop_at_eos, out, status>>

Init ==
  /\ limit \in Nat
  /\ stop_at_eos \in BOOLEAN
  /\ out = <<>>
  /\ status = "running"

AtLimit == Len(out) = limit
AtEos   == stop_at_eos /\ Eos \in Choices(prompt \o out)

Emit ==
  /\ status = "running" /\ ~AtLimit
  /\ \E next \in Choices(prompt \o out) :
       /\ ~(stop_at_eos /\ next = Eos)
       /\ out' = Append(out, next)
  /\ UNCHANGED <<prompt, limit, stop_at_eos, status>>

Stop ==
  /\ status = "running" /\ (AtLimit \/ AtEos)
  /\ status' = "stopped"
  /\ UNCHANGED <<prompt, limit, stop_at_eos, out>>

Abandon ==
  /\ status = "running"
  /\ status' = "failed"
  /\ UNCHANGED <<prompt, limit, stop_at_eos, out>>

Next == Emit \/ Stop \/ Abandon

(* What a run may do, and that it does not hang.                           *)
Safety == Init /\ [][Next]_vars
Spec   == Safety /\ WF_vars(Next)

=============================================================================
