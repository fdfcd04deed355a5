---------------------------- MODULE MCGeneration ----------------------------
(* Small instances of Generation.                                          *)
EXTENDS Generation, TLC

CONSTANTS a, b, eos, c1

Load(p, ls, f) == [path |-> p, layers |-> ls, faulty |-> f]

MCModels ==
  {Load("cpu", <<"attention", "attention">>, 0),
   Load("cpu", <<"recurrent", "attention", "recurrent">>, 0),
   Load("cpu", <<"recurrent", "attention">>, 2),
   Load("gpu", <<"attention", "recurrent">>, 0)}

MCGeometries == [Cache -> {[max_seq |-> n, dtype |-> "f16"] : n \in 1..4}]

MCPrompts == {<<>>, <<a>>, <<a, b>>, <<b, b>>, <<b, Invalid>>, <<b, a, b>>}

(* Depends on the first, the last and the number of tokens before.         *)
MCChoices(h) ==
  IF h = <<>> THEN {eos}
  ELSE IF h[Len(h)] = a THEN {b, eos}
  ELSE IF h[1] = a THEN {a}
  ELSE IF Len(h) = 3 THEN {eos} ELSE {b, a}
=============================================================================
