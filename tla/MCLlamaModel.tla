---------------------------- MODULE MCLlamaModel ----------------------------
(* Small instances of LlamaModel.                                          *)
EXTENDS LlamaModelInv, TLC

CONSTANTS c1, c2

Load(p, ls, f) == [path |-> p, layers |-> ls, faulty |-> f]
Shape(n, d)    == [max_seq |-> n, dtype |-> d]

(* Dense, LFM2-like and Qwen3.5-like stacks, on both paths.                *)
MCModels ==
  {Load("cpu", <<"attention", "attention">>, 0),
   Load("cpu", <<"recurrent", "attention", "recurrent">>, 0),
   Load("cpu", <<"recurrent", "attention">>, 2),
   Load("gpu", <<"attention", "attention">>, 0),
   Load("gpu", <<"attention", "recurrent">>, 0)}
MCHybrid   == {Load("cpu", <<"recurrent", "attention">>, 0)}
MCDenseGpu == {Load("gpu", <<"attention", "attention">>, 0)}

MCGeometries ==
  {(c1 :> Shape(3, "f16")) @@ (c2 :> g) : g \in {Shape(3, "f16"), Shape(2, "q8_0")}}
=============================================================================
