------------------------- MODULE MCInferenceEngine -------------------------
(* A small instance of InferenceEngine for TLC: two requests of one tab    *)
(* and one of another                                                      *)
EXTENDS InferenceEngine, TLC

CONSTANTS r1, r2, r3, s1, s2, o1

TwoTabs == (r1 :> s1) @@ (r2 :> s2) @@ (r3 :> s1)
=============================================================================
