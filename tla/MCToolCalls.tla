---------------------------- MODULE MCToolCalls ----------------------------
(* Small instances of ToolCalls for TLC *)
EXTENDS ToolCalls, TLC

CONSTANTS c1, c2, s1

(* A call of a tab and one made without a tab, in one view *)
OneView == (c1 :> s1) @@ (c2 :> NoSession)

(* A single call *)
OneCall == (c1 :> s1)
=============================================================================
