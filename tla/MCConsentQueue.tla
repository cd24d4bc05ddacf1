--------------------------- MODULE MCConsentQueue ---------------------------
(* A small instance of ConsentQueue for TLC: two calls of one tab, one of  *)
(* another, one made without a tab *)
EXTENDS ConsentQueue, TLC

CONSTANTS c1, c2, c3, c4, s1, s2

TwoViews == (c1 :> s1) @@ (c2 :> s1) @@ (c3 :> s2) @@ (c4 :> NoSession)
=============================================================================
