-------------------------- MODULE MCRequestRunner --------------------------
(* Small instances of RequestRunner *)
EXTENDS RequestRunner, TLC

CONSTANTS v1, v2, v3, pa, pb, r1, r2, r3

(* Pane pa is rebuilt once, as v2; pane pb has the one view v3 *)
ViewPane == v1 :> pa @@ v2 :> pa @@ v3 :> pb

(* Two panes side by side *)
TwoPanes == v1 :> pa @@ v3 :> pb

(* One pane, rebuilt once, and one pane that is never rebuilt *)
RebuiltPane == v1 :> pa @@ v2 :> pa
OnePane == v1 :> pa

Symmetric == Permutations(Requests)
=============================================================================
