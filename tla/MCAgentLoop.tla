---------------------------- MODULE MCAgentLoop -----------------------------
(***************************************************************************)
(* Two requests of one view, which may overlap or follow each other.  r1   *)
(* can be stopped; r2 is a remediation, which is run without a signal: one *)
(* round with the model shows what it can do to r1, and its stages, phases *)
(* and reads, which r1 does not meet, are those of r1.                     *)
(***************************************************************************)
EXTENDS AgentLoop

CONSTANTS r1, r2, v1

TwoOfOneView == [r \in Requests |-> v1]
TwoAndOne == [r \in Requests |-> IF r = r1 THEN 2 ELSE 1]
TwoOfTheFirst == [r \in Requests |-> IF r = r1 THEN 2 ELSE 0]
=============================================================================
