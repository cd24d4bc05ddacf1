----------------------------- MODULE FileService -----------------------------
(***************************************************************************)
(* What the download of a file promises those who call for it, whatever is *)
(* resumed, cancelled, discarded or cut short: one of them is served at a  *)
(* time; the file comes whole, in the moment the one that is served is     *)
(* told so; and a call is answered once for each attempt, of which it has  *)
(* a fixed number.                                                         *)
(***************************************************************************)
EXTENDS Naturals

CONSTANTS Callers, MaxRetries

VARIABLES
  file,   \* "none" or "whole"
  call,   \* of each caller: none, asked for, served, or how it was answered
  tries   \* attempts of the call that have failed

vars == <<file, call, tries>>

Init ==
  /\ file = "none"
  /\ call = [c \in Callers |-> "none"]
  /\ tries = [c \in Callers |-> 0]

Becomes(c, state) == call' = [call EXCEPT ![c] = state]

SomebodyIsServed == \E c \in Callers : call[c] = "served"

Ask(c) ==
  /\ call[c] = "none"
  /\ Becomes(c, "asked")
  /\ tries' = [tries EXCEPT ![c] = 0]
  /\ UNCHANGED file

(* One is served at a time, the others are turned away *)
Serve(c) ==
  /\ call[c] = "asked"
  /\ Becomes(c, IF SomebodyIsServed THEN "error" ELSE "served")
  /\ UNCHANGED <<file, tries>>

Deliver(c) ==
  /\ call[c] = "served"
  /\ file' = "whole"
  /\ Becomes(c, "ok")
  /\ UNCHANGED tries

Disappoint(c) ==
  /\ call[c] = "served"
  /\ \E answer \in {"error", "cancelled"} : Becomes(c, answer)
  /\ UNCHANGED <<file, tries>>

(* An error is tried again, as often as that is allowed *)
Retry(c) ==
  /\ call[c] = "error" /\ tries[c] < MaxRetries
  /\ Becomes(c, "asked")
  /\ tries' = [tries EXCEPT ![c] = @ + 1]
  /\ UNCHANGED file

Return(c) ==
  /\ call[c] \in {"ok", "cancelled"} \/ (call[c] = "error" /\ tries[c] = MaxRetries)
  /\ Becomes(c, "none")
  /\ UNCHANGED <<file, tries>>

(* The file is deleted, or removed to make place for the new one *)
Remove ==
  /\ file' = "none"
  /\ UNCHANGED <<call, tries>>

(* The calls of an application that ends end with it *)
Crash ==
  /\ call' = [c \in Callers |-> "none"]
  /\ tries' = [c \in Callers |-> 0]
  /\ UNCHANGED file

Next ==
  \/ \E c \in Callers :
       Ask(c) \/ Serve(c) \/ Deliver(c) \/ Disappoint(c) \/ Retry(c) \/ Return(c)
  \/ Remove
  \/ Crash

Spec == Init /\ [][Next]_vars
=============================================================================
