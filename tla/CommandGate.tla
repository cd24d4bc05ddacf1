---------------------------- MODULE CommandGate ----------------------------
(***************************************************************************)
(* What consent and tool execution promise together: a command runs at     *)
(* most once, only when the policy or the user allowed it, and a refused   *)
(* command never runs.                                                     *)
(***************************************************************************)
CONSTANT Calls
VARIABLE status

Statuses == {"open", "asked", "refused", "running", "ended"}

Init == status = [c \in Calls |-> "open"]

(* The policy decides, or leaves the decision to the user *)
Decide(c) ==
  /\ status[c] = "open"
  /\ \E s \in {"asked", "refused", "running"} : status' = [status EXCEPT ![c] = s]

Approve(c) ==
  /\ status[c] = "asked"
  /\ status' = [status EXCEPT ![c] = "running"]

(* Requests are refused one by one by the user, together when a view goes *)
Refuse(refused) ==
  /\ refused # {}
  /\ \A c \in refused : status[c] = "asked"
  /\ status' = [c \in Calls |-> IF c \in refused THEN "refused" ELSE status[c]]

End(c) ==
  /\ status[c] = "running"
  /\ status' = [status EXCEPT ![c] = "ended"]

Next ==
  \/ \E c \in Calls : Decide(c) \/ Approve(c) \/ End(c)
  \/ \E refused \in SUBSET Calls : Refuse(refused)

Spec == Init /\ [][Next]_status
=============================================================================
