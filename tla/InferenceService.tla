-------------------------- MODULE InferenceService --------------------------
(***************************************************************************)
(* What the inference queue promises the tabs: requests for the embedded   *)
(* model are served one at a time, in the order they came, and each gets   *)
(* one answer.  A request that waits may be withdrawn with its session.    *)
(***************************************************************************)
EXTENDS Naturals

CONSTANTS Requests, NoRequest

VARIABLES
  place,    \* the number with which each request that waits came, 0 for the others
  joined,   \* how many came
  serving,  \* the request that is served
  answer    \* what each was answered, "none" before

vars == <<place, joined, serving, answer>>

Answers == {"ok", "error", "cancelled"}

Waiting(places) == {r \in Requests : places[r] > 0}
First(places) ==
  CHOOSE r \in Waiting(places) : \A q \in Waiting(places) : places[r] <= places[q]

Init ==
  /\ place = [r \in Requests |-> 0]
  /\ joined = 0
  /\ serving = NoRequest
  /\ answer = [r \in Requests |-> "none"]

(* The first of those that wait is served, if nobody is *)
Serve(places) ==
  /\ serving = NoRequest /\ Waiting(places) # {}
  /\ serving' = First(places)
  /\ place' = [places EXCEPT ![First(places)] = 0]

(* A request comes *)
Join(r) ==
  /\ place[r] = 0 /\ r # serving /\ answer[r] = "none"
  /\ joined' = joined + 1
  /\ LET places == [place EXCEPT ![r] = joined + 1]
     IN \/ Serve(places)
        \/ place' = places /\ UNCHANGED serving
  /\ UNCHANGED answer

Take ==
  /\ Serve(place)
  /\ UNCHANGED <<joined, answer>>

(* Only the request that is served is answered, and once *)
Answer ==
  /\ serving \in Requests
  /\ answer[serving] = "none"
  /\ \E a \in Answers : answer' = [answer EXCEPT ![serving] = a]
  /\ UNCHANGED <<place, joined, serving>>

(* The server is free again only when it has answered *)
Free ==
  /\ serving \in Requests
  /\ answer[serving] # "none"
  /\ serving' = NoRequest
  /\ UNCHANGED <<place, joined, answer>>

(* The requests of a closed session leave the queue, the others keep their *)
(* places                                                                  *)
Withdraw(closed) ==
  /\ closed \subseteq Waiting(place)
  /\ place' = [r \in Requests |-> IF r \in closed THEN 0 ELSE place[r]]
  /\ answer' = [r \in Requests |-> IF r \in closed THEN "closed" ELSE answer[r]]
  /\ UNCHANGED <<joined, serving>>

Next ==
  \/ \E r \in Requests : Join(r)
  \/ Take
  \/ Answer
  \/ Free
  \/ \E closed \in SUBSET Requests : Withdraw(closed)

Spec == Init /\ [][Next]_vars
=============================================================================
