--------------------------- MODULE RequestService --------------------------
(***************************************************************************)
(* What the prompt queue and the views together promise, whatever the      *)
(* number of views and the moment their callbacks run: a single line that  *)
(* is served from its head, requests served at most once, and a request    *)
(* that was withdrawn or served never seen again.                          *)
(***************************************************************************)
EXTENDS Naturals, FiniteSets, SequencesExt

CONSTANT Requests

VARIABLES
  unasked,    \* not made yet
  arriving,   \* made, and not yet looked at by a view
  line,       \* waiting to be served, the next one first
  inService,  \* being worked on
  served,     \* finished, also when it was stopped or failed
  withdrawn   \* left the line without having been served

serviceVars == <<unasked, arriving, line, inService, served, withdrawn>>

Init ==
  /\ unasked = Requests
  /\ arriving = {}
  /\ line = <<>>
  /\ inService = {}
  /\ served = {}
  /\ withdrawn = {}

Ask(r) ==
  /\ r \in unasked
  /\ unasked' = unasked \ {r}
  /\ arriving' = arriving \cup {r}
  /\ UNCHANGED <<line, inService, served, withdrawn>>

(* The requests rs are looked at, in their order: they join the end of the *)
(* line, save for the first one when a view is free.                       *)
Arrive(rs, first) ==
  /\ IsInjective(rs)
  /\ unasked' = unasked \ ToSet(rs)
  /\ arriving' = arriving \ ToSet(rs)
  /\ inService' = inService \cup ToSet(SubSeq(rs, 1, first))
  /\ line' = line \o SubSeq(rs, first + 1, Len(rs))
  /\ UNCHANGED <<served, withdrawn>>

ServeNext ==
  /\ line # <<>>
  /\ inService' = inService \cup {Head(line)}
  /\ line' = Tail(line)
  /\ UNCHANGED <<unasked, arriving, served, withdrawn>>

Finish(r) ==
  /\ r \in inService
  /\ inService' = inService \ {r}
  /\ served' = served \cup {r}
  /\ UNCHANGED <<unasked, arriving, line, withdrawn>>

(* t holds its members in the order in which s does *)
InOrder(t, s) ==
  \A i, j \in DOMAIN t : i < j => \E k, l \in DOMAIN s : k < l /\ s[k] = t[i] /\ s[l] = t[j]

(* Some leave the line, the others keep their order *)
Withdraw(rs) ==
  /\ withdrawn' = withdrawn \cup rs
  /\ ToSet(line') = ToSet(line) \ rs
  /\ IsInjective(line')
  /\ InOrder(line', line)
  /\ UNCHANGED <<unasked, arriving, inService, served>>

Reorder ==
  /\ line' \in [1..Len(line) -> ToSet(line)]
  /\ IsInjective(line')
  /\ UNCHANGED <<unasked, arriving, inService, served, withdrawn>>

Next ==
  \/ \E r \in Requests : Ask(r) \/ Finish(r)
  \/ \E n \in 1..Cardinality(unasked \cup arriving), first \in 0..1 :
       \E rs \in [1..n -> unasked \cup arriving] : Arrive(rs, first)
  \/ ServeNext
  \/ \E rs \in SUBSET ToSet(line) : rs # {} /\ Withdraw(rs)
  \/ Reorder

Spec == Init /\ [][Next]_serviceVars
=============================================================================
