--------------------------- MODULE ChoiceRequests ---------------------------
(***************************************************************************)
(* Choice dialogs (src/presentation/ChoiceRequests.ts).  The view that has *)
(* the focus claims the questions of every agent loop and shows one at a   *)
(* time (src/presentation/TerminalView.tsx): a question that comes while   *)
(* another is shown replaces it, and a view that goes takes its dialog     *)
(* along.  In both cases the asker is never answered; there is no time     *)
(* limit.                                                                  *)
(***************************************************************************)
CONSTANTS
  Requests,   \* requests of the agent loops, which ask
  Views,      \* terminal views
  NoRequest,
  NoView

ASSUME ChoiceAssumption == NoRequest \notin Requests /\ NoView \notin Views

VARIABLES
  owner,      \* the view that claimed the questions
  dialog      \* choiceRequest: the request whose question a view shows

choiceVars == <<owner, dialog>>

ChoiceTypeOK ==
  /\ owner \in Views \cup {NoView}
  /\ dialog \in [Views -> Requests \cup {NoRequest}]

ChoiceInit ==
  /\ owner = NoView
  /\ dialog = [v \in Views |-> NoRequest]

(* With a screen to ask on, askChoice shows the question of r.  Without    *)
(* one it resolves at once, to undefined.                                  *)
CanAsk == owner # NoView
Ask(r) ==
  /\ dialog' = [dialog EXCEPT ![owner] = r]
  /\ UNCHANGED owner

(* The person answers the dialog v shows for r.                            *)
Answer(v, r) ==
  /\ dialog[v] = r
  /\ dialog' = [dialog EXCEPT ![v] = NoRequest]
  /\ UNCHANGED owner

Claim(v) ==
  /\ owner' = v
  /\ UNCHANGED dialog

Release(v) ==
  /\ owner = v
  /\ owner' = NoView
  /\ UNCHANGED dialog

Unmount(v) ==
  /\ dialog' = [dialog EXCEPT ![v] = NoRequest]
  /\ owner' = IF owner = v THEN NoView ELSE owner

ChoiceViewStep(v) == Claim(v) \/ Release(v) \/ Unmount(v)
=============================================================================
