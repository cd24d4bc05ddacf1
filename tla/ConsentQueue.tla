---------------------------- MODULE ConsentQueue ----------------------------
(***************************************************************************)
(* The requests for the user's consent                                     *)
(* (src/domain/security/ConsentQueue.ts), shared by all terminal views,    *)
(* and the dialog in which a view shows one of them                        *)
(* (src/presentation/TerminalView.tsx).  A request is named by the call    *)
(* that waits for its answer.                                              *)
(***************************************************************************)
EXTENDS Naturals

CONSTANTS
  Calls,      \* tool calls; one asks at most once
  Sessions,   \* shell sessions: the tabs of the requests
  NoCall,     \* null
  NoSession,  \* the tab of a request made without one
  SessionOf   \* the tab of a call's request

ASSUME ConsentAssumption ==
  /\ NoCall \notin Calls
  /\ NoSession \notin Sessions
  /\ SessionOf \in [Calls -> Sessions \cup {NoSession}]

VARIABLES
  pendingRequests,  \* the keys of the map of pending requests
  since,            \* the order in which they were put into it, in which a map is
                    \* read; 0 for a request that was not made yet
  asks,             \* how many requests were made
  subscribed,       \* sessions with a view that listens to the queue
  dialog            \* the request the view of a session shows

consentVars == <<pendingRequests, since, asks, subscribed, dialog>>

ConsentTypeOK ==
  /\ pendingRequests \subseteq Calls
  /\ since \in [Calls -> Nat]
  /\ asks \in Nat
  /\ subscribed \subseteq Sessions
  /\ dialog \in [Sessions -> Calls \cup {NoCall}]

ConsentInit ==
  /\ pendingRequests = {}
  /\ since = [c \in Calls |-> 0]
  /\ asks = 0
  /\ subscribed = Sessions
  /\ dialog = [s \in Sessions |-> NoCall]

(* The request a view shows: the first that has its tab, or no tab *)
Matching(requests, s) == {c \in requests : SessionOf[c] \in {s, NoSession}}

FirstOf(requests, order) == CHOOSE c \in requests : \A d \in requests : order[c] <= order[d]

Shown(requests, order, s) ==
  IF Matching(requests, s) = {} THEN NoCall ELSE FirstOf(Matching(requests, s), order)

(* notifyListeners: every view that listens shows its first request, or    *)
(* closes its dialog                                                       *)
NotifyWithoutClosing(views, requests, order) ==  \* mutant: a dialog with nothing to show stays
  [s \in Sessions |-> IF s \in views /\ Matching(requests, s) # {}
                        THEN Shown(requests, order, s) ELSE dialog[s]]
Notify(views, requests, order) ==
  [s \in Sessions |-> IF s \in views THEN Shown(requests, order, s) ELSE dialog[s]]

(* enqueue *)
Ask(c) ==
  /\ since[c] = 0
  /\ pendingRequests' = pendingRequests \cup {c}
  /\ since' = [since EXCEPT ![c] = asks + 1]
  /\ asks' = asks + 1
  /\ dialog' = Notify(subscribed, pendingRequests', since')
  /\ UNCHANGED subscribed

(* A button or key of the dialog of session s: approve or deny, whose      *)
(* notification is followed by the closing of the dialog in the same       *)
(* handler.  React keeps the last of the two values set.                   *)
AnswerFromDialog(s) ==
  /\ dialog[s] # NoCall
  /\ pendingRequests' = pendingRequests \ {dialog[s]}
  /\ dialog' = [Notify(subscribed, pendingRequests', since) EXCEPT ![s] = NoCall]
  /\ UNCHANGED <<since, asks, subscribed>>

(* The view of session s is unmounted: it no longer listens, its dialog is *)
(* gone, and clearQueue refuses the requests of its tab, if there are any. *)
OfTab(s) == {c \in pendingRequests : SessionOf[c] = s}

Unsubscribe(s) ==
  /\ s \in subscribed
  /\ subscribed' = subscribed \ {s}
  /\ pendingRequests' = pendingRequests \ OfTab(s)
  /\ dialog' = [IF OfTab(s) = {} THEN dialog ELSE Notify(subscribed', pendingRequests', since)
                  EXCEPT ![s] = NoCall]
  /\ UNCHANGED <<since, asks>>

(* The new view of the pane listens and is called back at once *)
SubscribeSilently(s) ==  \* mutant: it waits for the next change of the queue
  /\ s \notin subscribed
  /\ subscribed' = subscribed \cup {s}
  /\ UNCHANGED <<dialog, pendingRequests, since, asks>>
Subscribe(s) ==
  /\ s \notin subscribed
  /\ subscribed' = subscribed \cup {s}
  /\ dialog' = [dialog EXCEPT ![s] = Shown(pendingRequests, since, s)]
  /\ UNCHANGED <<pendingRequests, since, asks>>

(* A view is unmounted before its shell was created: clearQueue(undefined) *)
(* refuses every request of every tab.                                     *)
ClearAll ==
  /\ pendingRequests # {}
  /\ pendingRequests' = {}
  /\ dialog' = Notify(subscribed, {}, since)
  /\ UNCHANGED <<since, asks, subscribed>>

-----------------------------------------------------------------------------
ConsentNext ==
  \/ \E c \in Calls : Ask(c)
  \/ \E s \in Sessions : AnswerFromDialog(s) \/ Unsubscribe(s) \/ Subscribe(s)
  \/ ClearAll

ConsentSpec == ConsentInit /\ [][ConsentNext]_consentVars
-----------------------------------------------------------------------------
(* Properties                                                              *)

(* A dialog shows the oldest pending request of its tab: never one that    *)
(* was answered in another tab, cleared, or overtaken.                     *)
DialogIsCurrent ==
  \A s \in Sessions : dialog[s] # NoCall =>
    /\ s \in subscribed
    /\ dialog[s] \in Matching(pendingRequests, s)
    /\ \A c \in Matching(pendingRequests, s) : since[dialog[s]] <= since[c]

(* A view can hide a request that it should show: an answer closes the     *)
(* dialog that the queue has just opened for the next one.  That happens   *)
(* in the view where the answer was given and in no other, until the queue *)
(* changes again.                                                          *)
Hides(s) == s \in subscribed /\ dialog[s] = NoCall /\ Matching(pendingRequests, s) # {}

OneViewHidesAtMost == \A s, t \in Sessions : Hides(s) /\ Hides(t) => s = t
=============================================================================
