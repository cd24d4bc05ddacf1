------------------------- MODULE ConsentQueue_proofs -------------------------
(***************************************************************************)
(* Proofs about ConsentQueue, for any number of calls and sessions         *)
(***************************************************************************)
EXTENDS ConsentQueue, WellFoundedInduction, TLAPS

(* A set of requests that is not empty has a first one *)
LEMMA FirstExists ==
  ASSUME NEW requests, requests \subseteq Calls, requests # {},
         NEW order, order \in [Calls -> Nat]
  PROVE  /\ FirstOf(requests, order) \in requests
         /\ \A d \in requests : order[FirstOf(requests, order)] <= order[d]
<1> DEFINE ranks == {order[c] : c \in requests}
<1>1. ranks \subseteq Nat /\ ranks # {}
  OBVIOUS
<1>2. PICK n \in ranks : \A m \in ranks : n <= m
  <2> DEFINE less == OpToRel(<, Nat)
  <2>1. IsWellFoundedOn(less, Nat)
    BY NatLessThanWellFounded
  <2>2. \E n \in ranks : \A m \in ranks : <<m, n>> \notin less
    <3> HIDE DEF less, ranks
    <3> QED
      BY <1>1, <2>1, WFMin
  <2>3. \A m, n \in ranks : <<m, n>> \notin less => n <= m
    BY <1>1 DEF OpToRel
  <2> QED
    BY <2>2, <2>3
<1>3. PICK c \in requests : order[c] = n
  BY <1>2
<1>4. \A d \in requests : order[c] <= order[d]
  BY <1>2, <1>3
<1> QED
  BY <1>4 DEF FirstOf

(* What a view shows is nothing, or the oldest of the requests it may show *)
Current(requests, order, s, shown) ==
  shown # NoCall =>
    /\ shown \in Matching(requests, s)
    /\ \A c \in Matching(requests, s) : order[shown] <= order[c]

(* The request a view is given to show is such a one *)
LEMMA ShownIsCurrent ==
  ASSUME NEW requests, requests \subseteq Calls,
         NEW order, order \in [Calls -> Nat], NEW s \in Sessions
  PROVE  /\ Shown(requests, order, s) \in Calls \cup {NoCall}
         /\ Current(requests, order, s, Shown(requests, order, s))
<1>1. Matching(requests, s) \subseteq Calls
  BY DEF Matching
<1>2. CASE Matching(requests, s) = {}
  BY <1>2 DEF Shown, Current
<1>3. CASE Matching(requests, s) # {}
  BY <1>1, <1>3, FirstExists DEF Shown, Current
<1> QED
  BY <1>2, <1>3

-----------------------------------------------------------------------------
(* A step of the queue keeps the types *)
LEMMA ConsentTypeStep ==
  ASSUME ConsentTypeOK, [ConsentNext]_consentVars
  PROVE  ConsentTypeOK'
<1> USE ConsentAssumption DEF ConsentTypeOK
<1>1. ASSUME NEW c \in Calls, Ask(c)
      PROVE  ConsentTypeOK'
  <2>1. /\ pendingRequests' \subseteq Calls /\ since' \in [Calls -> Nat]
        /\ asks' \in Nat /\ subscribed' \subseteq Sessions
    BY <1>1 DEF Ask
  <2>2. dialog' \in [Sessions -> Calls \cup {NoCall}]
    BY <1>1, <2>1, ShownIsCurrent DEF Ask, Notify
  <2> QED
    BY <2>1, <2>2
<1>2. ASSUME NEW s \in Sessions, AnswerFromDialog(s)
      PROVE  ConsentTypeOK'
  <2>1. /\ pendingRequests' \subseteq Calls /\ since' \in [Calls -> Nat]
        /\ asks' \in Nat /\ subscribed' \subseteq Sessions
    BY <1>2 DEF AnswerFromDialog
  <2>2. dialog' \in [Sessions -> Calls \cup {NoCall}]
    BY <1>2, <2>1, ShownIsCurrent DEF AnswerFromDialog, Notify
  <2> QED
    BY <2>1, <2>2
<1>3. ASSUME NEW s \in Sessions, Unsubscribe(s)
      PROVE  ConsentTypeOK'
  <2>1. /\ pendingRequests' \subseteq Calls /\ since' \in [Calls -> Nat]
        /\ asks' \in Nat /\ subscribed' \subseteq Sessions
    BY <1>3 DEF Unsubscribe
  <2>2. Notify(subscribed', pendingRequests', since) \in [Sessions -> Calls \cup {NoCall}]
    BY <2>1, ShownIsCurrent DEF Notify
  <2>3. dialog' \in [Sessions -> Calls \cup {NoCall}]
    BY <1>3, <2>2 DEF Unsubscribe
  <2> QED
    BY <2>1, <2>3
<1>4. ASSUME NEW s \in Sessions, Subscribe(s)
      PROVE  ConsentTypeOK'
  BY <1>4, ShownIsCurrent DEF Subscribe
<1>5. ASSUME ClearAll
      PROVE  ConsentTypeOK'
  <2>1. Notify(subscribed, {}, since) \in [Sessions -> Calls \cup {NoCall}]
    BY ShownIsCurrent DEF Notify
  <2> QED
    BY <1>5, <2>1 DEF ClearAll
<1>6. CASE UNCHANGED consentVars
  BY <1>6 DEF consentVars
<1> QED
  BY <1>1, <1>2, <1>3, <1>4, <1>5, <1>6 DEF ConsentNext

(* Every variable of the consent queue keeps its type *)
THEOREM ConsentTypeCorrect == ConsentSpec => []ConsentTypeOK
<1>1. ConsentInit => ConsentTypeOK
  BY ConsentAssumption DEF ConsentInit, ConsentTypeOK
<1> QED
  BY <1>1, ConsentTypeStep, PTL DEF ConsentSpec

-----------------------------------------------------------------------------
(* After a step, the dialog of a session is closed, or it was set by the   *)
(* notification of that step, or it is as before and so is the queue, or   *)
(* nobody listens.                                                         *)
LEMMA DialogAfterStep ==
  ASSUME ConsentTypeOK, [ConsentNext]_consentVars, NEW s \in Sessions
  PROVE  \/ dialog'[s] = NoCall
         \/ s \in subscribed' /\ dialog'[s] = Shown(pendingRequests', since', s)
         \/ /\ dialog'[s] = dialog[s] /\ UNCHANGED <<pendingRequests, since>>
            /\ s \in subscribed => s \in subscribed'
         \/ dialog'[s] = dialog[s] /\ s \notin subscribed
<1> USE DEF ConsentTypeOK
<1>1. ASSUME NEW c \in Calls, Ask(c)
      PROVE  \/ s \in subscribed' /\ dialog'[s] = Shown(pendingRequests', since', s)
             \/ dialog'[s] = dialog[s] /\ s \notin subscribed
  BY <1>1 DEF Ask, Notify
<1>2. ASSUME NEW t \in Sessions, AnswerFromDialog(t)
      PROVE  \/ dialog'[s] = NoCall
             \/ s \in subscribed' /\ dialog'[s] = Shown(pendingRequests', since', s)
             \/ dialog'[s] = dialog[s] /\ s \notin subscribed
  BY <1>2 DEF AnswerFromDialog, Notify
<1>3. ASSUME NEW t \in Sessions, Unsubscribe(t), s # t
      PROVE  \/ s \in subscribed' /\ dialog'[s] = Shown(pendingRequests', since', s)
             \/ /\ dialog'[s] = dialog[s] /\ UNCHANGED <<pendingRequests, since>>
                /\ s \in subscribed => s \in subscribed'
             \/ dialog'[s] = dialog[s] /\ s \notin subscribed
  <2>1. CASE OfTab(t) = {}
    BY <1>3, <2>1 DEF Unsubscribe
  <2>2. CASE OfTab(t) # {}
    BY <1>3, <2>2 DEF Unsubscribe, Notify
  <2> QED
    BY <2>1, <2>2
<1>4. ASSUME Unsubscribe(s)
      PROVE  dialog'[s] = NoCall
  <2>1. CASE OfTab(s) = {}
    BY <1>4, <2>1 DEF Unsubscribe
  <2>2. CASE OfTab(s) # {}
    BY <1>4, <2>2 DEF Unsubscribe, Notify
  <2> QED
    BY <2>1, <2>2
<1>5. ASSUME NEW t \in Sessions, Subscribe(t)
      PROVE  \/ s \in subscribed' /\ dialog'[s] = Shown(pendingRequests', since', s)
             \/ /\ dialog'[s] = dialog[s] /\ UNCHANGED <<pendingRequests, since>>
                /\ s \in subscribed => s \in subscribed'
  BY <1>5 DEF Subscribe
<1>6. ASSUME ClearAll
      PROVE  \/ s \in subscribed' /\ dialog'[s] = Shown(pendingRequests', since', s)
             \/ dialog'[s] = dialog[s] /\ s \notin subscribed
  BY <1>6 DEF ClearAll, Notify
<1>7. CASE UNCHANGED consentVars
  BY <1>7 DEF consentVars
<1> QED
  BY <1>1, <1>2, <1>3, <1>4, <1>5, <1>6, <1>7 DEF ConsentNext

(* A step of the queue leaves no stale dialog *)
LEMMA DialogStep ==
  ASSUME ConsentTypeOK, DialogIsCurrent, [ConsentNext]_consentVars
  PROVE  DialogIsCurrent'
<1> SUFFICES ASSUME NEW s \in Sessions, dialog'[s] # NoCall
             PROVE  s \in subscribed' /\ Current(pendingRequests', since', s, dialog'[s])
  BY DEF DialogIsCurrent, Current
<1>1. CASE s \in subscribed' /\ dialog'[s] = Shown(pendingRequests', since', s)
  BY <1>1, ConsentTypeStep, ShownIsCurrent DEF ConsentTypeOK
<1>2. CASE /\ dialog'[s] = dialog[s] /\ UNCHANGED <<pendingRequests, since>>
           /\ s \in subscribed => s \in subscribed'
  BY <1>2 DEF DialogIsCurrent, Current
<1>3. CASE dialog'[s] = dialog[s] /\ s \notin subscribed
  BY <1>3 DEF DialogIsCurrent
<1> QED
  BY <1>1, <1>2, <1>3, DialogAfterStep

(* A dialog shows the oldest pending request of its tab *)
THEOREM DialogCurrent == ConsentSpec => []DialogIsCurrent
<1>1. ConsentInit => ConsentTypeOK /\ DialogIsCurrent
  BY ConsentAssumption DEF ConsentInit, ConsentTypeOK, DialogIsCurrent
<1>2. ConsentTypeOK /\ DialogIsCurrent /\ [ConsentNext]_consentVars
        => (ConsentTypeOK /\ DialogIsCurrent)'
  BY ConsentTypeStep, DialogStep
<1> QED
  BY <1>1, <1>2, PTL DEF ConsentSpec

-----------------------------------------------------------------------------
(* Only an answer hides a request, in the view it is given in *)
LEMMA HidingStep ==
  ASSUME ConsentTypeOK, OneViewHidesAtMost, [ConsentNext]_consentVars
  PROVE  OneViewHidesAtMost'
<1> USE ConsentAssumption DEF ConsentTypeOK, OneViewHidesAtMost, Hides
<1>1. ASSUME ConsentTypeOK', NEW s \in Sessions, Matching(pendingRequests', s) # {}
      PROVE  Shown(pendingRequests', since', s) # NoCall
  <2>1. Matching(pendingRequests', s) \subseteq Calls
    BY <1>1 DEF Matching
  <2> QED
    BY <1>1, <2>1, FirstExists DEF Shown
<1>2. ASSUME NEW c \in Calls, Ask(c)
      PROVE  \A s \in Sessions : ~ Hides(s)'
  BY <1>1, <1>2, ConsentTypeStep DEF Ask, Notify
<1>3. ASSUME NEW t \in Sessions, AnswerFromDialog(t)
      PROVE  \A s \in Sessions \ {t} : ~ Hides(s)'
  BY <1>1, <1>3, ConsentTypeStep DEF AnswerFromDialog, Notify
<1>4. ASSUME NEW t \in Sessions, Unsubscribe(t)
      PROVE  OneViewHidesAtMost'
  <2>1. CASE OfTab(t) = {}
    BY <1>4, <2>1 DEF Unsubscribe
  <2>2. CASE OfTab(t) # {}
    BY <1>1, <1>4, <2>2, ConsentTypeStep DEF Unsubscribe, Notify
  <2> QED
    BY <2>1, <2>2
<1>5. ASSUME NEW t \in Sessions, Subscribe(t)
      PROVE  OneViewHidesAtMost'
  BY <1>1, <1>5, ConsentTypeStep DEF Subscribe
<1>6. ASSUME ClearAll
      PROVE  \A s \in Sessions : ~ Hides(s)'
  BY <1>6 DEF ClearAll, Matching
<1>7. CASE UNCHANGED consentVars
  BY <1>7 DEF consentVars
<1> QED
  BY <1>2, <1>3, <1>4, <1>5, <1>6, <1>7 DEF ConsentNext

(* At most one view hides a request it should show *)
THEOREM HiddenOnce == ConsentSpec => []OneViewHidesAtMost
<1>1. ConsentInit => OneViewHidesAtMost
  BY DEF ConsentInit, OneViewHidesAtMost, Hides, Matching
<1> QED
  BY <1>1, HidingStep, ConsentTypeCorrect, PTL DEF ConsentSpec
=============================================================================
