------------------------ MODULE RequestRunner_proofs ------------------------
(***************************************************************************)
(* Theorems about RequestRunner, for any number of panes, views, requests  *)
(* and overlapping stop keys.                                              *)
(***************************************************************************)
EXTENDS RequestRunner, PromptQueue_proofs, FiniteSetTheorems

-----------------------------------------------------------------------------
(* Types                                                                   *)

(* move() leaves a sequence of requests of the same length *)
LEMMA MovedType ==
  ASSUME NEW S, NEW s \in Seq(S), NEW i \in 1..Len(s), NEW j \in 1..Len(s)
  PROVE  Moved(s, i, j) \in Seq(S)
<1> DEFINE t == RemoveAt(s, i)
           e == s[i]
<1>1. t \in Seq(S) /\ Len(t) = Len(s) - 1
  BY RemoveAtElements
<1>2. Len(s) \in Nat /\ e \in S
  BY LenProperties, ElementOfSeq
<1> HIDE DEF t, e
<1>3. j \in 1..(Len(t) + 1)
  BY <1>1, <1>2
<1>4. InsertAt(t, j, e) \in Seq(S)
  BY <1>1, <1>2, <1>3, InsertAtElements
<1>5. QED
  BY <1>4 DEF Moved, t, e

(* What a view accepts, it runs or puts into the queue *)
LEMMA AcceptType ==
  ASSUME TypeOK, NEW v \in Views, NEW rs \in Seq(Requests), rs # <<>>, Accept(v, rs)
  PROVE  /\ items' \in Seq(Requests)
         /\ runningItem' \in Requests \cup {NoRequest}
         /\ busy' \in [Views -> BOOLEAN]
         /\ controller' \in [Views -> Requests \cup {NoRequest}]
         /\ runs' \in [Views -> SUBSET Requests]
         /\ aborted' \subseteq Requests
         /\ starts' \in [Requests -> Nat]
<1>1. Head(rs) \in Requests /\ Tail(rs) \in Seq(Requests)
  BY HeadTailProperties
<1>2. items \o rs \in Seq(Requests) /\ items \o Tail(rs) \in Seq(Requests)
  BY <1>1, ConcatProperties DEF TypeOK, PromptQueueTypeOK
<1>3. CASE busy[v]
  BY <1>2, <1>3 DEF TypeOK, PromptQueueTypeOK, Accept, Enqueue, runVars
<1>4. CASE ~busy[v]
  <2>1. /\ StartRun(v, Head(rs))
        /\ items' = items \o Tail(rs)
    BY <1>4 DEF Accept, Enqueue
  <2>2. /\ busy' \in [Views -> BOOLEAN]
        /\ controller' \in [Views -> Requests \cup {NoRequest}]
        /\ runningItem' \in Requests \cup {NoRequest}
        /\ aborted' \subseteq Requests
    BY <1>1, <2>1 DEF TypeOK, StartRun, SetRunningItem
  <2>3. runs' \in [Views -> SUBSET Requests]
    BY <1>1, <2>1 DEF TypeOK, StartRun
  <2>4. starts' \in [Requests -> Nat]
    BY <1>1, <2>1 DEF TypeOK, StartRun
  <2>5. QED
    BY <1>2, <2>1, <2>2, <2>3, <2>4
<1>5. QED
  BY <1>3, <1>4

LEMMA TypeInit == Init => TypeOK
<1> SUFFICES ASSUME Init
             PROVE  TypeOK
  OBVIOUS
<1>1. PromptQueueTypeOK /\ timers \in Seq(Timer) /\ pending \in Seq(Requests)
  BY EmptySeq DEF Init, PromptQueueInit, PromptQueueTypeOK
<1>2. /\ phase \in [Views -> {"new", "starting", "ready", "gone"}]
      /\ queuedRef \in [Views -> {"unset", "set", "cleared"}]
  BY DEF Init
<1>3. /\ busy \in [Views -> BOOLEAN]
      /\ controller \in [Views -> Requests \cup {NoRequest}]
      /\ runs \in [Views -> SUBSET Requests]
      /\ typing \in [Views -> SUBSET Requests]
      /\ recent \in [Views -> BOOLEAN]
      /\ owner \in Views \cup {NoView}
  BY DEF Init
<1>4. /\ stops \in [Views -> 0..MaxStops]
      /\ starts \in [Requests -> Nat]
  BY RunnerAssumption DEF Init
<1>5. QED
  BY <1>1, <1>2, <1>3, <1>4 DEF Init, TypeOK

LEMMA TypeStep == TypeOK /\ [Next]_vars => TypeOK'
<1> SUFFICES ASSUME TypeOK, [Next]_vars
             PROVE  TypeOK'
  OBVIOUS
<1> USE DEF PromptQueueTypeOK
<1>1. ASSUME NEW v \in Views, NEW r \in Requests, Settle(v, r)
      PROVE  TypeOK'
  <2>1. CASE CanTake /\ TakeNext
             /\ timers' = Append(timers, [view |-> v, request |-> Head(items), via |-> "settled"])
    <3>1. Head(items) \in Requests /\ Tail(items) \in Seq(Requests)
      BY <2>1, HeadTailProperties DEF TypeOK, CanTake
    <3>2. [view |-> v, request |-> Head(items), via |-> "settled"] \in Timer
      BY <3>1 DEF Timer
    <3>3. timers' \in Seq(Timer)
      BY <2>1, <3>2, AppendProperties DEF TypeOK
    <3>4. QED
      BY <1>1, <2>1, <3>1, <3>3
         DEF TypeOK, Settle, Free, SetRunningItem, TakeNext, viewVars, keyVars, handoverVars
  <2>2. CASE UNCHANGED <<items, timers>>
    BY <1>1, <2>2 DEF TypeOK, Settle, Free, SetRunningItem, viewVars, keyVars, handoverVars
  <2>3. QED
    BY <1>1, <2>1, <2>2 DEF Settle
<1>2. CASE StartQueued
  <2>1. Head(timers) \in Timer /\ Tail(timers) \in Seq(Timer)
    BY <1>2, HeadTailProperties DEF StartQueued, TypeOK
  <2>2. Head(timers).view \in Views /\ Head(timers).request \in Requests
    BY <2>1 DEF Timer
  <2>3. QED
    BY <1>2, <2>1, <2>2
       DEF TypeOK, StartQueued, StartRun, SetRunningItem, viewVars, keyVars, handoverVars, history
<1>3. CASE LoseQueued
  <2>1. Head(timers) \in Timer /\ Tail(timers) \in Seq(Timer)
    BY <1>3, HeadTailProperties DEF LoseQueued, TypeOK
  <2>2. Head(timers).request \in Requests
    BY <2>1 DEF Timer
  <2>3. QED
    BY <1>3, <2>1, <2>2
       DEF TypeOK, LoseQueued, queueVars, viewVars, runVars, keyVars, handoverVars
<1>4. ASSUME NEW v \in Views, NEW r \in Requests, TypeGoal(v, r)
      PROVE  TypeOK'
  BY <1>4 DEF TypeOK, TypeGoal, queueVars, viewVars, runVars, handoverVars
<1>5. ASSUME NEW v \in Views, NEW r \in Requests, FinishEnter(v, r)
      PROVE  TypeOK'
  <2>1. <<r>> \in Seq(Requests) /\ <<r>> # <<>>
    OBVIOUS
  <2>2. Accept(v, <<r>>)
    BY <1>5 DEF FinishEnter
  <2>3. QED
    BY <1>5, <2>1, <2>2, AcceptType DEF TypeOK, FinishEnter, viewVars, handoverVars, history
<1>6. ASSUME NEW r \in Requests, Submit(r)
      PROVE  TypeOK'
  <2>1. CASE owner # NoView /\ Accept(owner, <<r>>) /\ UNCHANGED pending
    <3>1. <<r>> \in Seq(Requests) /\ <<r>> # <<>> /\ owner \in Views
      BY <2>1 DEF TypeOK
    <3>2. QED
      BY <1>6, <2>1, <3>1, AcceptType DEF TypeOK, Submit, viewVars, keyVars
  <2>2. CASE pending' = Append(pending, r) /\ UNCHANGED <<runVars, items, runningItem>>
    <3>1. pending' \in Seq(Requests)
      BY <2>2, AppendProperties DEF TypeOK
    <3>2. QED
      BY <1>6, <2>2, <3>1 DEF TypeOK, Submit, viewVars, keyVars, runVars
  <2>3. QED
    BY <1>6, <2>1, <2>2 DEF Submit
<1>7. ASSUME NEW v \in Views, Claim(v)
      PROVE  TypeOK'
  <2>1. pending' \in Seq(Requests) /\ owner' \in Views \cup {NoView}
    BY <1>7, EmptySeq DEF Claim
  <2>2. CASE pending # <<>> /\ Accept(v, pending)
    BY <1>7, <2>1, <2>2, AcceptType DEF TypeOK, Claim, viewVars, keyVars, history
  <2>3. CASE UNCHANGED <<runVars, items, runningItem>>
    BY <1>7, <2>1, <2>3 DEF TypeOK, Claim, viewVars, keyVars, history, runVars
  <2>4. QED
    BY <1>7, <2>2, <2>3 DEF Claim
<1>8. CASE Release
  BY <1>8 DEF TypeOK, Release, queueVars, viewVars, runVars, keyVars, history
<1>9. ASSUME NEW v \in Views, StopKey(v)
      PROVE  TypeOK'
  BY <1>9, RunnerAssumption DEF TypeOK, StopKey, SetRunningItem, viewVars, handoverVars, history
<1>10. ASSUME NEW v \in Views, ForceKey(v)
       PROVE  TypeOK'
  <2>1. items' \in Seq(Requests) /\ ToSet(items) \subseteq Requests
    BY <1>10, EmptySeq, ToSetElements, ElementOfSeq DEF ForceKey, Clear, TypeOK
  <2>2. QED
    BY <1>10, <2>1, RunnerAssumption
       DEF TypeOK, ForceKey, SetRunningItem, viewVars, handoverVars
<1>11. ASSUME NEW v \in Views, StopDone(v)
       PROVE  TypeOK'
  BY <1>11, RunnerAssumption DEF TypeOK, StopDone, queueVars, viewVars, handoverVars, history
<1>12. ASSUME NEW v \in Views, InterruptWindowEnds(v)
       PROVE  TypeOK'
  BY <1>12 DEF TypeOK, InterruptWindowEnds, queueVars, viewVars, runVars, handoverVars, history
<1>13. CASE AbortActiveRun
  BY <1>13 DEF TypeOK, AbortActiveRun, SetRunningItem, Listening, viewVars, keyVars,
              handoverVars, history
<1>14. ASSUME NEW i \in 1..Len(items), RemoveItem(i)
       PROVE  TypeOK'
  <2>1. items' \in Seq(Requests) /\ items[i] \in Requests
    BY <1>14, RemoveAtElements, ElementOfSeq DEF TypeOK, RemoveItem, RemoveQueued
  <2>2. QED
    BY <1>14, <2>1 DEF TypeOK, RemoveItem, viewVars, runVars, keyVars, handoverVars
<1>15. ASSUME NEW i \in 1..Len(items), NEW j \in 1..Len(items), MoveItem(i, j)
       PROVE  TypeOK'
  <2>1. items' \in Seq(Requests)
    BY <1>15, MovedType DEF TypeOK, MoveItem, Move
  <2>2. QED
    BY <1>15, <2>1 DEF TypeOK, MoveItem, viewVars, runVars, keyVars, handoverVars, history
<1>16. CASE ClearQueue
  <2>1. items' \in Seq(Requests) /\ ToSet(items) \subseteq Requests
    BY <1>16, EmptySeq, ToSetElements, ElementOfSeq DEF ClearQueue, Clear, TypeOK
  <2>2. QED
    BY <1>16, <2>1 DEF TypeOK, ClearQueue, viewVars, runVars, keyVars, handoverVars
<1>17. CASE Pause
  BY <1>17 DEF TypeOK, Pause, viewVars, runVars, keyVars, handoverVars, history
<1>18. CASE Resume
  <2>1. PICK k \in 0..Len(items) : \E taker \in [1..k -> {v \in Listening : ~busy[v]}] :
          /\ items' = SubSeq(items, k + 1, Len(items))
          /\ timers' = timers \o
               [i \in 1..k |-> [view |-> taker[i], request |-> items[i], via |-> "resumed"]]
    BY <1>18 DEF Resume
  <2>2. PICK taker \in [1..k -> {v \in Listening : ~busy[v]}] :
          /\ items' = SubSeq(items, k + 1, Len(items))
          /\ timers' = timers \o
               [i \in 1..k |-> [view |-> taker[i], request |-> items[i], via |-> "resumed"]]
    BY <2>1
  <2>3. Len(items) \in Nat /\ k \in Nat
    BY LenProperties DEF TypeOK
  <2>4. items' \in Seq(Requests)
    BY <2>2, <2>3, SubSeqProperties, ElementOfSeq DEF TypeOK
  <2>5. ASSUME NEW i \in 1..k
        PROVE  [view |-> taker[i], request |-> items[i], via |-> "resumed"] \in Timer
    <3>1. taker[i] \in Views /\ i \in 1..Len(items)
      BY <2>2, <2>3 DEF Listening
    <3>2. items[i] \in Requests
      BY <3>1, ElementOfSeq DEF TypeOK
    <3>3. QED
      BY <3>1, <3>2 DEF Timer
  <2>6. [i \in 1..k |-> [view |-> taker[i], request |-> items[i], via |-> "resumed"]]
          \in Seq(Timer)
    BY <2>3, <2>5
  <2>7. timers' \in Seq(Timer)
    BY <2>2, <2>6, ConcatProperties DEF TypeOK
  <2>8. QED
    BY <1>18, <2>4, <2>7 DEF TypeOK, Resume, viewVars, runVars, keyVars, handoverVars, history
<1>19. ASSUME NEW v \in Views, Mount(v)
       PROVE  TypeOK'
  BY <1>19 DEF TypeOK, Mount, Unmount, queueVars, runVars, keyVars, history
<1>20. ASSUME NEW v \in Views, SessionUp(v)
       PROVE  TypeOK'
  BY <1>20 DEF TypeOK, SessionUp, queueVars, runVars, keyVars, handoverVars, history
<1>21. ASSUME NEW v \in Views, Close(v)
       PROVE  TypeOK'
  BY <1>21 DEF TypeOK, Close, Unmount, queueVars, runVars, keyVars, history
<1>22. CASE UNCHANGED vars
  BY <1>22 DEF TypeOK, vars, queueVars, viewVars, runVars, keyVars, handoverVars, history
<1>23. QED
  BY <1>1, <1>2, <1>3, <1>4, <1>5, <1>6, <1>7, <1>8, <1>9, <1>10, <1>11, <1>12, <1>13,
     <1>14, <1>15, <1>16, <1>17, <1>18, <1>19, <1>20, <1>21, <1>22
     DEF Next, RunStep, RequestStep, StopStep, QueueStep, ViewStep

(* Every state of the runner has its type: in particular what leaves the   *)
(* queue, whatever edits it went through, is a request.                    *)
THEOREM TypeCorrect == Spec => []TypeOK
BY TypeInit, TypeStep, PTL DEF Spec

-----------------------------------------------------------------------------
(* What a view works on                                                    *)

(* The steps that touch the runs of the views, or what is shown            *)
LEMMA RunSteps ==
  ASSUME TypeOK, Next
  PROVE  \/ \E v \in Views, r \in Requests : Settle(v, r)
         \/ timers # <<>> /\ StartRun(Head(timers).view, Head(timers).request)
         \/ \E v \in Views, r \in Requests : Accept(v, <<r>>)
         \/ \E v \in Views : pending # <<>> /\ Accept(v, pending)
         \/ \E v \in Views : StopKey(v) \/ ForceKey(v) \/ StopDone(v)
         \/ AbortActiveRun
         \/ UNCHANGED <<busy, controller, runs, runningItem>>
<1>1. CASE RunStep
  BY <1>1 DEF RunStep, StartQueued, LoseQueued, runVars, queueVars
<1>2. CASE RequestStep
  <2>1. ASSUME NEW v \in Views, NEW r \in Requests, TypeGoal(v, r)
        PROVE  UNCHANGED <<busy, controller, runs, runningItem>>
    BY <2>1 DEF TypeGoal, runVars, queueVars
  <2>2. ASSUME NEW v \in Views, NEW r \in Requests, FinishEnter(v, r)
        PROVE  Accept(v, <<r>>)
    BY <2>2 DEF FinishEnter
  <2>3. ASSUME NEW r \in Requests, Submit(r)
        PROVE  \/ owner \in Views /\ Accept(owner, <<r>>)
               \/ UNCHANGED <<busy, controller, runs, runningItem>>
    BY <2>3 DEF Submit, runVars, TypeOK
  <2>4. ASSUME NEW v \in Views, Claim(v)
        PROVE  \/ pending # <<>> /\ Accept(v, pending)
               \/ UNCHANGED <<busy, controller, runs, runningItem>>
    BY <2>4 DEF Claim, runVars
  <2>5. CASE Release
    BY <2>5 DEF Release, runVars, queueVars
  <2>6. QED
    BY <1>2, <2>1, <2>2, <2>3, <2>4, <2>5 DEF RequestStep
<1>3. CASE StopStep
  BY <1>3 DEF StopStep, InterruptWindowEnds, runVars, queueVars
<1>4. CASE QueueStep
  BY <1>4 DEF QueueStep, RemoveItem, MoveItem, ClearQueue, Pause, Resume, runVars
<1>5. CASE ViewStep
  BY <1>5 DEF ViewStep, Mount, SessionUp, Close, runVars, queueVars
<1>6. QED
  BY <1>1, <1>2, <1>3, <1>4, <1>5 DEF Next

(* The first of a batch becomes a pending run of the view that accepts it, *)
(* and nothing that is pending is forgotten.                               *)
LEMMA AcceptRuns ==
  ASSUME TypeOK, NEW v \in Views, NEW rs \in Seq(Requests), rs # <<>>, Accept(v, rs)
  PROVE  \/ UNCHANGED <<busy, controller, runs, runningItem>>
         \/ Head(rs) \in Requests /\ StartRun(v, Head(rs))
<1>1. Head(rs) \in Requests
  BY HeadTailProperties
<1>2. QED
  BY <1>1 DEF Accept, runVars

LEMMA StartKeepsBusyJustified ==
  ASSUME TypeOK, BusyIsJustified, NEW v \in Views, NEW r \in Requests, StartRun(v, r)
  PROVE  BusyIsJustified'
BY DEF TypeOK, BusyIsJustified, StartRun

LEMMA StartShowsARun ==
  ASSUME TypeOK, NEW v \in Views, NEW r \in Requests, StartRun(v, r)
  PROVE  ShownRequestIsPending'
BY DEF TypeOK, ShownRequestIsPending, StartRun, SetRunningItem

LEMMA TimerRequest ==
  ASSUME TypeOK, timers # <<>>
  PROVE  Head(timers).view \in Views /\ Head(timers).request \in Requests
<1>1. Head(timers) \in Timer
  BY HeadTailProperties DEF TypeOK
<1>2. QED
  BY <1>1 DEF Timer

LEMMA BusyStep == TypeOK /\ BusyIsJustified /\ [Next]_vars => BusyIsJustified'
<1> SUFFICES ASSUME TypeOK, BusyIsJustified, [Next]_vars
             PROVE  BusyIsJustified'
  OBVIOUS
<1>1. CASE UNCHANGED <<busy, controller, runs>>
  BY <1>1 DEF BusyIsJustified
<1>2. ASSUME NEW v \in Views, NEW r \in Requests, Settle(v, r)
      PROVE  BusyIsJustified'
  BY <1>2 DEF TypeOK, BusyIsJustified, Settle, Free
<1>3. CASE timers # <<>> /\ StartRun(Head(timers).view, Head(timers).request)
  BY <1>3, TimerRequest, StartKeepsBusyJustified
<1>4. ASSUME NEW v \in Views, NEW rs \in Seq(Requests), rs # <<>>, Accept(v, rs)
      PROVE  BusyIsJustified'
  <2>1. CASE StartRun(v, Head(rs)) /\ Head(rs) \in Requests
    BY <2>1, StartKeepsBusyJustified
  <2>2. QED
    BY <1>1, <1>4, <2>1, AcceptRuns
<1>5. ASSUME NEW v \in Views, StopKey(v) \/ ForceKey(v)
      PROVE  BusyIsJustified'
  BY <1>5 DEF BusyIsJustified, StopKey, ForceKey
<1>6. ASSUME NEW v \in Views, StopDone(v)
      PROVE  BusyIsJustified'
  BY <1>6 DEF TypeOK, BusyIsJustified, StopDone
<1>7. CASE AbortActiveRun
  BY <1>7 DEF TypeOK, BusyIsJustified, AbortActiveRun
<1>8. \A r \in Requests : <<r>> \in Seq(Requests) /\ <<r>> # <<>>
  OBVIOUS
<1>9. CASE Next
  BY <1>1, <1>2, <1>3, <1>4, <1>5, <1>6, <1>7, <1>8, <1>9, RunSteps DEF TypeOK
<1>10. QED
  BY <1>1, <1>9 DEF vars, runVars

LEMMA ShownStep == TypeOK /\ ShownRequestIsPending /\ [Next]_vars => ShownRequestIsPending'
<1> SUFFICES ASSUME TypeOK, ShownRequestIsPending, [Next]_vars
             PROVE  ShownRequestIsPending'
  OBVIOUS
<1>1. CASE UNCHANGED <<runs, runningItem>>
  BY <1>1 DEF ShownRequestIsPending
<1>2. ASSUME NEW v \in Views, NEW r \in Requests, Settle(v, r)
      PROVE  ShownRequestIsPending'
  BY <1>2 DEF ShownRequestIsPending, Settle, SetRunningItem
<1>3. CASE timers # <<>> /\ StartRun(Head(timers).view, Head(timers).request)
  BY <1>3, TimerRequest, StartShowsARun
<1>4. ASSUME NEW v \in Views, NEW rs \in Seq(Requests), rs # <<>>, Accept(v, rs)
      PROVE  ShownRequestIsPending'
  <2>1. CASE StartRun(v, Head(rs)) /\ Head(rs) \in Requests
    BY <2>1, StartShowsARun
  <2>2. QED
    BY <1>1, <1>4, <2>1, AcceptRuns
<1>5. ASSUME NEW v \in Views, StopKey(v) \/ ForceKey(v) \/ StopDone(v)
      PROVE  ShownRequestIsPending'
  BY <1>5 DEF ShownRequestIsPending, StopKey, ForceKey, StopDone, SetRunningItem, queueVars
<1>6. CASE AbortActiveRun
  BY <1>6 DEF ShownRequestIsPending, AbortActiveRun, SetRunningItem
<1>7. \A r \in Requests : <<r>> \in Seq(Requests) /\ <<r>> # <<>>
  OBVIOUS
<1>8. CASE Next
  BY <1>1, <1>2, <1>3, <1>4, <1>5, <1>6, <1>7, <1>8, RunSteps DEF TypeOK
<1>9. QED
  BY <1>1, <1>8 DEF vars, runVars, queueVars

(* A view that counts as busy has a request to wait for, so what is queued *)
(* behind it is not queued for ever.                                       *)
THEOREM BusyJustified == Spec => []BusyIsJustified
<1>1. Init => BusyIsJustified
  BY DEF Init, BusyIsJustified
<1>2. QED
  BY <1>1, BusyStep, TypeCorrect, PTL DEF Spec

(* The one field that all views share for the running item never names a   *)
(* request that is over.                                                   *)
THEOREM ShownPending == Spec => []ShownRequestIsPending
<1>1. Init => ShownRequestIsPending
  BY DEF Init, PromptQueueInit, ShownRequestIsPending
<1>2. QED
  BY <1>1, ShownStep, TypeCorrect, PTL DEF Spec

-----------------------------------------------------------------------------
(* The hand-over of requests from outside                                  *)

LEMMA HandoverInit == Init => HandoverIsLive
BY RunnerAssumption DEF Init, HandoverIsLive, Listening

LEMMA HandoverStep == TypeOK /\ HandoverIsLive /\ [Next]_vars => HandoverIsLive'
<1> SUFFICES ASSUME TypeOK, HandoverIsLive, [Next]_vars
             PROVE  HandoverIsLive'
  OBVIOUS
<1>1. CASE UNCHANGED <<phase, owner, pending>>
  BY <1>1 DEF HandoverIsLive, Listening
<1>2. CASE RunStep
  BY <1>1, <1>2 DEF RunStep, Settle, StartQueued, LoseQueued, viewVars, handoverVars
<1>3. CASE RequestStep
  <2>1. ASSUME NEW v \in Views, NEW r \in Requests, TypeGoal(v, r) \/ FinishEnter(v, r)
        PROVE  HandoverIsLive'
    BY <1>1, <2>1 DEF TypeGoal, FinishEnter, viewVars, handoverVars
  <2>2. ASSUME NEW r \in Requests, Submit(r)
        PROVE  HandoverIsLive'
    BY <2>2 DEF Submit, HandoverIsLive, Listening, viewVars
  <2>3. ASSUME NEW v \in Views, Claim(v)
        PROVE  HandoverIsLive'
    BY <2>3 DEF Claim, HandoverIsLive, Listening, viewVars
  <2>4. CASE Release
    BY <2>4 DEF Release, HandoverIsLive, Listening, viewVars
  <2>5. QED
    BY <1>3, <2>1, <2>2, <2>3, <2>4 DEF RequestStep
<1>4. CASE StopStep
  BY <1>1, <1>4 DEF StopStep, StopKey, ForceKey, StopDone, InterruptWindowEnds,
                    AbortActiveRun, viewVars, handoverVars
<1>5. CASE QueueStep
  BY <1>1, <1>5 DEF QueueStep, RemoveItem, MoveItem, ClearQueue, Pause, Resume,
                    viewVars, handoverVars
<1>6. ASSUME NEW v \in Views, Mount(v)
      PROVE  HandoverIsLive'
  <2> DEFINE siblings == {w \in Views : PaneOf[w] = PaneOf[v]}
             replaced == siblings \cap Listening
  <2>1. /\ phase[v] = "new"
        /\ \A w \in Views : phase'[w] = IF w = v THEN "starting"
                                        ELSE IF w \in replaced THEN "gone" ELSE phase[w]
        /\ owner' = IF owner \in replaced THEN NoView ELSE owner
        /\ pending' = pending
    BY <1>6 DEF Mount, Unmount
  <2>2. owner' # NoView => phase'[owner'] = "ready" /\ pending' = <<>>
    BY <2>1 DEF TypeOK, HandoverIsLive
  <2>3. \A w \in Views : w \in Listening' <=> w = v \/ w \in Listening \ replaced
    BY <2>1 DEF Listening
  <2>4. \A w, x \in Views : w \in Listening' /\ x \in Listening' /\ PaneOf[w] = PaneOf[x] => w = x
    BY <2>3 DEF HandoverIsLive
  <2>5. QED
    BY <2>2, <2>4 DEF HandoverIsLive, Listening
<1>7. ASSUME NEW v \in Views, SessionUp(v)
      PROVE  HandoverIsLive'
  BY <1>7 DEF TypeOK, SessionUp, HandoverIsLive, Listening, handoverVars
<1>8. ASSUME NEW v \in Views, Close(v)
      PROVE  HandoverIsLive'
  BY <1>8 DEF TypeOK, Close, Unmount, HandoverIsLive, Listening
<1>9. QED
  BY <1>1, <1>2, <1>3, <1>4, <1>5, <1>6, <1>7, <1>8
     DEF Next, ViewStep, vars, viewVars, handoverVars

(* Requests from outside wait only while no view has claimed them; the     *)
(* view that has is up, whatever panes are rebuilt and closed meanwhile.   *)
THEOREM HandoverLive == Spec => []HandoverIsLive
BY HandoverInit, HandoverStep, TypeCorrect, PTL DEF Spec

-----------------------------------------------------------------------------
(* A paused queue                                                          *)

LEMMA TailTaken ==
  ASSUME TypeOK, timers # <<>>, timers' = Tail(timers)
  PROVE  Taken' \subseteq Taken
<1>1. /\ Len(timers) \in Nat
      /\ Len(timers') = Len(timers) - 1
      /\ \A i \in 1..(Len(timers) - 1) : timers'[i] = timers[i + 1]
  BY HeadTailProperties, LenProperties DEF TypeOK
<1>2. ASSUME NEW i \in 1..Len(timers')
      PROVE  i + 1 \in 1..Len(timers) /\ timers'[i] = timers[i + 1]
  BY <1>1
<1>3. QED
  BY <1>2 DEF Taken

LEMMA PausedStep ==
  TypeOK /\ [Next]_vars => [paused /\ paused' => Taken' \subseteq Taken]_vars
<1> SUFFICES ASSUME TypeOK, [Next]_vars, paused, paused'
             PROVE  Taken' \subseteq Taken
  OBVIOUS
<1>1. CASE UNCHANGED timers
  BY <1>1 DEF Taken
<1>2. CASE RunStep
  <2>1. ASSUME NEW v \in Views, NEW r \in Requests, Settle(v, r)
        PROVE  UNCHANGED timers
    BY <2>1 DEF Settle, CanTake
  <2>2. CASE StartQueued \/ LoseQueued
    BY <2>2, TailTaken DEF StartQueued, LoseQueued
  <2>3. QED
    BY <1>1, <1>2, <2>1, <2>2 DEF RunStep
<1>3. CASE RequestStep
  BY <1>1, <1>3 DEF RequestStep, TypeGoal, FinishEnter, Submit, Claim, Release
<1>4. CASE StopStep
  BY <1>1, <1>4 DEF StopStep, StopKey, ForceKey, StopDone, InterruptWindowEnds, AbortActiveRun
<1>5. CASE QueueStep
  BY <1>1, <1>5 DEF QueueStep, RemoveItem, MoveItem, ClearQueue, Pause, Resume
<1>6. CASE ViewStep
  BY <1>1, <1>6 DEF ViewStep, Mount, SessionUp, Close
<1>7. QED
  BY <1>1, <1>2, <1>3, <1>4, <1>5, <1>6 DEF Next, vars

(* While the queue is paused nothing is taken from it to be run, whatever  *)
(* request ends in whatever view.                                          *)
THEOREM PausedHeld == Spec => PausedQueueIsHeld
BY PausedStep, TypeCorrect, PTL DEF Spec, PausedQueueIsHeld

-----------------------------------------------------------------------------
(* What drives the queue, while the views that are up stay up              *)

(* The views of InitialViews are up, the others are not there              *)
ViewsStay == \A v \in Views :
  /\ phase[v] = IF v \in InitialViews THEN "ready" ELSE "new"
  /\ queuedRef[v] = IF v \in InitialViews THEN "set" ELSE "unset"

(* Requests come in through a view only                                    *)
EntersThroughAView ==
  InitialViews = {} => items = <<>> /\ owner = NoView /\ \A v \in Views : typing[v] = {}

(* A timer set by a resume finds the runner of its view                    *)
TimersFindTheirView ==
  \A i \in 1..Len(timers) : timers[i].via = "resumed" => queuedRef[timers[i].view] = "set"

SteadyInv == ViewsStay /\ EntersThroughAView /\ TimersFindTheirView /\ QueueIsDriven

LEMMA SteadyInit == Init => SteadyInv
<1>1. ASSUME Init
      PROVE  timers = <<>> /\ Len(timers) = 0
  BY <1>1 DEF Init
<1>2. QED
  BY <1>1 DEF Init, PromptQueueInit, SteadyInv, ViewsStay, EntersThroughAView,
              TimersFindTheirView, QueueIsDriven

(* The steady system is the system without the steps of the views          *)
LEMMA SteadyIsNext == SteadyNext => Next
BY DEF SteadyNext, Next

LEMMA ViewsStayStep == ViewsStay /\ [SteadyNext]_vars => ViewsStay'
<1>1. [SteadyNext]_vars => UNCHANGED viewVars
  BY DEF SteadyNext, RunStep, Settle, StartQueued, LoseQueued,
         RequestStep, TypeGoal, FinishEnter, Submit, Claim, Release,
         StopStep, StopKey, ForceKey, StopDone, InterruptWindowEnds, AbortActiveRun,
         QueueStep, RemoveItem, MoveItem, ClearQueue, Pause, Resume, vars
<1>2. QED
  BY <1>1 DEF ViewsStay, viewVars

(* A batch that is accepted leaves a pending request in the view           *)
LEMMA AcceptDrives ==
  ASSUME TypeOK, BusyIsJustified, NEW v \in Views, NEW rs \in Seq(Requests), rs # <<>>,
         Accept(v, rs)
  PROVE  Running' # {}
<1>1. CASE busy[v]
  BY <1>1 DEF Accept, BusyIsJustified, Running, runVars
<1>2. CASE ~busy[v]
  <2>1. runs' = [runs EXCEPT ![v] = @ \cup {Head(rs)}]
    BY <1>2 DEF Accept, StartRun
  <2>2. Head(rs) \in runs'[v]
    BY <2>1 DEF TypeOK
  <2>3. QED
    BY <2>2 DEF Running
<1>3. QED
  BY <1>1, <1>2

LEMMA EntersStep ==
  TypeOK /\ ViewsStay /\ EntersThroughAView /\ [SteadyNext]_vars => EntersThroughAView'
<1> SUFFICES ASSUME TypeOK, ViewsStay, EntersThroughAView, [SteadyNext]_vars,
                    InitialViews = {}
             PROVE  items' = <<>> /\ owner' = NoView /\ \A v \in Views : typing'[v] = {}
  BY DEF EntersThroughAView
<1>1. items = <<>> /\ owner = NoView /\ \A v \in Views : typing[v] = {} /\ phase[v] # "ready"
  BY DEF EntersThroughAView, ViewsStay
<1>2. CASE RunStep
  BY <1>1, <1>2 DEF RunStep, Settle, CanTake, StartQueued, LoseQueued, queueVars, keyVars,
                    handoverVars
<1>3. CASE RequestStep
  BY <1>1, <1>3 DEF RequestStep, TypeGoal, FinishEnter, Submit, Claim, Release, keyVars
<1>4. CASE StopStep
  BY <1>1, <1>4 DEF StopStep, StopKey, ForceKey, StopDone, InterruptWindowEnds,
                    AbortActiveRun, queueVars, keyVars, handoverVars
<1>5. CASE QueueStep
  <2>1. Len(items) = 0
    BY <1>1
  <2>2. CASE Resume
    <3>1. PICK k \in 0..Len(items) : items' = SubSeq(items, k + 1, Len(items))
      BY <2>2 DEF Resume
    <3>2. k = 0 /\ items' = SubSeq(<<>>, 1, 0)
      BY <1>1, <2>1, <3>1
    <3>3. items' = <<>>
      BY <3>2
    <3>4. QED
      BY <1>1, <2>2, <3>3 DEF Resume, keyVars, handoverVars
  <2>3. QED
    BY <1>1, <1>5, <2>1, <2>2 DEF QueueStep, ClearQueue, Pause, keyVars, handoverVars
<1>6. CASE UNCHANGED vars
  BY <1>1, <1>6 DEF vars, queueVars, keyVars, handoverVars
<1>7. QED
  BY <1>2, <1>3, <1>4, <1>5, <1>6 DEF SteadyNext

(* A timer fires, the others are as they were                              *)
LEMMA TailTimers ==
  ASSUME TypeOK, TimersFindTheirView, timers # <<>>, timers' = Tail(timers), queuedRef' = queuedRef
  PROVE  TimersFindTheirView'
<1>1. /\ Len(timers) \in Nat
      /\ Len(timers') = Len(timers) - 1
      /\ \A i \in 1..(Len(timers) - 1) : timers'[i] = timers[i + 1]
  BY HeadTailProperties, LenProperties DEF TypeOK
<1>2. ASSUME NEW i \in 1..Len(timers')
      PROVE  i + 1 \in 1..Len(timers) /\ timers'[i] = timers[i + 1]
  BY <1>1
<1>3. QED
  BY <1>2 DEF TimersFindTheirView

LEMMA TimersStep ==
  TypeOK /\ ViewsStay /\ TimersFindTheirView /\ [SteadyNext]_vars => TimersFindTheirView'
<1> SUFFICES ASSUME TypeOK, ViewsStay, TimersFindTheirView, [SteadyNext]_vars
             PROVE  TimersFindTheirView'
  OBVIOUS
<1>1. CASE UNCHANGED <<timers, queuedRef>>
  BY <1>1 DEF TimersFindTheirView
<1>2. CASE RunStep
  <2>1. ASSUME NEW v \in Views, NEW r \in Requests, Settle(v, r), ~UNCHANGED timers
        PROVE  TimersFindTheirView'
    <3> DEFINE new == [view |-> v, request |-> Head(items), via |-> "settled"]
    <3>1. CanTake /\ timers' = Append(timers, new) /\ queuedRef' = queuedRef
      BY <2>1 DEF Settle, viewVars
    <3>2. new \in Timer
      BY <3>1, HeadTailProperties DEF TypeOK, PromptQueueTypeOK, CanTake, Timer
    <3>3. /\ Len(timers') = Len(timers) + 1
          /\ \A i \in 1..Len(timers) : timers'[i] = timers[i]
          /\ timers'[Len(timers) + 1] = new
      BY <3>1, <3>2, AppendProperties DEF TypeOK
    <3>4. Len(timers) \in Nat
      BY LenProperties DEF TypeOK
    <3>5. ASSUME NEW i \in 1..Len(timers'), timers'[i].via = "resumed"
          PROVE  i \in 1..Len(timers) /\ timers'[i] = timers[i]
      BY <3>3, <3>4, <3>5
    <3>6. QED
      BY <3>1, <3>5 DEF TimersFindTheirView
  <2>2. CASE StartQueued \/ LoseQueued
    BY <2>2, TailTimers DEF StartQueued, LoseQueued, viewVars
  <2>3. QED
    BY <1>1, <1>2, <2>1, <2>2 DEF RunStep, Settle, viewVars
<1>3. CASE RequestStep
  BY <1>1, <1>3 DEF RequestStep, TypeGoal, FinishEnter, Submit, Claim, Release, viewVars
<1>4. CASE StopStep
  BY <1>1, <1>4 DEF StopStep, StopKey, ForceKey, StopDone, InterruptWindowEnds,
                    AbortActiveRun, viewVars
<1>5. CASE Resume
  <2>1. PICK k \in 0..Len(items) : \E taker \in [1..k -> {v \in Listening : ~busy[v]}] :
          timers' = timers \o
            [i \in 1..k |-> [view |-> taker[i], request |-> items[i], via |-> "resumed"]]
    BY <1>5 DEF Resume
  <2>2. PICK taker \in [1..k -> {v \in Listening : ~busy[v]}] :
          timers' = timers \o
            [i \in 1..k |-> [view |-> taker[i], request |-> items[i], via |-> "resumed"]]
    BY <2>1
  <2> DEFINE new == [i \in 1..k |-> [view |-> taker[i], request |-> items[i], via |-> "resumed"]]
  <2>3. Len(items) \in Nat /\ k \in Nat /\ Len(timers) \in Nat
    BY LenProperties DEF TypeOK, PromptQueueTypeOK
  <2>4. ASSUME NEW i \in 1..k
        PROVE  queuedRef[taker[i]] = "set" /\ new[i].view = taker[i] /\ new[i] \in Timer
    <3>1. items[i] \in Requests
      BY <2>3, ElementOfSeq DEF TypeOK, PromptQueueTypeOK
    <3>2. QED
      BY <2>2, <3>1 DEF Listening, ViewsStay, Timer
  <2>5. new \in Seq(Timer) /\ Len(new) = k
    BY <2>3, <2>4
  <2> HIDE DEF new
  <2>6. /\ Len(timers') = Len(timers) + k
        /\ \A i \in 1..(Len(timers) + k) :
             timers'[i] = IF i <= Len(timers) THEN timers[i] ELSE new[i - Len(timers)]
    BY <2>2, <2>5, ConcatProperties DEF TypeOK, new
  <2>7. ASSUME NEW i \in 1..Len(timers'), timers'[i].via = "resumed"
        PROVE  queuedRef[timers'[i].view] = "set"
    <3>1. CASE i <= Len(timers)
      BY <2>3, <2>6, <2>7, <3>1 DEF TimersFindTheirView
    <3>2. CASE i > Len(timers)
      <4>1. i - Len(timers) \in 1..k /\ timers'[i] = new[i - Len(timers)]
        BY <2>3, <2>6, <3>2
      <4>2. QED
        BY <2>4, <4>1
    <3>3. QED
      BY <2>3, <3>1, <3>2
  <2>8. QED
    BY <1>5, <2>7 DEF TimersFindTheirView, Resume, viewVars
<1>6. CASE QueueStep
  BY <1>1, <1>5, <1>6 DEF QueueStep, RemoveItem, MoveItem, ClearQueue, Pause, viewVars
<1>7. QED
  BY <1>1, <1>2, <1>3, <1>4, <1>6 DEF SteadyNext, vars, viewVars

(* Whatever is left in the queue by a step, a request or a timer drives it *)
LEMMA DrivenStep ==
  TypeOK /\ BusyIsJustified /\ SteadyInv /\ [SteadyNext]_vars => QueueIsDriven'
<1> SUFFICES ASSUME TypeOK, BusyIsJustified, SteadyInv, [SteadyNext]_vars
             PROVE  QueueIsDriven'
  OBVIOUS
<1> USE DEF SteadyInv
<1>1. CASE UNCHANGED <<items, paused, runs, timers>>
  BY <1>1 DEF QueueIsDriven, Running
<1>2. CASE Running' # {} \/ timers' # <<>> \/ items' = <<>> \/ paused'
  BY <1>2 DEF QueueIsDriven
<1>3. ASSUME NEW v \in Views, NEW rs \in Seq(Requests), rs # <<>>, Accept(v, rs)
      PROVE  QueueIsDriven'
  BY <1>2, <1>3, AcceptDrives
<1>4. \A r \in Requests : <<r>> \in Seq(Requests) /\ <<r>> # <<>>
  OBVIOUS
<1>5. ASSUME NEW v \in Views, NEW r \in Requests, Settle(v, r)
      PROVE  QueueIsDriven'
  <2>1. CASE ~CanTake
    BY <1>2, <1>5, <2>1 DEF Settle, CanTake
  <2>2. CASE CanTake
    <3> DEFINE new == [view |-> v, request |-> Head(items), via |-> "settled"]
    <3>1. timers' = Append(timers, new) /\ new \in Timer
      BY <1>5, <2>2, HeadTailProperties
         DEF Settle, CanTake, TypeOK, PromptQueueTypeOK, Timer
    <3>2. timers' # <<>>
      BY <3>1, AppendProperties DEF TypeOK
    <3>3. QED
      BY <1>2, <3>2
  <2>3. QED
    BY <2>1, <2>2
<1>6. CASE StartQueued
  <2>1. /\ Head(timers).view \in Views
        /\ runs' = [runs EXCEPT ![Head(timers).view] = @ \cup {Head(timers).request}]
    BY <1>6, TimerRequest DEF StartQueued, StartRun
  <2>2. Head(timers).request \in runs'[Head(timers).view]
    BY <2>1 DEF TypeOK
  <2>3. Running' # {}
    BY <2>1, <2>2 DEF Running
  <2>4. QED
    BY <1>2, <2>3
<1>7. ~LoseQueued
  <2>1. SUFFICES ASSUME LoseQueued
                 PROVE  FALSE
    OBVIOUS
  <2>2. 1 \in 1..Len(timers) /\ Head(timers) = timers[1]
    BY <2>1, HeadTailProperties, LenProperties, EmptySeq DEF LoseQueued, TypeOK
  <2>3. QED
    BY <2>1, <2>2 DEF LoseQueued, TimersFindTheirView
<1>8. CASE RequestStep
  <2>1. ASSUME NEW v \in Views, NEW r \in Requests, TypeGoal(v, r) \/ FinishEnter(v, r)
        PROVE  QueueIsDriven'
    BY <1>1, <1>3, <1>4, <2>1 DEF TypeGoal, FinishEnter, queueVars, runVars
  <2>2. ASSUME NEW r \in Requests, Submit(r)
        PROVE  QueueIsDriven'
    <3>1. CASE Accept(owner, <<r>>) /\ owner # NoView
      BY <1>3, <1>4, <3>1 DEF TypeOK
    <3>2. QED
      BY <1>1, <2>2, <3>1 DEF Submit, runVars
  <2>3. ASSUME NEW v \in Views, Claim(v)
        PROVE  QueueIsDriven'
    <3>1. CASE pending # <<>> /\ Accept(v, pending)
      BY <1>3, <3>1 DEF TypeOK
    <3>2. QED
      BY <1>1, <2>3, <3>1 DEF Claim, runVars
  <2>4. CASE Release
    BY <1>1, <2>4 DEF Release, queueVars, runVars
  <2>5. QED
    BY <1>8, <2>1, <2>2, <2>3, <2>4 DEF RequestStep
<1>9. CASE StopStep
  <2>1. ASSUME NEW v \in Views, ForceKey(v)
        PROVE  QueueIsDriven'
    BY <1>2, <2>1 DEF ForceKey, Clear
  <2>2. QED
    BY <1>1, <1>9, <2>1 DEF StopStep, StopKey, StopDone, InterruptWindowEnds,
                            AbortActiveRun, queueVars, runVars
<1>10. ASSUME items # <<>>, UNCHANGED <<paused, runs, timers>>
       PROVE  QueueIsDriven'
  BY <1>10 DEF QueueIsDriven, Running
<1>11. Len(items) \in Nat /\ (items = <<>> => Len(items) = 0)
  BY LenProperties DEF TypeOK, PromptQueueTypeOK
<1>12. CASE Resume
  <2> DEFINE idle == {v \in Listening : ~busy[v]}
  <2>1. PICK k \in 0..Len(items) : \E taker \in [1..k -> idle] :
          /\ k = Len(items) \/ \A v \in idle : \E i \in 1..k : taker[i] = v
          /\ items' = SubSeq(items, k + 1, Len(items))
          /\ timers' = timers \o
               [i \in 1..k |-> [view |-> taker[i], request |-> items[i], via |-> "resumed"]]
    BY <1>12 DEF Resume
  <2>2. PICK taker \in [1..k -> idle] :
          /\ k = Len(items) \/ \A v \in idle : \E i \in 1..k : taker[i] = v
          /\ items' = SubSeq(items, k + 1, Len(items))
          /\ timers' = timers \o
               [i \in 1..k |-> [view |-> taker[i], request |-> items[i], via |-> "resumed"]]
    BY <2>1
  <2>3. CASE k = Len(items)
    <3>1. Len(items') = 0 /\ items' \in Seq(Requests)
      BY <1>11, <2>2, <2>3, SubSeqProperties, ElementOfSeq DEF TypeOK, PromptQueueTypeOK
    <3>2. items' = <<>>
      BY <3>1, EmptySeq
    <3>3. QED
      BY <1>2, <3>2
  <2>4. CASE k # Len(items) /\ k = 0
    <3>1. idle = {}
      BY <2>2, <2>4
    <3>2. items # <<>>
      BY <1>11, <2>4
    <3>3. PICK v \in InitialViews : TRUE
      BY <3>2 DEF EntersThroughAView
    <3>4. v \in Views /\ v \in Listening
      BY RunnerAssumption DEF ViewsStay, Listening
    <3>5. busy[v]
      BY <3>1, <3>4
    <3>6. controller[v] \in runs[v] /\ runs' = runs
      BY <1>12, <3>4, <3>5 DEF BusyIsJustified, Resume, runVars
    <3>7. Running' # {}
      BY <3>4, <3>6 DEF Running
    <3>8. QED
      BY <1>2, <3>7
  <2>5. CASE k > 0
    <3> DEFINE new == [i \in 1..k |-> [view |-> taker[i], request |-> items[i], via |-> "resumed"]]
    <3>1. \A i \in 1..k : items[i] \in Requests /\ taker[i] \in Views
      BY <1>11, <2>2, ElementOfSeq DEF TypeOK, PromptQueueTypeOK, Listening
    <3>2. new \in Seq(Timer) /\ Len(new) = k
      BY <3>1, <1>11 DEF Timer
    <3> HIDE DEF new
    <3>3. Len(timers') = Len(timers) + k /\ Len(timers) \in Nat
      BY <2>2, <3>2, ConcatProperties, LenProperties DEF TypeOK, new
    <3>4. timers' # <<>>
      BY <2>5, <3>3, <1>11
    <3>5. QED
      BY <1>2, <3>4
  <2>6. QED
    BY <2>3, <2>4, <2>5, <1>11
<1>13. CASE QueueStep
  <2>1. ASSUME NEW i \in 1..Len(items), RemoveItem(i)
        PROVE  QueueIsDriven'
    BY <1>10, <1>11, <2>1 DEF RemoveItem, runVars
  <2>2. ASSUME NEW i \in 1..Len(items), NEW j \in 1..Len(items), MoveItem(i, j)
        PROVE  QueueIsDriven'
    BY <1>10, <1>11, <2>2 DEF MoveItem, runVars
  <2>3. CASE ClearQueue \/ Pause
    BY <1>2, <2>3 DEF ClearQueue, Clear, Pause
  <2>4. QED
    BY <1>12, <1>13, <2>1, <2>2, <2>3 DEF QueueStep
<1>14. QED
  BY <1>1, <1>5, <1>6, <1>7, <1>8, <1>9, <1>13
     DEF SteadyNext, RunStep, vars, queueVars, runVars

LEMMA SteadyStep ==
  TypeOK /\ BusyIsJustified /\ SteadyInv /\ [SteadyNext]_vars => SteadyInv'
BY ViewsStayStep, EntersStep, TimersStep, DrivenStep DEF SteadyInv

(* While the views that are up stay up, a queue that is not held by the    *)
(* user has something that will take from it, whatever is stopped, moved,  *)
(* removed, paused and resumed: no request waits for nothing.              *)
THEOREM QueueDriven == SteadySpec => []QueueIsDriven
<1>1. [SteadyNext]_vars => [Next]_vars
  BY SteadyIsNext
<1>2. Init => TypeOK /\ BusyIsJustified /\ SteadyInv
  BY TypeInit, SteadyInit DEF Init, BusyIsJustified
<1>3. TypeOK /\ BusyIsJustified /\ SteadyInv /\ [SteadyNext]_vars
        => TypeOK' /\ BusyIsJustified' /\ SteadyInv'
  BY <1>1, TypeStep, BusyStep, SteadyStep
<1>4. SteadyInv => QueueIsDriven
  BY DEF SteadyInv
<1>5. QED
  BY <1>2, <1>3, <1>4, PTL DEF SteadySpec

-----------------------------------------------------------------------------
(* Every request is in one place                                           *)

Apart(f) == \A v, w \in Views : v # w => f[v] \cap f[w] = {}

AllOf(f) == UNION {f[v] : v \in Views}

(* The place of each request, by its number in Places                      *)
Whereabouts(at) == \A r \in Requests :
  /\ r \in unsent <=> at[r] = 1
  /\ r \in Typed <=> at[r] = 2
  /\ r \in ToSet(pending) <=> at[r] = 3
  /\ r \in ToSet(items) <=> at[r] = 4
  /\ r \in Taken <=> at[r] = 5
  /\ r \in Running <=> at[r] = 6
  /\ r \in over <=> at[r] = 7
  /\ r \in dropped <=> at[r] = 8
  /\ r \in lost <=> at[r] = 9

TimersDiffer ==
  \A i, j \in 1..Len(timers) : timers[i].request = timers[j].request => i = j

StartedOnce == \A r \in Requests : starts[r] = IF r \in Running \cup over THEN 1 ELSE 0

PlacesInv ==
  /\ \E at \in [Requests -> 1..9] : Whereabouts(at)
  /\ IsInjective(pending) /\ IsInjective(items) /\ TimersDiffer
  /\ Apart(runs) /\ Apart(typing)
  /\ StartedOnce

(* The members of the sets of requests of the views                        *)
LEMMA FamilyAdd ==
  ASSUME NEW f \in [Views -> SUBSET Requests], NEW v \in Views, NEW r \in Requests, Apart(f),
         r \notin AllOf(f),
         NEW g, g = [f EXCEPT ![v] = @ \cup {r}]
  PROVE  /\ AllOf(g) = AllOf(f) \cup {r}
         /\ Apart(g)
<1>1. \A w \in Views : g[w] = IF w = v THEN f[w] \cup {r} ELSE f[w]
  OBVIOUS
<1>2. \A w \in Views : r \notin f[w]
  BY DEF AllOf
<1>3. Apart(g)
  BY <1>1, <1>2 DEF Apart
<1>4. /\ \A x : x \in AllOf(f) <=> \E w \in Views : x \in f[w]
      /\ \A x : x \in AllOf(g) <=> \E w \in Views : x \in g[w]
  BY DEF AllOf
<1>5. \A x : (\E w \in Views : x \in g[w]) <=> (\E w \in Views : x \in f[w]) \/ x = r
  BY <1>1
<1>6. AllOf(g) = AllOf(f) \cup {r}
  BY <1>4, <1>5
<1>7. QED
  BY <1>3, <1>6

LEMMA FamilyRemove ==
  ASSUME NEW f \in [Views -> SUBSET Requests], NEW v \in Views, NEW r \in f[v], Apart(f),
         NEW g, g = [f EXCEPT ![v] = @ \ {r}]
  PROVE  /\ AllOf(g) = AllOf(f) \ {r}
         /\ Apart(g)
<1>1. \A w \in Views : g[w] = IF w = v THEN f[w] \ {r} ELSE f[w]
  OBVIOUS
<1>2. \A w \in Views : w # v => r \notin f[w]
  BY DEF Apart
<1>3. Apart(g)
  BY <1>1 DEF Apart
<1>4. /\ \A x : x \in AllOf(f) <=> \E w \in Views : x \in f[w]
      /\ \A x : x \in AllOf(g) <=> \E w \in Views : x \in g[w]
  BY DEF AllOf
<1>5. \A x : (\E w \in Views : x \in g[w]) <=> (\E w \in Views : x \in f[w]) /\ x # r
  BY <1>1, <1>2
<1>6. AllOf(g) = AllOf(f) \ {r}
  BY <1>4, <1>5
<1>7. QED
  BY <1>3, <1>6

(* The requests of the views, step by step                                 *)
LEMMA SettleRuns ==
  ASSUME TypeOK, Apart(runs), NEW v \in Views, NEW r \in Requests, Settle(v, r)
  PROVE  r \in Running /\ Running' = Running \ {r} /\ Apart(runs')
<1>1. r \in runs[v] /\ runs' = [runs EXCEPT ![v] = @ \ {r}]
  BY DEF Settle
<1>2. Running = AllOf(runs) /\ Running' = AllOf(runs')
  BY DEF Running, AllOf
<1>3. runs \in [Views -> SUBSET Requests]
  BY DEF TypeOK
<1>4. r \in AllOf(runs)
  BY <1>1 DEF AllOf
<1>5. QED
  BY <1>1, <1>2, <1>3, <1>4, FamilyRemove

LEMMA TypeGoalTyped ==
  ASSUME TypeOK, Apart(typing), NEW v \in Views, NEW r \in Requests, r \notin Typed, TypeGoal(v, r)
  PROVE  Typed' = Typed \cup {r} /\ Apart(typing')
<1>1. typing' = [typing EXCEPT ![v] = @ \cup {r}]
  BY DEF TypeGoal
<1>2. Typed = AllOf(typing) /\ Typed' = AllOf(typing')
  BY DEF Typed, AllOf
<1>3. typing \in [Views -> SUBSET Requests]
  BY DEF TypeOK
<1>4. QED
  BY <1>1, <1>2, <1>3, FamilyAdd

LEMMA FinishEnterTyped ==
  ASSUME TypeOK, Apart(typing), NEW v \in Views, NEW r \in Requests, FinishEnter(v, r)
  PROVE  r \in Typed /\ Typed' = Typed \ {r} /\ Apart(typing')
<1>1. r \in typing[v] /\ typing' = [typing EXCEPT ![v] = @ \ {r}]
  BY DEF FinishEnter
<1>2. Typed = AllOf(typing) /\ Typed' = AllOf(typing')
  BY DEF Typed, AllOf
<1>3. typing \in [Views -> SUBSET Requests]
  BY DEF TypeOK
<1>4. r \in AllOf(typing)
  BY <1>1 DEF AllOf
<1>5. QED
  BY <1>1, <1>2, <1>3, <1>4, FamilyRemove

(* A timer fires                                                           *)
LEMMA TailTimersTaken ==
  ASSUME TypeOK, TimersDiffer, timers # <<>>, timers' = Tail(timers)
  PROVE  /\ Head(timers).request \in Taken
         /\ Taken' = Taken \ {Head(timers).request}
         /\ TimersDiffer'
<1>1. /\ Len(timers) \in Nat \ {0}
      /\ Len(timers') = Len(timers) - 1
      /\ Head(timers) = timers[1]
      /\ \A i \in 1..(Len(timers) - 1) : timers'[i] = timers[i + 1]
  BY EmptySeq, HeadTailProperties, LenProperties DEF TypeOK
<1>2. ASSUME NEW i \in 1..Len(timers')
      PROVE  i + 1 \in 1..Len(timers) /\ i + 1 # 1 /\ timers'[i] = timers[i + 1]
  BY <1>1
<1>3. TimersDiffer'
  <2>1. SUFFICES ASSUME NEW i \in 1..Len(timers'), NEW j \in 1..Len(timers'),
                        timers'[i].request = timers'[j].request
                 PROVE  i = j
    BY DEF TimersDiffer
  <2>2. i + 1 = j + 1
    BY <2>1, <1>2 DEF TimersDiffer
  <2>3. QED
    BY <2>2
<1>4. 1 \in 1..Len(timers)
  BY <1>1
<1>5. Taken' \subseteq Taken \ {timers[1].request}
  BY <1>2, <1>4 DEF Taken, TimersDiffer
<1>6. ASSUME NEW i \in 1..Len(timers), i # 1
      PROVE  timers[i].request \in Taken'
  <2>1. i - 1 \in 1..Len(timers') /\ timers'[i - 1] = timers[(i - 1) + 1] /\ (i - 1) + 1 = i
    BY <1>1, <1>6
  <2>2. QED
    BY <2>1 DEF Taken
<1>7. Taken \ {timers[1].request} \subseteq Taken' /\ timers[1].request \in Taken
  BY <1>4, <1>6 DEF Taken
<1>8. QED
  BY <1>1, <1>3, <1>5, <1>7

(* Items are taken: timers are set for the first k of them                 *)
LEMMA TakenFromQueue ==
  ASSUME TypeOK, TimersDiffer, IsInjective(items), Taken \cap ToSet(items) = {},
         NEW k \in 0..Len(items), NEW new \in Seq(Timer), Len(new) = k,
         \A i \in 1..k : new[i].request = items[i],
         timers' = timers \o new, items' = SubSeq(items, k + 1, Len(items))
  PROVE  \E S \in SUBSET ToSet(items) :
            /\ Taken' = Taken \cup S
            /\ ToSet(items') = ToSet(items) \ S
            /\ TimersDiffer'
            /\ IsInjective(items')
<1> DEFINE S == {items[i] : i \in 1..k}
<1>1. /\ Len(items) \in Nat /\ k \in Nat /\ Len(timers) \in Nat
      /\ DOMAIN items = 1..Len(items)
  BY LenProperties DEF TypeOK, PromptQueueTypeOK
<1>2. \A x : x \in ToSet(items) <=> \E i \in 1..Len(items) : items[i] = x
  BY <1>1 DEF ToSet
<1>3. S \subseteq ToSet(items)
  BY <1>1, <1>2
<1>4. ToSet(items') = ToSet(items) \ S /\ IsInjective(items')
  BY RestSet DEF TypeOK, PromptQueueTypeOK
<1>6. /\ Len(timers') = Len(timers) + k
      /\ \A i \in 1..(Len(timers) + k) :
           timers'[i] = IF i <= Len(timers) THEN timers[i] ELSE new[i - Len(timers)]
  BY ConcatProperties DEF TypeOK
<1>7. ASSUME NEW i \in 1..Len(timers')
      PROVE  \/ i \in 1..Len(timers) /\ timers'[i].request = timers[i].request
             \/ i - Len(timers) \in 1..k /\ timers'[i].request = items[i - Len(timers)]
  BY <1>1, <1>6
<1>8. Taken' = Taken \cup S
  <2>1. Taken' \subseteq Taken \cup S
    BY <1>7 DEF Taken
  <2>2. ASSUME NEW i \in 1..Len(timers)
        PROVE  timers[i].request \in Taken'
    <3>1. i \in 1..Len(timers') /\ timers'[i] = timers[i]
      BY <1>1, <1>6
    <3>2. QED
      BY <3>1 DEF Taken
  <2>3. ASSUME NEW i \in 1..k
        PROVE  items[i] \in Taken'
    <3>1. /\ i + Len(timers) \in 1..Len(timers')
          /\ timers'[i + Len(timers)] = new[(i + Len(timers)) - Len(timers)]
          /\ (i + Len(timers)) - Len(timers) = i
      BY <1>1, <1>6
    <3>2. QED
      BY <3>1 DEF Taken
  <2>4. Taken \subseteq Taken' /\ S \subseteq Taken'
    BY <2>2, <2>3 DEF Taken
  <2>5. QED
    BY <2>1, <2>4
<1>11. TimersDiffer'
  <2>1. SUFFICES ASSUME NEW i \in 1..Len(timers'), NEW j \in 1..Len(timers'),
                        timers'[i].request = timers'[j].request
                 PROVE  i = j
    BY DEF TimersDiffer
  <2>2. \A l \in 1..Len(timers) : timers[l].request \in Taken
    BY DEF Taken
  <2>3. \A l \in 1..k : l \in 1..Len(items) /\ items[l] \in ToSet(items)
    BY <1>1, <1>2
  <2>4. CASE i \in 1..Len(timers) /\ timers'[i].request = timers[i].request
    <3>1. j \in 1..Len(timers) /\ timers'[j].request = timers[j].request
      BY <1>7, <2>1, <2>2, <2>3, <2>4
    <3>2. QED
      BY <2>1, <2>4, <3>1 DEF TimersDiffer
  <2>5. CASE i - Len(timers) \in 1..k /\ timers'[i].request = items[i - Len(timers)]
    <3>1. j - Len(timers) \in 1..k /\ timers'[j].request = items[j - Len(timers)]
      BY <1>7, <2>1, <2>2, <2>3, <2>5
    <3>2. i - Len(timers) = j - Len(timers)
      BY <1>1, <2>1, <2>3, <2>5, <3>1 DEF IsInjective
    <3>3. QED
      BY <1>1, <3>2
  <2>6. QED
    BY <1>7, <2>4, <2>5
<1> HIDE DEF S
<1>12. QED
  BY <1>3, <1>4, <1>8, <1>11

(* A request that is nowhere in the views starts in one of them            *)
LEMMA StartPlaces ==
  ASSUME TypeOK, Apart(runs), NEW v \in Views, NEW r \in Requests, r \notin Running,
         StartRun(v, r)
  PROVE  /\ Running' = Running \cup {r}
         /\ Apart(runs')
         /\ \A x \in Requests : starts'[x] = IF x = r THEN starts[x] + 1 ELSE starts[x]
<1>1. runs \in [Views -> SUBSET Requests] /\ runs' = [runs EXCEPT ![v] = @ \cup {r}]
  BY DEF StartRun, TypeOK
<1>2. Running' = Running \cup {r} /\ Apart(runs')
  <2>1. Running = AllOf(runs) /\ Running' = AllOf(runs')
    BY DEF Running, AllOf
  <2>2. QED
    BY <1>1, <2>1, FamilyAdd
<1>3. starts' = [starts EXCEPT ![r] = @ + 1]
  BY DEF StartRun
<1>4. QED
  BY <1>2, <1>3 DEF TypeOK

(* What a view accepts runs, or is in the queue once                       *)
LEMMA AcceptPlaces ==
  ASSUME TypeOK, Apart(runs), IsInjective(items),
         NEW v \in Views, NEW rs \in Seq(Requests), rs # <<>>, IsInjective(rs),
         ToSet(rs) \cap Running = {}, ToSet(rs) \cap ToSet(items) = {},
         Accept(v, rs)
  PROVE  \E S \in SUBSET ToSet(rs) :
            /\ Running' = Running \cup S
            /\ ToSet(items') = ToSet(items) \cup (ToSet(rs) \ S)
            /\ IsInjective(items')
            /\ Apart(runs')
            /\ \A x \in Requests : starts'[x] = IF x \in S THEN starts[x] + 1 ELSE starts[x]
<1>1. items \in Seq(Requests)
  BY DEF TypeOK, PromptQueueTypeOK
<1>2. CASE busy[v]
  <2>1. items' = items \o rs /\ runs' = runs /\ starts' = starts
    BY <1>2 DEF Accept, Enqueue, runVars
  <2>2. ToSet(items') = ToSet(items) \cup ToSet(rs) /\ IsInjective(items')
    BY <1>1, <2>1, ConcatSet
  <2>3. Running' = Running
    BY <2>1 DEF Running
  <2>4. {} \in SUBSET ToSet(rs)
    OBVIOUS
  <2>5. /\ Running' = Running \cup {}
        /\ ToSet(items') = ToSet(items) \cup (ToSet(rs) \ {})
    BY <2>2, <2>3
  <2>6. QED
    BY <2>1, <2>2, <2>4, <2>5
<1>3. CASE ~busy[v]
  <2> DEFINE r == Head(rs)
  <2>1. StartRun(v, r) /\ items' = items \o Tail(rs)
    BY <1>3 DEF Accept, Enqueue
  <2>2. /\ Tail(rs) \in Seq(Requests)
        /\ ToSet(Tail(rs)) = ToSet(rs) \ {r}
        /\ r \in ToSet(rs)
        /\ IsInjective(Tail(rs))
        /\ r \in Requests
    BY TailSet, HeadTailProperties
  <2> HIDE DEF r
  <2>3. ToSet(items') = ToSet(items) \cup ToSet(Tail(rs)) /\ IsInjective(items')
    <3>1. ToSet(items) \cap ToSet(Tail(rs)) = {}
      BY <2>2
    <3>2. QED
      BY <1>1, <2>1, <2>2, <3>1, ConcatSet
  <2>4. /\ Running' = Running \cup {r}
        /\ Apart(runs')
        /\ \A x \in Requests : starts'[x] = IF x = r THEN starts[x] + 1 ELSE starts[x]
    BY <2>1, <2>2, StartPlaces
  <2>5. {r} \in SUBSET ToSet(rs)
    BY <2>2
  <2>6. ToSet(items') = ToSet(items) \cup (ToSet(rs) \ {r})
    BY <2>2, <2>3
  <2>7. \A x \in Requests : starts'[x] = IF x \in {r} THEN starts[x] + 1 ELSE starts[x]
    BY <2>4
  <2>8. QED
    BY <2>3, <2>4, <2>5, <2>6, <2>7
<1>4. QED
  BY <1>2, <1>3

(* At first every request is still to be made                              *)
LEMMA PlacesInit == Init => PlacesInv
<1> SUFFICES ASSUME Init
             PROVE  PlacesInv
  OBVIOUS
<1>1. /\ pending = <<>> /\ items = <<>> /\ timers = <<>>
      /\ unsent = Requests /\ over = {} /\ dropped = {} /\ lost = {}
      /\ \A v \in Views : runs[v] = {} /\ typing[v] = {}
      /\ \A r \in Requests : starts[r] = 0
  BY DEF Init, PromptQueueInit
<1>2. Typed = {} /\ Running = {}
  BY <1>1 DEF Typed, Running
<1>3. /\ ToSet(pending) = {} /\ ToSet(items) = {} /\ Taken = {}
      /\ IsInjective(pending) /\ IsInjective(items) /\ TimersDiffer
  BY <1>1 DEF ToSet, Taken, IsInjective, TimersDiffer
<1>4. Apart(runs) /\ Apart(typing) /\ StartedOnce
  BY <1>1, <1>2 DEF Apart, StartedOnce
<1> DEFINE at == [r \in Requests |-> 1]
<1>5. at \in [Requests -> 1..9] /\ Whereabouts(at)
  BY <1>1, <1>2, <1>3 DEF Whereabouts
<1> HIDE DEF at
<1>6. QED
  BY <1>3, <1>4, <1>5 DEF PlacesInv

(* The places as the property names them                                   *)
LEMMA PlacesDiffer == TypeOK /\ PlacesInv => EachRequestInOnePlace
<1> SUFFICES ASSUME TypeOK, PlacesInv
             PROVE  EachRequestInOnePlace
  OBVIOUS
<1>1. PICK at \in [Requests -> 1..9] : Whereabouts(at)
  BY DEF PlacesInv
<1>2. /\ unsent \subseteq Requests /\ over \subseteq Requests
      /\ dropped \subseteq Requests /\ lost \subseteq Requests
      /\ Typed \subseteq Requests /\ Running \subseteq Requests
  BY DEF TypeOK, Typed, Running
<1>3. ToSet(pending) \subseteq Requests /\ ToSet(items) \subseteq Requests
  <2>1. \A q \in Seq(Requests) : ToSet(q) \subseteq Requests
    BY ToSetElements, ElementOfSeq
  <2>2. QED
    BY <2>1 DEF TypeOK, PromptQueueTypeOK
<1>4. Taken \subseteq Requests
  <2>1. \A i \in 1..Len(timers) : timers[i] \in Timer
    BY ElementOfSeq DEF TypeOK
  <2>2. QED
    BY <2>1 DEF Taken, Timer
<1>5. DOMAIN Places = 1..9
  BY DEF Places
<1>6. \A i \in 1..9 : Places[i] = {r \in Requests : at[r] = i}
  <2>1. /\ Places[1] = unsent /\ Places[2] = Typed /\ Places[3] = ToSet(pending)
        /\ Places[4] = ToSet(items) /\ Places[5] = Taken /\ Places[6] = Running
        /\ Places[7] = over /\ Places[8] = dropped /\ Places[9] = lost
    BY DEF Places
  <2>2. /\ unsent = {r \in Requests : at[r] = 1}
        /\ Typed = {r \in Requests : at[r] = 2}
        /\ ToSet(pending) = {r \in Requests : at[r] = 3}
        /\ ToSet(items) = {r \in Requests : at[r] = 4}
        /\ Taken = {r \in Requests : at[r] = 5}
        /\ Running = {r \in Requests : at[r] = 6}
        /\ over = {r \in Requests : at[r] = 7}
        /\ dropped = {r \in Requests : at[r] = 8}
        /\ lost = {r \in Requests : at[r] = 9}
    BY <1>1, <1>2, <1>3, <1>4 DEF Whereabouts
  <2>3. ASSUME NEW i \in 1..9
        PROVE  \/ i = 1 \/ i = 2 \/ i = 3 \/ i = 4 \/ i = 5 \/ i = 6
               \/ i = 7 \/ i = 8 \/ i = 9
    OBVIOUS
  <2>4. QED
    BY <2>1, <2>2, <2>3
<1>7. \A i, j \in DOMAIN Places : i # j => Places[i] \cap Places[j] = {}
  BY <1>5, <1>6
<1>8. ToSet(Places) = {Places[i] : i \in 1..9}
  BY <1>5 DEF ToSet
<1>9. UNION ToSet(Places) = Requests
  <2>1. \A r \in Requests : at[r] \in 1..9 /\ r \in Places[at[r]]
    BY <1>6
  <2>2. \A i \in 1..9 : Places[i] \subseteq Requests
    BY <1>6
  <2> HIDE DEF Places
  <2>3. QED
    BY <1>8, <2>1, <2>2
<1>10. QED
  BY <1>7, <1>9 DEF EachRequestInOnePlace, PlacesInv, TimersDiffer, Apart, StartedOnce

(* What a resume takes                                                     *)
LEMMA ResumeTakes ==
  ASSUME Resume
  PROVE  \E k \in 0..Len(items) : \E taker \in [1..k -> {v \in Listening : ~busy[v]}] :
          /\ items' = SubSeq(items, k + 1, Len(items))
          /\ timers' = timers \o
               [i \in 1..k |-> [view |-> taker[i], request |-> items[i], via |-> "resumed"]]
BY DEF Resume

(* A batch of one                                                          *)
LEMMA Single ==
  ASSUME NEW r \in Requests
  PROVE  /\ <<r>> \in Seq(Requests) /\ <<r>> # <<>>
         /\ ToSet(<<r>>) = {r}
         /\ IsInjective(<<r>>)
BY DEF ToSet, IsInjective

(* A request from outside joins those that wait for a view                 *)
LEMMA AppendPlaces ==
  ASSUME NEW q \in Seq(Requests), IsInjective(q), NEW r \in Requests, r \notin ToSet(q)
  PROVE  ToSet(Append(q, r)) = ToSet(q) \cup {r} /\ IsInjective(Append(q, r))
<1> DEFINE one == <<r>>
<1>1. one \in Seq(Requests) /\ ToSet(one) = {r} /\ IsInjective(one)
  BY Single
<1>2. Append(q, r) = q \o one
  BY AppendIsConcat
<1> HIDE DEF one
<1>3. ToSet(q) \cap ToSet(one) = {}
  BY <1>1
<1>4. ToSet(q \o one) = ToSet(q) \cup ToSet(one) /\ IsInjective(q \o one)
  BY <1>1, <1>3, ConcatSet
<1>5. QED
  BY <1>1, <1>2, <1>4

(* A settled request takes the head of the queue                           *)
LEMMA OneTaken ==
  ASSUME TypeOK, TimersDiffer, IsInjective(items), Taken \cap ToSet(items) = {},
         items # <<>>, items' = Tail(items),
         NEW t \in Timer, t.request = Head(items), timers' = Append(timers, t)
  PROVE  \E S \in SUBSET ToSet(items) :
            /\ Taken' = Taken \cup S
            /\ ToSet(items') = ToSet(items) \ S
            /\ TimersDiffer'
            /\ IsInjective(items')
<1> DEFINE h == Head(items)
<1>1. /\ ToSet(items') = ToSet(items) \ {h}
      /\ h \in ToSet(items)
      /\ IsInjective(items')
  BY TailSet DEF TypeOK, PromptQueueTypeOK
<1>2. /\ Len(timers) \in Nat
      /\ Len(timers') = Len(timers) + 1
      /\ \A i \in 1..Len(timers) : timers'[i] = timers[i]
      /\ timers'[Len(timers) + 1] = t
  BY AppendProperties, LenProperties DEF TypeOK
<1> HIDE DEF h
<1>3. t.request = h
  BY DEF h
<1>4. ASSUME NEW i \in 1..Len(timers')
      PROVE  \/ i \in 1..Len(timers) /\ timers'[i].request = timers[i].request
             \/ i = Len(timers) + 1 /\ timers'[i].request = h
  BY <1>2, <1>3
<1>5. \A i \in 1..Len(timers) : i \in 1..Len(timers') /\ timers[i].request \in Taken
  BY <1>2 DEF Taken
<1>6. Len(timers) + 1 \in 1..Len(timers')
  BY <1>2
<1>7. TimersDiffer'
  <2>1. SUFFICES ASSUME NEW i \in 1..Len(timers'), NEW j \in 1..Len(timers'),
                        timers'[i].request = timers'[j].request
                 PROVE  i = j
    BY DEF TimersDiffer
  <2>2. h \notin Taken
    BY <1>1
  <2>3. QED
    BY <1>4, <1>5, <2>1, <2>2 DEF TimersDiffer
<1>8. Taken' = Taken \cup {h}
  <2>1. Taken' \subseteq Taken \cup {h}
    BY <1>4, <1>5 DEF Taken
  <2>2. Taken \subseteq Taken'
    BY <1>2, <1>5 DEF Taken
  <2>3. h \in Taken'
    BY <1>2, <1>3, <1>6 DEF Taken
  <2>4. QED
    BY <2>1, <2>2, <2>3
<1>9. {h} \in SUBSET ToSet(items)
  BY <1>1
<1>10. QED
  BY <1>1, <1>7, <1>8, <1>9

(* A step that moves no request                                            *)
LEMMA PlacesUnmoved ==
  ASSUME PlacesInv,
         UNCHANGED <<unsent, typing, pending, items, timers, runs, over, dropped, lost, starts>>
  PROVE  PlacesInv'
<1>1. /\ Typed' = Typed /\ Running' = Running /\ Taken' = Taken
      /\ ToSet(pending') = ToSet(pending) /\ ToSet(items') = ToSet(items)
  BY DEF Typed, Running, Taken
<1>2. PICK at \in [Requests -> 1..9] : Whereabouts(at)
  BY DEF PlacesInv
<1>3. Whereabouts(at)'
  BY <1>1, <1>2 DEF Whereabouts
<1>4. TimersDiffer' /\ StartedOnce'
  BY <1>1 DEF PlacesInv, TimersDiffer, StartedOnce
<1>5. QED
  BY <1>3, <1>4 DEF PlacesInv

(* Requests come from one place into a view                                *)
LEMMA PlacesAccepted ==
  ASSUME TypeOK, PlacesInv,
         NEW v \in Views, NEW rs \in Seq(Requests), rs # <<>>, IsInjective(rs),
         Accept(v, rs),
         \/ ToSet(rs) \subseteq unsent /\ unsent' = unsent \ ToSet(rs) /\ Typed' = Typed
              /\ pending' = pending
         \/ ToSet(rs) \subseteq Typed /\ unsent' = unsent /\ Typed' = Typed \ ToSet(rs)
              /\ pending' = pending
         \/ rs = pending /\ unsent' = unsent /\ Typed' = Typed /\ pending' = <<>>,
         Apart(typing'),
         UNCHANGED <<timers, over, dropped, lost>>
  PROVE  PlacesInv'
<1>1. PICK at \in [Requests -> 1..9] : Whereabouts(at)
  BY DEF PlacesInv
<1>2. \A x \in ToSet(rs) : x \in Requests
  BY ToSetElements, ElementOfSeq
<1>3. \A x \in ToSet(rs) : at[x] \in 1..3
  BY <1>1, <1>2 DEF Whereabouts
<1>4. ToSet(rs) \cap Running = {} /\ ToSet(rs) \cap ToSet(items) = {} /\ ToSet(rs) \cap over = {}
  BY <1>1, <1>2, <1>3 DEF Whereabouts
<1>5. PICK S \in SUBSET ToSet(rs) :
        /\ Running' = Running \cup S
        /\ ToSet(items') = ToSet(items) \cup (ToSet(rs) \ S)
        /\ IsInjective(items')
        /\ Apart(runs')
        /\ \A x \in Requests : starts'[x] = IF x \in S THEN starts[x] + 1 ELSE starts[x]
  BY <1>4, AcceptPlaces DEF PlacesInv
<1>6. Taken' = Taken /\ TimersDiffer'
  BY DEF Taken, TimersDiffer, PlacesInv
<1>7. StartedOnce'
  BY <1>4, <1>5 DEF PlacesInv, StartedOnce
<1>8. ToSet(<<>>) = {} /\ IsInjective(<<>>)
  BY DEF ToSet, IsInjective
<1>9. IsInjective(pending')
  BY <1>8 DEF PlacesInv
<1> DEFINE at2 == [x \in Requests |-> IF x \in S THEN 6 ELSE IF x \in ToSet(rs) THEN 4 ELSE at[x]]
<1>10. at2 \in [Requests -> 1..9]
  OBVIOUS
<1>11. Whereabouts(at2)'
  BY <1>1, <1>3, <1>5, <1>6, <1>8 DEF Whereabouts
<1> HIDE DEF at2
<1>12. QED
  BY <1>5, <1>6, <1>7, <1>9, <1>10, <1>11 DEF PlacesInv

(* Every step takes requests from one place to another                     *)
LEMMA PlacesStep == TypeOK /\ PlacesInv /\ [Next]_vars => PlacesInv'
<1> SUFFICES ASSUME TypeOK, PlacesInv, [Next]_vars
             PROVE  PlacesInv'
  OBVIOUS
<1>1. PICK at \in [Requests -> 1..9] : Whereabouts(at)
  BY DEF PlacesInv
<1>2. Taken \cap ToSet(items) = {}
  <2>1. \A q \in Seq(Requests) : ToSet(q) \subseteq Requests
    BY ToSetElements, ElementOfSeq
  <2>2. QED
    BY <1>1, <2>1 DEF Whereabouts, TypeOK, PromptQueueTypeOK
<1>3. \A x \in ToSet(items) : x \in Requests
  <2>1. \A q \in Seq(Requests) : ToSet(q) \subseteq Requests
    BY ToSetElements, ElementOfSeq
  <2>2. QED
    BY <2>1 DEF TypeOK, PromptQueueTypeOK
<1>4. ASSUME NEW v \in Views, NEW r \in Requests, Settle(v, r)
      PROVE  PlacesInv'
  <2>1. /\ r \in runs[v]
        /\ runs' = [runs EXCEPT ![v] = @ \ {r}]
        /\ over' = over \cup {r}
        /\ UNCHANGED <<unsent, typing, pending, dropped, lost, starts>>
    BY <1>4 DEF Settle, keyVars, handoverVars
  <2>2. r \in Running /\ Running' = Running \ {r} /\ Apart(runs')
    BY <1>4, SettleRuns DEF PlacesInv
  <2>3. \E S \in SUBSET ToSet(items) :
          /\ Taken' = Taken \cup S
          /\ ToSet(items') = ToSet(items) \ S
          /\ TimersDiffer'
          /\ IsInjective(items')
    <3>1. CASE UNCHANGED <<items, timers>>
      <4>1. /\ Taken' = Taken \cup {}
            /\ ToSet(items') = ToSet(items) \ {}
            /\ TimersDiffer'
            /\ IsInjective(items')
        BY <3>1 DEF Taken, TimersDiffer, PlacesInv
      <4>2. {} \in SUBSET ToSet(items)
        OBVIOUS
      <4>3. QED
        BY <4>1, <4>2
    <3>2. CASE /\ CanTake /\ TakeNext
               /\ timers' = Append(timers, [view |-> v, request |-> Head(items), via |-> "settled"])
      <4> DEFINE t == [view |-> v, request |-> Head(items), via |-> "settled"]
      <4>1. t \in Timer /\ t.request = Head(items)
        BY <3>2, HeadTailProperties DEF TypeOK, PromptQueueTypeOK, CanTake, Timer
      <4>2. timers' = Append(timers, t) /\ items' = Tail(items) /\ items # <<>>
        BY <3>2 DEF CanTake, TakeNext
      <4> HIDE DEF t
      <4>3. QED
        BY <1>2, <4>1, <4>2, OneTaken DEF PlacesInv
    <3>3. QED
      BY <1>4, <3>1, <3>2 DEF Settle
  <2>4. PICK S \in SUBSET ToSet(items) :
          /\ Taken' = Taken \cup S
          /\ ToSet(items') = ToSet(items) \ S
          /\ TimersDiffer'
          /\ IsInjective(items')
    BY <2>3
  <2>5. Typed' = Typed /\ StartedOnce'
    BY <2>1, <2>2 DEF Typed, StartedOnce, PlacesInv
  <2> DEFINE at2 == [x \in Requests |-> IF x = r THEN 7 ELSE IF x \in S THEN 5 ELSE at[x]]
  <2>6. at2 \in [Requests -> 1..9]
    OBVIOUS
  <2>7. Whereabouts(at2)'
    BY <1>1, <1>3, <2>1, <2>2, <2>4, <2>5 DEF Whereabouts
  <2> HIDE DEF at2
  <2>8. QED
    BY <2>1, <2>2, <2>4, <2>5, <2>6, <2>7 DEF PlacesInv
<1>5. ASSUME timers # <<>>, timers' = Tail(timers),
             UNCHANGED <<unsent, typing, pending, items, over, dropped>>,
             \/ /\ StartRun(Head(timers).view, Head(timers).request)
                /\ lost' = lost
             \/ /\ UNCHANGED <<runs, starts>>
                /\ lost' = lost \cup {Head(timers).request}
      PROVE  PlacesInv'
  <2>1. PICK v \in Views, r \in Requests : v = Head(timers).view /\ r = Head(timers).request
    BY <1>5, TimerRequest
  <2>2. r \in Taken /\ Taken' = Taken \ {r} /\ TimersDiffer'
    BY <1>5, <2>1, TailTimersTaken DEF PlacesInv
  <2>3. Typed' = Typed
    BY <1>5 DEF Typed
  <2>4. CASE StartRun(v, r) /\ lost' = lost
    <3>1. r \notin Running /\ r \notin over
      BY <1>1, <2>2 DEF Whereabouts
    <3>2. /\ Running' = Running \cup {r}
          /\ Apart(runs')
          /\ \A x \in Requests : starts'[x] = IF x = r THEN starts[x] + 1 ELSE starts[x]
      BY <2>4, <3>1, StartPlaces DEF PlacesInv
    <3>3. StartedOnce'
      BY <1>5, <3>1, <3>2 DEF StartedOnce, PlacesInv
    <3> DEFINE at2 == [x \in Requests |-> IF x = r THEN 6 ELSE at[x]]
    <3>4. at2 \in [Requests -> 1..9]
      OBVIOUS
    <3>5. Whereabouts(at2)'
      BY <1>1, <1>5, <2>2, <2>3, <2>4, <3>2 DEF Whereabouts
    <3> HIDE DEF at2
    <3>6. QED
      BY <1>5, <2>2, <3>2, <3>3, <3>4, <3>5 DEF PlacesInv
  <2>5. CASE UNCHANGED <<runs, starts>> /\ lost' = lost \cup {r}
    <3>1. Running' = Running
      BY <2>5 DEF Running
    <3>2. StartedOnce'
      BY <1>5, <2>5, <3>1 DEF StartedOnce, PlacesInv
    <3> DEFINE at2 == [x \in Requests |-> IF x = r THEN 9 ELSE at[x]]
    <3>3. at2 \in [Requests -> 1..9]
      OBVIOUS
    <3>4. Whereabouts(at2)'
      BY <1>1, <1>5, <2>2, <2>3, <2>5, <3>1 DEF Whereabouts
    <3> HIDE DEF at2
    <3>5. QED
      BY <1>5, <2>2, <2>5, <3>2, <3>3, <3>4 DEF PlacesInv
  <2>6. QED
    BY <1>5, <2>1, <2>4, <2>5
<1>6. CASE StartQueued \/ LoseQueued
  BY <1>5, <1>6 DEF StartQueued, LoseQueued, queueVars, keyVars, handoverVars, runVars, history
<1>7. ASSUME NEW v \in Views, NEW r \in Requests, TypeGoal(v, r)
      PROVE  PlacesInv'
  <2>1. /\ r \in unsent /\ unsent' = unsent \ {r}
        /\ typing' = [typing EXCEPT ![v] = @ \cup {r}]
        /\ UNCHANGED <<pending, items, timers, runs, over, dropped, lost, starts>>
    BY <1>7 DEF TypeGoal, queueVars, runVars, handoverVars
  <2>2. Typed' = Typed \cup {r} /\ Apart(typing')
    <3>1. r \notin Typed
      BY <1>1, <2>1 DEF Whereabouts
    <3>2. QED
      BY <1>7, <3>1, TypeGoalTyped DEF PlacesInv
  <2>3. Running' = Running /\ Taken' = Taken
    BY <2>1 DEF Running, Taken
  <2>4. TimersDiffer' /\ StartedOnce'
    BY <2>1, <2>3 DEF TimersDiffer, StartedOnce, PlacesInv
  <2> DEFINE at2 == [x \in Requests |-> IF x = r THEN 2 ELSE at[x]]
  <2>5. at2 \in [Requests -> 1..9]
    OBVIOUS
  <2>6. Whereabouts(at2)'
    BY <1>1, <2>1, <2>2, <2>3 DEF Whereabouts
  <2> HIDE DEF at2
  <2>7. QED
    BY <2>1, <2>2, <2>4, <2>5, <2>6 DEF PlacesInv
<1>8. ASSUME NEW v \in Views, NEW r \in Requests, FinishEnter(v, r)
      PROVE  PlacesInv'
  <2>1. /\ r \in typing[v]
        /\ typing' = [typing EXCEPT ![v] = @ \ {r}]
        /\ Accept(v, <<r>>)
        /\ UNCHANGED <<unsent, pending, timers, over, dropped, lost>>
    BY <1>8 DEF FinishEnter, handoverVars, history
  <2>2. r \in Typed /\ Typed' = Typed \ {r} /\ Apart(typing')
    BY <1>8, FinishEnterTyped DEF PlacesInv
  <2> DEFINE rs == <<r>>
  <2>3. rs \in Seq(Requests) /\ rs # <<>> /\ ToSet(rs) = {r} /\ IsInjective(rs) /\ Accept(v, rs)
    BY <2>1, Single
  <2> HIDE DEF rs
  <2>4. ToSet(rs) \subseteq Typed /\ Typed' = Typed \ ToSet(rs)
    BY <2>2, <2>3
  <2>5. QED
    BY <2>1, <2>2, <2>3, <2>4, PlacesAccepted
<1>9. ASSUME NEW r \in Requests, Submit(r)
      PROVE  PlacesInv'
  <2>1. /\ r \in unsent /\ unsent' = unsent \ {r}
        /\ UNCHANGED <<typing, timers, over, dropped, lost>>
    BY <1>9 DEF Submit, keyVars
  <2>2. Typed' = Typed /\ Apart(typing')
    BY <2>1 DEF Typed, PlacesInv
  <2>3. CASE owner # NoView /\ Accept(owner, <<r>>) /\ UNCHANGED pending
    <3> DEFINE rs == <<r>>
    <3>1. rs \in Seq(Requests) /\ rs # <<>> /\ ToSet(rs) = {r} /\ IsInjective(rs)
          /\ Accept(owner, rs)
      BY <2>3, Single
    <3> HIDE DEF rs
    <3>2. ToSet(rs) \subseteq unsent /\ unsent' = unsent \ ToSet(rs) /\ owner \in Views
      BY <2>1, <2>3, <3>1 DEF TypeOK
    <3>3. QED
      BY <2>1, <2>2, <2>3, <3>1, <3>2, PlacesAccepted
  <2>4. CASE pending' = Append(pending, r) /\ UNCHANGED <<runVars, items, runningItem>>
    <3>1. r \notin ToSet(pending)
      BY <1>1, <2>1 DEF Whereabouts
    <3>2. ToSet(pending') = ToSet(pending) \cup {r} /\ IsInjective(pending')
      BY <2>4, <3>1, AppendPlaces DEF TypeOK, PlacesInv
    <3>3. Running' = Running /\ Taken' = Taken /\ UNCHANGED <<runs, starts>>
      BY <2>1, <2>4 DEF Running, Taken, runVars
    <3>4. TimersDiffer' /\ StartedOnce'
      BY <2>1, <3>3 DEF TimersDiffer, StartedOnce, PlacesInv
    <3> DEFINE at2 == [x \in Requests |-> IF x = r THEN 3 ELSE at[x]]
    <3>5. at2 \in [Requests -> 1..9]
      OBVIOUS
    <3>6. Whereabouts(at2)'
      BY <1>1, <2>1, <2>2, <2>4, <3>2, <3>3 DEF Whereabouts
    <3> HIDE DEF at2
    <3>7. QED
      BY <2>2, <2>4, <3>2, <3>3, <3>4, <3>5, <3>6 DEF PlacesInv
  <2>5. QED
    BY <1>9, <2>3, <2>4 DEF Submit
<1>10. ASSUME NEW v \in Views, Claim(v)
       PROVE  PlacesInv'
  <2>1. UNCHANGED <<typing, timers, unsent, over, dropped, lost>> /\ pending' = <<>>
    BY <1>10 DEF Claim, keyVars, history
  <2>2. Typed' = Typed /\ Apart(typing')
    BY <2>1 DEF Typed, PlacesInv
  <2>3. CASE pending # <<>> /\ Accept(v, pending)
    <3>1. pending \in Seq(Requests) /\ IsInjective(pending)
      BY DEF TypeOK, PlacesInv
    <3>2. QED
      BY <2>1, <2>2, <2>3, <3>1, PlacesAccepted
  <2>4. CASE pending = <<>> /\ UNCHANGED <<runVars, items, runningItem>>
    BY <2>1, <2>4, PlacesUnmoved DEF runVars
  <2>5. QED
    BY <1>10, <2>3, <2>4 DEF Claim
<1>11. ASSUME NEW D \in SUBSET ToSet(items), ToSet(items') = ToSet(items) \ D,
              IsInjective(items'), dropped' = dropped \cup D,
              UNCHANGED <<unsent, typing, pending, timers, runs, over, lost, starts>>
       PROVE  PlacesInv'
  <2>1. Typed' = Typed /\ Running' = Running /\ Taken' = Taken
    BY <1>11 DEF Typed, Running, Taken
  <2>2. TimersDiffer' /\ StartedOnce'
    BY <1>11, <2>1 DEF TimersDiffer, StartedOnce, PlacesInv
  <2> DEFINE at2 == [x \in Requests |-> IF x \in D THEN 8 ELSE at[x]]
  <2>3. at2 \in [Requests -> 1..9]
    OBVIOUS
  <2>4. Whereabouts(at2)'
    BY <1>1, <1>11, <2>1 DEF Whereabouts
  <2> HIDE DEF at2
  <2>5. QED
    BY <1>11, <2>2, <2>3, <2>4 DEF PlacesInv
<1>12. items \in Seq(Requests) /\ IsInjective(items)
  BY DEF TypeOK, PromptQueueTypeOK, PlacesInv
<1>13. ASSUME items' = <<>>, dropped' = dropped \cup ToSet(items),
              UNCHANGED <<unsent, typing, pending, timers, runs, over, lost, starts>>
       PROVE  PlacesInv'
  <2>1. ToSet(items') = {} /\ IsInjective(items')
    BY <1>13 DEF ToSet, IsInjective
  <2>2. QED
    BY <1>11, <1>13, <2>1
<1>14. CASE StopStep
  <2>1. ASSUME NEW v \in Views, ForceKey(v)
        PROVE  PlacesInv'
    BY <1>13, <2>1 DEF ForceKey, Clear, handoverVars
  <2>2. QED
    BY <1>14, <2>1, PlacesUnmoved
       DEF StopStep, StopKey, StopDone, InterruptWindowEnds, AbortActiveRun,
           queueVars, runVars, keyVars, handoverVars, history
<1>15. ASSUME NEW i \in 1..Len(items), RemoveItem(i)
       PROVE  PlacesInv'
  <2>1. items' = RemoveAt(items, i) /\ dropped' = dropped \cup {items[i]}
    BY <1>15 DEF RemoveItem, RemoveQueued
  <2>2. ToSet(items') = ToSet(items) \ {items[i]} /\ IsInjective(items')
    BY <1>12, <2>1, RemoveAtSet
  <2>3. {items[i]} \in SUBSET ToSet(items)
    BY <1>12, ToSetElements
  <2>4. QED
    BY <1>11, <1>15, <2>1, <2>2, <2>3 DEF RemoveItem, runVars, keyVars, handoverVars
<1>16. ASSUME NEW i \in 1..Len(items), NEW j \in 1..Len(items), MoveItem(i, j)
       PROVE  PlacesInv'
  <2>1. items' = Moved(items, i, j) /\ dropped' = dropped
    BY <1>16 DEF MoveItem, Move, history
  <2>2. ToSet(items') = ToSet(items) \ {} /\ IsInjective(items')
    BY <1>12, <2>1, MovedSet
  <2>3. {} \in SUBSET ToSet(items) /\ dropped' = dropped \cup {}
    BY <2>1
  <2>4. QED
    BY <1>11, <1>16, <2>2, <2>3 DEF MoveItem, runVars, keyVars, handoverVars, history
<1>17. CASE Resume
  <2>1. PICK k \in 0..Len(items) : \E taker \in [1..k -> {v \in Listening : ~busy[v]}] :
          /\ items' = SubSeq(items, k + 1, Len(items))
          /\ timers' = timers \o
               [i \in 1..k |-> [view |-> taker[i], request |-> items[i], via |-> "resumed"]]
    BY <1>17, ResumeTakes
  <2>2. PICK taker \in [1..k -> {v \in Listening : ~busy[v]}] :
          /\ items' = SubSeq(items, k + 1, Len(items))
          /\ timers' = timers \o
               [i \in 1..k |-> [view |-> taker[i], request |-> items[i], via |-> "resumed"]]
    BY <2>1
  <2> DEFINE new == [i \in 1..k |-> [view |-> taker[i], request |-> items[i], via |-> "resumed"]]
  <2>3. Len(items) \in Nat /\ k \in Nat
    BY <1>12, LenProperties
  <2>4. \A i \in 1..k : items[i] \in Requests /\ taker[i] \in Views
    BY <1>12, <2>2, <2>3, ElementOfSeq DEF Listening
  <2>5. new \in Seq(Timer) /\ Len(new) = k /\ \A i \in 1..k : new[i].request = items[i]
    BY <2>3, <2>4 DEF Timer
  <2>6. timers' = timers \o new /\ items' = SubSeq(items, k + 1, Len(items))
    BY <2>2
  <2>7. UNCHANGED <<unsent, typing, pending, runs, over, dropped, lost, starts>>
    BY <1>17 DEF Resume, runVars, keyVars, handoverVars, history
  <2> HIDE DEF new
  <2>8. PICK S \in SUBSET ToSet(items) :
          /\ Taken' = Taken \cup S
          /\ ToSet(items') = ToSet(items) \ S
          /\ TimersDiffer'
          /\ IsInjective(items')
    BY <1>2, <1>12, <2>5, <2>6, TakenFromQueue DEF PlacesInv
  <2>9. Typed' = Typed /\ Running' = Running
    BY <2>7 DEF Typed, Running
  <2>10. StartedOnce'
    BY <2>7, <2>9 DEF StartedOnce, PlacesInv
  <2> DEFINE at2 == [x \in Requests |-> IF x \in S THEN 5 ELSE at[x]]
  <2>11. at2 \in [Requests -> 1..9]
    OBVIOUS
  <2>12. Whereabouts(at2)'
    BY <1>1, <1>3, <2>7, <2>8, <2>9 DEF Whereabouts
  <2> HIDE DEF at2
  <2>13. QED
    BY <2>7, <2>8, <2>10, <2>11, <2>12 DEF PlacesInv
<1>18. CASE QueueStep
  <2>1. CASE ClearQueue
    BY <1>13, <2>1 DEF ClearQueue, Clear, runVars, keyVars, handoverVars
  <2>2. CASE Pause
    BY <2>2, PlacesUnmoved DEF Pause, runVars, keyVars, handoverVars, history
  <2>3. QED
    BY <1>15, <1>16, <1>17, <1>18, <2>1, <2>2 DEF QueueStep
<1>19. CASE ViewStep \/ Release \/ UNCHANGED vars
  BY <1>19, PlacesUnmoved
     DEF ViewStep, Mount, SessionUp, Close, Release, vars,
         queueVars, runVars, keyVars, handoverVars, history
<1>20. QED
  BY <1>4, <1>6, <1>7, <1>8, <1>9, <1>10, <1>14, <1>18, <1>19
     DEF Next, RunStep, RequestStep

(* No request is copied or forgotten, in whatever order views come and go, *)
(* requests settle, timers fire and the user edits the queue: each is in   *)
(* one place, and it is started at most once.                              *)
THEOREM OnePlace == Spec => []EachRequestInOnePlace
<1>1. Init => TypeOK /\ PlacesInv
  BY TypeInit, PlacesInit
<1>2. TypeOK /\ PlacesInv /\ [Next]_vars => TypeOK' /\ PlacesInv'
  BY TypeStep, PlacesStep
<1>3. QED
  BY <1>1, <1>2, PlacesDiffer, PTL DEF Spec

-----------------------------------------------------------------------------
(* The service of one line                                                 *)

LineOf(tm, q) == [i \in 1..Len(tm) |-> tm[i].request] \o q

(* The line, by its positions: requests behind a timer, then the queue     *)
LEMMA LineElements ==
  ASSUME NEW tm \in Seq(Timer), NEW q \in Seq(Requests)
  PROVE  /\ LineOf(tm, q) \in Seq(Requests)
         /\ Len(LineOf(tm, q)) = Len(tm) + Len(q)
         /\ \A i \in 1..(Len(tm) + Len(q)) :
              LineOf(tm, q)[i] = IF i <= Len(tm) THEN tm[i].request ELSE q[i - Len(tm)]
         /\ Len(tm) \in Nat /\ Len(q) \in Nat
<1> DEFINE ahead == [i \in 1..Len(tm) |-> tm[i].request]
<1>1. Len(tm) \in Nat /\ Len(q) \in Nat
  BY LenProperties
<1>2. \A i \in 1..Len(tm) : tm[i].request \in Requests
  <2>1. \A i \in 1..Len(tm) : tm[i] \in Timer
    BY ElementOfSeq
  <2>2. QED
    BY <2>1 DEF Timer
<1>3. /\ ahead \in Seq(Requests) /\ Len(ahead) = Len(tm)
      /\ \A i \in 1..Len(tm) : ahead[i] = tm[i].request
  BY <1>1, <1>2
<1>4. LineOf(tm, q) = ahead \o q
  BY DEF LineOf
<1> HIDE DEF ahead
<1>5. /\ ahead \o q \in Seq(Requests)
      /\ Len(ahead \o q) = Len(ahead) + Len(q)
      /\ \A i \in 1..(Len(ahead) + Len(q)) :
           (ahead \o q)[i] = IF i <= Len(ahead) THEN ahead[i] ELSE q[i - Len(ahead)]
  BY <1>3, ConcatProperties
<1>6. QED
  BY <1>1, <1>3, <1>4, <1>5

(* Two lines with the same requests at the same places                     *)
LEMMA SameLine ==
  ASSUME NEW s \in Seq(Requests), NEW t \in Seq(Requests), Len(s) = Len(t),
         \A i \in 1..Len(s) : s[i] = t[i]
  PROVE  s = t
BY SeqEqual

(* A timer that fires takes the head of the line                           *)
LEMMA LineServes ==
  ASSUME NEW tm \in Seq(Timer), NEW q \in Seq(Requests), tm # <<>>
  PROVE  /\ LineOf(tm, q) # <<>>
         /\ Head(LineOf(tm, q)) = Head(tm).request
         /\ LineOf(Tail(tm), q) = Tail(LineOf(tm, q))
<1> DEFINE rest == Tail(tm)
           old == LineOf(tm, q)
           new == LineOf(rest, q)
<1>1. /\ rest \in Seq(Timer) /\ Len(rest) = Len(tm) - 1 /\ Len(tm) > 0
      /\ \A i \in 1..(Len(tm) - 1) : rest[i] = tm[i + 1]
      /\ Head(tm) = tm[1]
  BY HeadTailProperties, EmptySeq, LenProperties
<1> HIDE DEF rest
<1>2. /\ old \in Seq(Requests) /\ Len(old) = Len(tm) + Len(q)
      /\ \A i \in 1..(Len(tm) + Len(q)) :
           old[i] = IF i <= Len(tm) THEN tm[i].request ELSE q[i - Len(tm)]
      /\ Len(tm) \in Nat /\ Len(q) \in Nat
  BY LineElements
<1>3. /\ new \in Seq(Requests) /\ Len(new) = Len(rest) + Len(q)
      /\ \A i \in 1..(Len(rest) + Len(q)) :
           new[i] = IF i <= Len(rest) THEN rest[i].request ELSE q[i - Len(rest)]
  BY <1>1, LineElements
<1> HIDE DEF old, new
<1>4. old # <<>>
  BY <1>1, <1>2
<1> DEFINE others == Tail(old)
<1>5. /\ others \in Seq(Requests) /\ Len(others) = Len(old) - 1
      /\ \A i \in 1..(Len(old) - 1) : others[i] = old[i + 1]
      /\ Head(old) = old[1]
  BY <1>2, <1>4, HeadTailProperties
<1> HIDE DEF others
<1>6. Head(old) = Head(tm).request
  BY <1>1, <1>2, <1>5
<1>7. ASSUME NEW i \in 1..Len(new)
      PROVE  new[i] = others[i]
  <2>1. i \in 1..(Len(old) - 1) /\ i + 1 \in 1..(Len(tm) + Len(q)) /\ others[i] = old[i + 1]
    <3>1. Len(new) = Len(old) - 1 /\ Len(old) = Len(tm) + Len(q) /\ Len(old) \in Nat
      BY <1>1, <1>2, <1>3
    <3>2. i \in 1..(Len(old) - 1)
      BY <3>1
    <3>3. i + 1 \in 1..(Len(tm) + Len(q))
      BY <3>1, <3>2
    <3>4. others[i] = old[i + 1]
      BY <1>5, <3>2
    <3>5. QED
      BY <3>2, <3>3, <3>4
  <2>2. CASE i <= Len(rest)
    <3>1. i \in 1..(Len(tm) - 1) /\ i + 1 <= Len(tm)
      BY <1>1, <1>2, <2>2
    <3>2. new[i] = rest[i].request /\ rest[i] = tm[i + 1]
      BY <1>1, <1>3, <2>2, <3>1
    <3>3. old[i + 1] = tm[i + 1].request
      BY <1>2, <2>1, <3>1
    <3>4. QED
      BY <2>1, <3>2, <3>3
  <2>3. CASE i > Len(rest)
    <3>1. i - Len(rest) = (i + 1) - Len(tm) /\ ~(i + 1 <= Len(tm)) /\ ~(i <= Len(rest))
      BY <1>1, <1>2, <2>3
    <3>2. new[i] = q[i - Len(rest)] /\ old[i + 1] = q[(i + 1) - Len(tm)]
      BY <1>2, <1>3, <2>1, <3>1
    <3>3. QED
      BY <2>1, <3>1, <3>2
  <2>4. i \in Nat /\ Len(rest) \in Nat
    BY <1>1, <1>2
  <2>5. QED
    BY <2>2, <2>3, <2>4
<1>8. Len(new) = Len(others)
  BY <1>1, <1>2, <1>3, <1>5
<1>9. new = others
  BY <1>3, <1>5, <1>7, <1>8, SameLine
<1>10. QED
  BY <1>4, <1>6, <1>9 DEF old, new, rest, others

(* Setting timers for the first k items leaves the line as it is           *)
LEMMA LineStays ==
  ASSUME NEW tm \in Seq(Timer), NEW q \in Seq(Requests),
         NEW k \in 0..Len(q), NEW new \in Seq(Timer), Len(new) = k,
         \A i \in 1..k : new[i].request = q[i],
         NEW rest \in Seq(Requests), Len(rest) = Len(q) - k,
         \A i \in 1..(Len(q) - k) : rest[i] = q[k + i]
  PROVE  LineOf(tm \o new, rest) = LineOf(tm, q)
<1> DEFINE both == tm \o new
           before == LineOf(tm, q)
           after == LineOf(both, rest)
<1>1. /\ before \in Seq(Requests) /\ Len(before) = Len(tm) + Len(q)
      /\ \A i \in 1..(Len(tm) + Len(q)) :
           before[i] = IF i <= Len(tm) THEN tm[i].request ELSE q[i - Len(tm)]
      /\ Len(tm) \in Nat /\ Len(q) \in Nat /\ k \in Nat
  BY LineElements
<1>2. /\ both \in Seq(Timer) /\ Len(both) = Len(tm) + k
      /\ \A i \in 1..(Len(tm) + k) : both[i] = IF i <= Len(tm) THEN tm[i] ELSE new[i - Len(tm)]
  BY ConcatProperties
<1> HIDE DEF both
<1>3. /\ after \in Seq(Requests) /\ Len(after) = Len(both) + Len(rest)
      /\ \A i \in 1..(Len(both) + Len(rest)) :
           after[i] = IF i <= Len(both) THEN both[i].request ELSE rest[i - Len(both)]
  BY <1>2, LineElements
<1> HIDE DEF before, after
<1>4. Len(after) = Len(before)
  BY <1>1, <1>2, <1>3
<1>5. ASSUME NEW i \in 1..Len(after)
      PROVE  after[i] = before[i]
  <2>1. CASE i <= Len(tm)
    <3>1. both[i] = tm[i] /\ after[i] = both[i].request
      BY <1>1, <1>2, <1>3, <2>1
    <3>2. before[i] = tm[i].request
      BY <1>1, <1>4, <2>1
    <3>3. QED
      BY <3>1, <3>2
  <2>2. CASE i > Len(tm) /\ i <= Len(both)
    <3>1. i - Len(tm) \in 1..k
      BY <1>1, <1>2, <2>2
    <3>2. both[i] = new[i - Len(tm)] /\ before[i] = q[i - Len(tm)] /\ after[i] = both[i].request
      BY <1>1, <1>2, <1>3, <1>4, <2>2
    <3>3. QED
      BY <3>1, <3>2
  <2>3. CASE i > Len(both)
    <3>1. i - Len(both) \in 1..(Len(q) - k) /\ k + (i - Len(both)) = i - Len(tm)
      BY <1>1, <1>2, <1>3, <2>3
    <3>2. before[i] = q[i - Len(tm)] /\ after[i] = rest[i - Len(both)]
      BY <1>1, <1>2, <1>3, <1>4, <2>3
    <3>3. rest[i - Len(both)] = q[k + (i - Len(both))]
      BY <3>1
    <3>4. QED
      BY <3>1, <3>2, <3>3
  <2>4. QED
    BY <1>1, <1>2, <2>1, <2>2, <2>3
<1>6. after = before
  BY <1>1, <1>3, <1>4, <1>5, SameLine
<1>7. QED
  BY <1>6 DEF both, before, after

(* What the queue gets joins the end of the line                           *)
LEMMA LineJoins ==
  ASSUME NEW tm \in Seq(Timer), NEW q \in Seq(Requests), NEW rs \in Seq(Requests)
  PROVE  LineOf(tm, q \o rs) = LineOf(tm, q) \o rs
<1> DEFINE ahead == [i \in 1..Len(tm) |-> tm[i].request]
<1>1. \A i \in 1..Len(tm) : tm[i].request \in Requests
  <2>1. \A i \in 1..Len(tm) : tm[i] \in Timer
    BY ElementOfSeq
  <2>2. QED
    BY <2>1 DEF Timer
<1>2. ahead \in Seq(Requests)
  BY <1>1, LenProperties
<1>3. LineOf(tm, q) = ahead \o q /\ LineOf(tm, q \o rs) = ahead \o (q \o rs)
  BY DEF LineOf
<1> HIDE DEF ahead
<1>4. QED
  BY <1>2, <1>3, ConcatAssociative

(* A line whose parts hold every request once holds every request once     *)
LEMMA LineSet ==
  ASSUME NEW tm \in Seq(Timer), NEW q \in Seq(Requests), IsInjective(q),
         \A i, j \in 1..Len(tm) : tm[i].request = tm[j].request => i = j,
         {tm[i].request : i \in 1..Len(tm)} \cap ToSet(q) = {}
  PROVE  /\ ToSet(LineOf(tm, q)) = {tm[i].request : i \in 1..Len(tm)} \cup ToSet(q)
         /\ IsInjective(LineOf(tm, q))
<1> DEFINE ahead == [i \in 1..Len(tm) |-> tm[i].request]
           taken == {tm[i].request : i \in 1..Len(tm)}
<1>1. \A i \in 1..Len(tm) : tm[i].request \in Requests
  <2>1. \A i \in 1..Len(tm) : tm[i] \in Timer
    BY ElementOfSeq
  <2>2. QED
    BY <2>1 DEF Timer
<1>2. ahead \in Seq(Requests)
  BY <1>1, LenProperties
<1>3. IsInjective(ahead)
  BY DEF IsInjective
<1>4. ToSet(ahead) = taken
  BY DEF ToSet
<1>5. LineOf(tm, q) = ahead \o q
  BY DEF LineOf
<1>6. taken \cap ToSet(q) = {}
  OBVIOUS
<1> HIDE DEF ahead, taken
<1>7. ToSet(ahead) \cap ToSet(q) = {}
  BY <1>4, <1>6
<1>8. ToSet(ahead \o q) = ToSet(ahead) \cup ToSet(q) /\ IsInjective(ahead \o q)
  BY <1>2, <1>3, <1>7, ConcatSet
<1>9. ToSet(LineOf(tm, q)) = taken \cup ToSet(q) /\ IsInjective(LineOf(tm, q))
  BY <1>4, <1>5, <1>8
<1>10. QED
  BY <1>9 DEF taken

(* The line holds what is taken and what waits, each once                  *)
LEMMA LineIsSet ==
  TypeOK /\ PlacesInv => /\ Line \in Seq(Requests)
                         /\ ToSet(Line) = Taken \cup ToSet(items)
                         /\ IsInjective(Line)
<1> SUFFICES ASSUME TypeOK, PlacesInv
             PROVE  /\ Line \in Seq(Requests)
                    /\ ToSet(Line) = Taken \cup ToSet(items)
                    /\ IsInjective(Line)
  OBVIOUS
<1>1. Line = LineOf(timers, items)
  BY DEF Line, LineOf
<1>2. timers \in Seq(Timer) /\ items \in Seq(Requests) /\ IsInjective(items)
  BY DEF TypeOK, PromptQueueTypeOK, PlacesInv
<1>3. PICK at \in [Requests -> 1..9] : Whereabouts(at)
  BY DEF PlacesInv
<1>4. ToSet(items) \subseteq Requests
  <2>1. \A q \in Seq(Requests) : ToSet(q) \subseteq Requests
    BY ToSetElements, ElementOfSeq
  <2>2. QED
    BY <1>2, <2>1
<1>5. Taken \cap ToSet(items) = {}
  BY <1>3, <1>4 DEF Whereabouts
<1>6. \A i, j \in 1..Len(timers) : timers[i].request = timers[j].request => i = j
  BY DEF PlacesInv, TimersDiffer
<1>7. /\ ToSet(LineOf(timers, items)) = {timers[i].request : i \in 1..Len(timers)} \cup ToSet(items)
      /\ IsInjective(LineOf(timers, items))
  BY <1>2, <1>5, <1>6, LineSet DEF Taken
<1>8. LineOf(timers, items) \in Seq(Requests)
  BY <1>2, LineElements
<1>9. QED
  BY <1>1, <1>7, <1>8 DEF Taken

(* ... and so it does after a step                                         *)
LEMMA LineIsSetAfter ==
  (TypeOK /\ PlacesInv)' => (/\ Line \in Seq(Requests)
                             /\ ToSet(Line) = Taken \cup ToSet(items)
                             /\ IsInjective(Line))'
BY LineIsSet, PTL

(* The order of the line                                                   *)
LEMMA OrderBehindTimers ==
  ASSUME NEW tm \in Seq(Timer), NEW q \in Seq(Requests), NEW p \in Seq(Requests),
         ToSet(p) \subseteq ToSet(q), Service!InOrder(p, q)
  PROVE  Service!InOrder(LineOf(tm, p), LineOf(tm, q))
<1> DEFINE new == LineOf(tm, p)
           old == LineOf(tm, q)
           n == Len(tm)
<1>1. /\ new \in Seq(Requests) /\ Len(new) = n + Len(p)
      /\ \A i \in 1..(n + Len(p)) : new[i] = IF i <= n THEN tm[i].request ELSE p[i - n]
      /\ n \in Nat /\ Len(p) \in Nat
  BY LineElements
<1>2. /\ old \in Seq(Requests) /\ Len(old) = n + Len(q)
      /\ \A i \in 1..(n + Len(q)) : old[i] = IF i <= n THEN tm[i].request ELSE q[i - n]
      /\ Len(q) \in Nat
  BY LineElements
<1> HIDE DEF new, old, n
<1>3. /\ DOMAIN new = 1..(n + Len(p)) /\ DOMAIN old = 1..(n + Len(q))
      /\ DOMAIN p = 1..Len(p) /\ DOMAIN q = 1..Len(q)
  BY <1>1, <1>2, LenProperties
<1>4. \A k \in 1..Len(q) : k + n \in 1..(n + Len(q)) /\ old[k + n] = q[k]
  <2>1. \A k \in 1..Len(q) : k + n \in 1..(n + Len(q)) /\ ~(k + n <= n) /\ (k + n) - n = k
    BY <1>1, <1>2
  <2>2. QED
    BY <1>2, <2>1
<1>5. SUFFICES ASSUME NEW i \in 1..(n + Len(p)), NEW j \in 1..(n + Len(p)), i < j
               PROVE  \E k, l \in 1..(n + Len(q)) : k < l /\ old[k] = new[i] /\ old[l] = new[j]
  BY <1>3 DEF Service!InOrder, new, old
<1>6. CASE j <= n
  <2>1. /\ i \in 1..(n + Len(q)) /\ j \in 1..(n + Len(q))
        /\ old[i] = tm[i].request /\ new[i] = tm[i].request
        /\ old[j] = tm[j].request /\ new[j] = tm[j].request
    BY <1>1, <1>2, <1>5, <1>6
  <2>2. QED
    BY <1>5, <2>1
<1>7. CASE i <= n /\ j > n
  <2>1. j - n \in 1..Len(p) /\ new[j] = p[j - n] /\ new[i] = tm[i].request
    BY <1>1, <1>5, <1>7
  <2>2. PICK l \in 1..Len(q) : q[l] = p[j - n]
    BY <1>3, <2>1 DEF ToSet
  <2>3. i \in 1..(n + Len(q)) /\ old[i] = tm[i].request /\ i < l + n
    BY <1>1, <1>2, <1>7
  <2>4. QED
    BY <1>4, <2>1, <2>2, <2>3
<1>8. CASE i > n
  <2>1. /\ i - n \in 1..Len(p) /\ j - n \in 1..Len(p) /\ i - n < j - n
        /\ new[i] = p[i - n] /\ new[j] = p[j - n]
    BY <1>1, <1>5, <1>8
  <2>2. PICK k \in 1..Len(q), l \in 1..Len(q) : k < l /\ q[k] = p[i - n] /\ q[l] = p[j - n]
    BY <1>3, <2>1 DEF Service!InOrder
  <2>3. k + n < l + n
    BY <1>1, <2>2
  <2>4. QED
    BY <1>4, <2>1, <2>2, <2>3
<1>9. QED
  BY <1>1, <1>5, <1>6, <1>7, <1>8

(* remove() and a timer that is lost keep the order of the others          *)
LEMMA RemoveAtOrder ==
  ASSUME NEW q \in Seq(Requests), NEW i \in 1..Len(q)
  PROVE  Service!InOrder(RemoveAt(q, i), q)
<1> DEFINE p == RemoveAt(q, i)
           from(n) == IF n < i THEN n ELSE n + 1
<1>1. Len(q) \in Nat /\ DOMAIN q = 1..Len(q)
  BY LenProperties
<1>2. /\ p \in Seq(Requests) /\ Len(p) = Len(q) - 1
      /\ \A n \in 1..(Len(q) - 1) : p[n] = IF n < i THEN q[n] ELSE q[n + 1]
  BY RemoveAtElements
<1> HIDE DEF p
<1>3. DOMAIN p = 1..(Len(q) - 1)
  BY <1>2, LenProperties
<1>4. \A n \in 1..(Len(q) - 1) : from(n) \in 1..Len(q) /\ q[from(n)] = p[n]
  BY <1>1, <1>2
<1>5. \A m, n \in 1..(Len(q) - 1) : m < n => from(m) < from(n)
  BY <1>1
<1> HIDE DEF from
<1>6. QED
  BY <1>1, <1>3, <1>4, <1>5 DEF Service!InOrder, p

LEMMA TailOrder ==
  ASSUME NEW q \in Seq(Requests), q # <<>>
  PROVE  Service!InOrder(Tail(q), q)
<1> DEFINE p == Tail(q)
<1>1. Len(q) \in Nat /\ DOMAIN q = 1..Len(q)
  BY LenProperties
<1>2. /\ p \in Seq(Requests) /\ Len(p) = Len(q) - 1
      /\ \A n \in 1..(Len(q) - 1) : p[n] = q[n + 1]
  BY HeadTailProperties
<1> HIDE DEF p
<1>3. DOMAIN p = 1..(Len(q) - 1)
  BY <1>2, LenProperties
<1>4. \A n \in 1..(Len(q) - 1) : n + 1 \in 1..Len(q) /\ q[n + 1] = p[n]
  BY <1>1, <1>2
<1>5. \A m, n \in 1..(Len(q) - 1) : m < n => m + 1 < n + 1
  BY <1>1
<1>6. QED
  BY <1>1, <1>3, <1>4, <1>5 DEF Service!InOrder, p

(* A batch splits into the request that starts, if one does, and the rest  *)
LEMMA Split ==
  ASSUME NEW rs \in Seq(Requests), rs # <<>>
  PROVE  /\ ToSet(SubSeq(rs, 1, 0)) = {} /\ SubSeq(rs, 0 + 1, Len(rs)) = rs
         /\ ToSet(SubSeq(rs, 1, 1)) = {Head(rs)} /\ SubSeq(rs, 1 + 1, Len(rs)) = Tail(rs)
<1> DEFINE whole == SubSeq(rs, 1, Len(rs))
           others == Tail(rs)
           rest == SubSeq(rs, 2, Len(rs))
           first == SubSeq(rs, 1, 1)
<1>1. /\ Len(rs) \in Nat \ {0} /\ Head(rs) = rs[1]
      /\ others \in Seq(Requests) /\ Len(others) = Len(rs) - 1
      /\ \A i \in 1..(Len(rs) - 1) : others[i] = rs[i + 1]
  BY EmptySeq, LenProperties, HeadTailProperties
<1>2. /\ whole \in Seq(Requests) /\ Len(whole) = Len(rs)
      /\ \A i \in 1..Len(rs) : whole[i] = rs[i]
  BY <1>1, SubSeqProperties, ElementOfSeq
<1>3. /\ rest \in Seq(Requests) /\ Len(rest) = Len(rs) - 1
      /\ \A i \in 1..(Len(rs) - 1) : rest[i] = rs[i + 1]
  BY <1>1, SubSeqProperties, ElementOfSeq
<1>4. first \in Seq(Requests) /\ Len(first) = 1 /\ first[1] = rs[1]
  BY <1>1, SubSeqProperties, ElementOfSeq
<1>5. ToSet(SubSeq(rs, 1, 0)) = {}
  <2>1. SubSeq(rs, 1, 0) = <<>>
    BY SubSeqEmpty
  <2>2. QED
    BY <2>1 DEF ToSet
<1> HIDE DEF whole, others, rest, first
<1>6. whole = rs
  BY <1>2, SameLine
<1>7. rest = others
  BY <1>1, <1>3, SameLine
<1>8. ToSet(first) = {Head(rs)}
  <2>1. DOMAIN first = {1}
    BY <1>4, LenProperties
  <2>2. QED
    BY <1>1, <1>4, <2>1 DEF ToSet
<1>9. 0 + 1 = 1 /\ 1 + 1 = 2
  OBVIOUS
<1>10. QED
  BY <1>5, <1>6, <1>7, <1>8, <1>9 DEF whole, others, rest, first

(* No batch is longer than there are requests                              *)
LEMMA BatchFits ==
  ASSUME IsFiniteSet(Requests), NEW U \in SUBSET Requests, NEW rs \in Seq(Requests), rs # <<>>,
         IsInjective(rs), ToSet(rs) \subseteq U
  PROVE  Len(rs) \in 1..Cardinality(U) /\ rs \in [1..Len(rs) -> U]
<1>1. Len(rs) \in Nat \ {0} /\ DOMAIN rs = 1..Len(rs) /\ rs \in [1..Len(rs) -> Requests]
  BY EmptySeq, LenProperties
<1>2. \A i \in 1..Len(rs) : rs[i] \in U
  BY <1>1 DEF ToSet
<1>3. rs \in [1..Len(rs) -> U]
  BY <1>1, <1>2
<1>4. rs \in Injection(1..Len(rs), U)
  BY <1>3 DEF Injection
<1>5. IsFiniteSet(U) /\ Cardinality(U) \in Nat
  BY FS_Subset, FS_CardinalityType
<1>6. Cardinality(1..Len(rs)) <= Cardinality(U)
  BY <1>4, <1>5, FS_Injection
<1>7. Cardinality(1..Len(rs)) = Len(rs)
  BY <1>1, FS_Interval
<1>8. QED
  BY <1>1, <1>3, <1>5, <1>6, <1>7

(* What reaches a view arrives at the line                                 *)
LEMMA ServiceArrives ==
  ASSUME TypeOK, PlacesInv, IsFiniteSet(Requests),
         NEW v \in Views, NEW rs \in Seq(Requests), rs # <<>>, IsInjective(rs),
         ToSet(rs) \subseteq unsent \cup (Typed \cup ToSet(pending)),
         Accept(v, rs),
         ToSet(rs) \cap Running = {},
         unsent' = unsent \ ToSet(rs),
         Typed' \cup ToSet(pending') = (Typed \cup ToSet(pending)) \ ToSet(rs),
         UNCHANGED <<timers, over, dropped, lost>>
  PROVE  Service!Next
<1> DEFINE U == unsent \cup (Typed \cup ToSet(pending))
<1>1. U \in SUBSET Requests
  <2>1. \A q \in Seq(Requests) : ToSet(q) \subseteq Requests
    BY ToSetElements, ElementOfSeq
  <2>2. QED
    BY <2>1 DEF TypeOK, Typed
<1>2. Line = LineOf(timers, items) /\ Line' = LineOf(timers, items')
  BY DEF Line, LineOf
<1>3. timers \in Seq(Timer) /\ items \in Seq(Requests)
  BY DEF TypeOK, PromptQueueTypeOK
<1>4. \E first \in 0..1 : /\ Running' = Running \cup ToSet(SubSeq(rs, 1, first))
                          /\ Line' = Line \o SubSeq(rs, first + 1, Len(rs))
  <2>1. CASE busy[v]
    <3>1. items' = items \o rs /\ runs' = runs
      BY <2>1 DEF Accept, Enqueue, runVars
    <3>2. Line' = Line \o rs
      BY <1>2, <1>3, <3>1, LineJoins
    <3>3. Running' = Running
      BY <3>1 DEF Running
    <3>4. /\ Running' = Running \cup ToSet(SubSeq(rs, 1, 0))
          /\ Line' = Line \o SubSeq(rs, 0 + 1, Len(rs))
      BY <3>2, <3>3, Split
    <3>5. QED
      BY <3>4
  <2>2. CASE ~busy[v]
    <3>1. items' = items \o Tail(rs) /\ StartRun(v, Head(rs))
      BY <2>2 DEF Accept, Enqueue
    <3>2. Tail(rs) \in Seq(Requests) /\ Head(rs) \in Requests /\ Head(rs) \in ToSet(rs)
      BY TailSet, HeadTailProperties
    <3>3. Line' = Line \o Tail(rs)
      BY <1>2, <1>3, <3>1, <3>2, LineJoins
    <3>4. Running' = Running \cup {Head(rs)}
      BY <3>1, <3>2, StartPlaces DEF PlacesInv
    <3>5. /\ Running' = Running \cup ToSet(SubSeq(rs, 1, 1))
          /\ Line' = Line \o SubSeq(rs, 1 + 1, Len(rs))
      BY <3>3, <3>4, Split
    <3>6. QED
      BY <3>5
  <2>3. QED
    BY <2>1, <2>2
<1>5. PICK first \in 0..1 : /\ Running' = Running \cup ToSet(SubSeq(rs, 1, first))
                           /\ Line' = Line \o SubSeq(rs, first + 1, Len(rs))
  BY <1>4
<1>6. Service!Arrive(rs, first)
  BY <1>5 DEF Service!Arrive, Service!ToSet, ToSet, Service!IsInjective, IsInjective
<1> HIDE DEF U
<1>7. ToSet(rs) \subseteq U
  BY DEF U
<1>8. Len(rs) \in 1..Cardinality(U) /\ rs \in [1..Len(rs) -> U]
  BY <1>1, <1>7, BatchFits
<1>9. Service!Cardinality(U) = Cardinality(U)
  BY DEF Service!Cardinality, Cardinality
<1>10. QED
  BY <1>6, <1>8, <1>9 DEF Service!Next, U

(* Requests that are removed, and a request that is lost, leave the line   *)
LEMMA ServiceWithdraws ==
  ASSUME NEW D \in SUBSET ToSet(Line), D # {},
         ToSet(Line') = ToSet(Line) \ D, IsInjective(Line'), Service!InOrder(Line', Line),
         (dropped \cup lost)' = (dropped \cup lost) \cup D,
         unsent' = unsent, Typed' = Typed, ToSet(pending') = ToSet(pending),
         Running' = Running, over' = over
  PROVE  Service!Next
<1>1. Service!Withdraw(D)
  BY DEF Service!Withdraw, Service!ToSet, ToSet, Service!IsInjective, IsInjective
<1>2. D \in SUBSET Service!ToSet(Line)
  BY DEF Service!ToSet, ToSet
<1>3. QED
  BY <1>1, <1>2 DEF Service!Next

(* Every step is one of the service, or leaves the line alone              *)
LEMMA ServiceStep ==
  ASSUME TypeOK, PlacesInv, TypeOK', PlacesInv', IsFiniteSet(Requests), [Next]_vars
  PROVE  [Service!Next]_Service!serviceVars
<1> USE DEF Service!serviceVars
<1>1. PICK at \in [Requests -> 1..9] : Whereabouts(at)
  BY DEF PlacesInv
<1>2. /\ timers \in Seq(Timer) /\ timers' \in Seq(Timer)
      /\ items \in Seq(Requests) /\ items' \in Seq(Requests)
      /\ IsInjective(items)
      /\ Line = LineOf(timers, items) /\ Line' = LineOf(timers', items')
  BY DEF TypeOK, PromptQueueTypeOK, PlacesInv, Line, LineOf
<1>3. /\ Line \in Seq(Requests) /\ ToSet(Line) = Taken \cup ToSet(items) /\ IsInjective(Line)
      /\ Line' \in Seq(Requests) /\ ToSet(Line') = Taken' \cup ToSet(items') /\ IsInjective(Line')
  BY LineIsSet, LineIsSetAfter
<1>4. \A q \in Seq(Requests) : ToSet(q) \subseteq Requests
  BY ToSetElements, ElementOfSeq
<1>5. ASSUME Line' = Line, UNCHANGED <<unsent, typing, pending, runs, over, dropped, lost>>
      PROVE  UNCHANGED Service!serviceVars
  BY <1>5 DEF Typed, Running
<1>6. ASSUME NEW k \in 0..Len(items), NEW new \in Seq(Timer), Len(new) = k,
             \A i \in 1..k : new[i].request = items[i], timers' = timers \o new,
             items' = SubSeq(items, k + 1, Len(items))
      PROVE  Line' = Line
  <2> DEFINE rest == SubSeq(items, k + 1, Len(items))
  <2>1. Len(items) \in Nat
    BY <1>2, LenProperties
  <2>2. /\ rest \in Seq(Requests) /\ Len(rest) = Len(items) - k
        /\ \A i \in 1..(Len(items) - k) : rest[i] = items[k + i]
    BY <1>2, <2>1, SubSeqProperties, ElementOfSeq
  <2> HIDE DEF rest
  <2>3. timers \in Seq(Timer) /\ items \in Seq(Requests)
    BY <1>2
  <2>4. Len(new) = k /\ \A i \in 1..k : new[i].request = items[i]
    BY <1>6
  <2>5. LineOf(timers \o new, rest) = LineOf(timers, items)
    BY <2>2, <2>3, <2>4, LineStays
  <2>6. QED
    BY <1>2, <1>6, <2>5 DEF rest
<1>7. ASSUME NEW v \in Views, NEW r \in Requests, Settle(v, r)
      PROVE  Service!Next
  <2>1. r \in Running /\ Running' = Running \ {r}
    BY <1>7, SettleRuns DEF PlacesInv
  <2>2. over' = over \cup {r} /\ UNCHANGED <<unsent, typing, pending, dropped, lost>>
    BY <1>7 DEF Settle, keyVars, handoverVars
  <2>3. Line' = Line
    <3>1. CASE UNCHANGED <<items, timers>>
      BY <1>2, <3>1
    <3>2. CASE /\ CanTake /\ TakeNext
               /\ timers' = Append(timers, [view |-> v, request |-> Head(items), via |-> "settled"])
      <4> DEFINE t == [view |-> v, request |-> Head(items), via |-> "settled"]
                 new == <<t>>
      <4>1. items # <<>> /\ items' = Tail(items)
        BY <3>2 DEF CanTake, TakeNext
      <4>2. Head(items) = items[1] /\ Head(items) \in Requests /\ 1 \in 0..Len(items)
        BY <1>2, <4>1, HeadTailProperties, LenProperties, EmptySeq
      <4>3. t \in Timer /\ t.request = items[1]
        BY <4>2 DEF Timer
      <4> HIDE DEF t
      <4>4. new \in Seq(Timer) /\ Len(new) = 1 /\ \A i \in 1..1 : new[i].request = items[i]
        BY <4>3
      <4>5. timers' = timers \o new
        BY <1>2, <3>2, <4>3, AppendIsConcat DEF t
      <4>6. items' = SubSeq(items, 1 + 1, Len(items))
        BY <1>2, <4>1, Split
      <4> HIDE DEF new
      <4>7. QED
        BY <1>6, <4>2, <4>4, <4>5, <4>6
    <3>3. QED
      BY <1>7, <3>1, <3>2 DEF Settle
  <2>4. Typed' = Typed
    BY <2>2 DEF Typed
  <2>5. Service!Finish(r)
    BY <2>1, <2>2, <2>3, <2>4 DEF Service!Finish
  <2>6. QED
    BY <2>5 DEF Service!Next
<1>8. ASSUME timers # <<>>, timers' = Tail(timers), items' = items
      PROVE  /\ Line # <<>> /\ Head(Line) = Head(timers).request
             /\ Line' = Tail(Line)
  BY <1>2, <1>8, LineServes
<1>9. CASE StartQueued
  <2>1. PICK v \in Views, r \in Requests : v = Head(timers).view /\ r = Head(timers).request
    BY <1>9, TimerRequest DEF StartQueued
  <2>2. /\ timers # <<>> /\ timers' = Tail(timers) /\ StartRun(v, r)
        /\ UNCHANGED <<unsent, typing, pending, items, over, dropped, lost>>
    BY <1>9, <2>1 DEF StartQueued, keyVars, handoverVars, history
  <2>3. r \in Taken
    BY <2>1, <2>2, TailTimersTaken DEF PlacesInv
  <2>4. Running' = Running \cup {r}
    BY <1>1, <2>2, <2>3, StartPlaces DEF Whereabouts, PlacesInv
  <2>5. Service!ServeNext
    BY <1>8, <2>1, <2>2, <2>4 DEF Service!ServeNext, Typed
  <2>6. QED
    BY <2>5 DEF Service!Next
<1>10. CASE LoseQueued
  <2>1. /\ timers # <<>> /\ timers' = Tail(timers)
        /\ lost' = lost \cup {Head(timers).request}
        /\ UNCHANGED <<unsent, typing, pending, items, runs, over, dropped>>
    BY <1>10 DEF LoseQueued, queueVars, runVars, keyVars, handoverVars
  <2>2. Line # <<>> /\ Head(Line) = Head(timers).request /\ Line' = Tail(Line)
    BY <1>8, <2>1
  <2>3. ToSet(Line') = ToSet(Line) \ {Head(Line)} /\ Head(Line) \in ToSet(Line)
    BY <1>3, <2>2, TailSet
  <2>4. Service!InOrder(Line', Line)
    BY <1>3, <2>2, TailOrder
  <2> DEFINE D == {Head(Line)}
  <2>5. D \in SUBSET ToSet(Line) /\ D # {} /\ ToSet(Line') = ToSet(Line) \ D
    BY <2>3
  <2>6. (dropped \cup lost)' = (dropped \cup lost) \cup D
    BY <2>1, <2>2
  <2>7. Typed' = Typed /\ Running' = Running
    BY <2>1 DEF Typed, Running
  <2> HIDE DEF D
  <2>8. QED
    BY <1>3, <2>1, <2>4, <2>5, <2>6, <2>7, ServiceWithdraws
<1>11. ASSUME NEW v \in Views, NEW r \in Requests, TypeGoal(v, r)
       PROVE  Service!Next
  <2>1. /\ r \in unsent /\ unsent' = unsent \ {r}
        /\ UNCHANGED <<pending, items, timers, runs, over, dropped, lost>>
    BY <1>11 DEF TypeGoal, queueVars, runVars, handoverVars
  <2>2. r \notin Typed
    BY <1>1, <2>1 DEF Whereabouts
  <2>3. Typed' = Typed \cup {r}
    BY <1>11, <2>2, TypeGoalTyped DEF PlacesInv
  <2>4. Line' = Line /\ Running' = Running
    BY <1>2, <2>1 DEF Running
  <2>5. Service!Ask(r)
    BY <2>1, <2>3, <2>4 DEF Service!Ask
  <2>6. QED
    BY <2>5 DEF Service!Next
<1>12. ASSUME NEW r \in Requests
       PROVE  <<r>> \in Seq(Requests) /\ <<r>> # <<>> /\ ToSet(<<r>>) = {r} /\ IsInjective(<<r>>)
  BY Single
<1>13. ASSUME NEW v \in Views, NEW r \in Requests, FinishEnter(v, r)
       PROVE  Service!Next
  <2> DEFINE rs == <<r>>
  <2>1. /\ Accept(v, rs)
        /\ UNCHANGED <<unsent, pending, timers, over, dropped, lost>>
    BY <1>13 DEF FinishEnter, handoverVars, history
  <2>2. rs \in Seq(Requests) /\ rs # <<>> /\ ToSet(rs) = {r} /\ IsInjective(rs)
    BY <1>12
  <2> HIDE DEF rs
  <2>3. r \in Typed /\ Typed' = Typed \ {r}
    BY <1>13, FinishEnterTyped DEF PlacesInv
  <2>4. r \notin unsent /\ r \notin ToSet(pending) /\ r \notin Running
    BY <1>1, <2>3 DEF Whereabouts
  <2>5. /\ ToSet(rs) \subseteq unsent \cup (Typed \cup ToSet(pending))
        /\ ToSet(rs) \cap Running = {}
        /\ unsent' = unsent \ ToSet(rs)
        /\ Typed' \cup ToSet(pending') = (Typed \cup ToSet(pending)) \ ToSet(rs)
    BY <2>1, <2>2, <2>3, <2>4
  <2>6. QED
    BY <2>1, <2>2, <2>5, ServiceArrives
<1>14. ASSUME NEW r \in Requests, Submit(r)
       PROVE  Service!Next
  <2>1. r \in unsent /\ unsent' = unsent \ {r} /\ UNCHANGED <<typing, timers, over, dropped, lost>>
    BY <1>14 DEF Submit, keyVars
  <2>2. Typed' = Typed
    BY <2>1 DEF Typed
  <2>3. r \notin Typed /\ r \notin ToSet(pending) /\ r \notin Running
    BY <1>1, <2>1 DEF Whereabouts
  <2>4. CASE owner # NoView /\ Accept(owner, <<r>>) /\ UNCHANGED pending
    <3> DEFINE rs == <<r>>
    <3>1. /\ rs \in Seq(Requests) /\ rs # <<>> /\ ToSet(rs) = {r} /\ IsInjective(rs)
          /\ Accept(owner, rs) /\ owner \in Views
      BY <1>12, <2>4 DEF TypeOK
    <3> HIDE DEF rs
    <3>2. /\ ToSet(rs) \subseteq unsent \cup (Typed \cup ToSet(pending))
          /\ ToSet(rs) \cap Running = {}
          /\ unsent' = unsent \ ToSet(rs)
          /\ Typed' \cup ToSet(pending') = (Typed \cup ToSet(pending)) \ ToSet(rs)
      BY <2>1, <2>2, <2>3, <2>4, <3>1
    <3>3. QED
      BY <2>1, <3>1, <3>2, ServiceArrives
  <2>5. CASE pending' = Append(pending, r) /\ UNCHANGED <<runVars, items, runningItem>>
    <3>1. ToSet(pending') = ToSet(pending) \cup {r}
      BY <2>3, <2>5, AppendPlaces DEF TypeOK, PlacesInv
    <3>2. Line' = Line /\ Running' = Running
      BY <1>2, <2>1, <2>5 DEF Running, runVars
    <3>3. Service!Ask(r)
      BY <2>1, <2>2, <3>1, <3>2 DEF Service!Ask
    <3>4. QED
      BY <3>3 DEF Service!Next
  <2>6. QED
    BY <1>14, <2>4, <2>5 DEF Submit
<1>15. ASSUME NEW v \in Views, Claim(v)
       PROVE  Service!Next \/ UNCHANGED Service!serviceVars
  <2>1. pending' = <<>> /\ UNCHANGED <<unsent, typing, timers, over, dropped, lost>>
    BY <1>15 DEF Claim, keyVars, history
  <2>2. CASE pending # <<>> /\ Accept(v, pending)
    <3>1. pending \in Seq(Requests) /\ IsInjective(pending)
      BY DEF TypeOK, PlacesInv
    <3>2. ToSet(pending') = {} /\ Typed' = Typed
      BY <2>1 DEF ToSet, Typed
    <3>3. \A x \in ToSet(pending) : x \notin unsent /\ x \notin Typed /\ x \notin Running
      BY <1>1, <1>4, <3>1 DEF Whereabouts
    <3>4. /\ ToSet(pending) \subseteq unsent \cup (Typed \cup ToSet(pending))
          /\ ToSet(pending) \cap Running = {}
          /\ unsent' = unsent \ ToSet(pending)
          /\ Typed' \cup ToSet(pending') = (Typed \cup ToSet(pending)) \ ToSet(pending)
      BY <2>1, <3>2, <3>3
    <3>5. QED
      BY <2>1, <2>2, <3>1, <3>4, ServiceArrives
  <2>3. CASE pending = <<>> /\ UNCHANGED <<runVars, items, runningItem>>
    BY <1>2, <1>5, <2>1, <2>3 DEF runVars
  <2>4. QED
    BY <1>15, <2>2, <2>3 DEF Claim
<1>16. ASSUME NEW D \in SUBSET ToSet(items), ToSet(items') = ToSet(items) \ D,
              Service!InOrder(items', items), dropped' = dropped \cup D,
              UNCHANGED <<unsent, typing, pending, timers, runs, over, lost>>
       PROVE  D = {} \/ Service!Next
  <2>1. Typed' = Typed /\ Running' = Running /\ Taken' = Taken
    BY <1>16 DEF Typed, Running, Taken
  <2>2. \A x \in ToSet(items) : x \notin Taken
    BY <1>1, <1>2, <1>4 DEF Whereabouts
  <2>3. ToSet(Line') = ToSet(Line) \ D /\ D \in SUBSET ToSet(Line)
    BY <1>3, <1>16, <2>1, <2>2
  <2>4. Service!InOrder(Line', Line)
    <3>1. ToSet(items') \subseteq ToSet(items)
      BY <1>16
    <3>2. Service!InOrder(LineOf(timers, items'), LineOf(timers, items))
      BY <1>2, <1>16, <3>1, OrderBehindTimers
    <3>3. QED
      BY <1>2, <1>16, <3>2
  <2>5. (dropped \cup lost)' = (dropped \cup lost) \cup D
    BY <1>16
  <2>6. IsInjective(Line')
    BY <1>3
  <2>7. QED
    BY <1>16, <2>1, <2>3, <2>4, <2>5, <2>6, ServiceWithdraws
<1>17. ASSUME items' = <<>>, dropped' = dropped \cup ToSet(items),
              UNCHANGED <<unsent, typing, pending, timers, runs, over, lost>>
       PROVE  Service!Next \/ UNCHANGED Service!serviceVars
  <2>1. ToSet(items') = ToSet(items) \ ToSet(items) /\ Service!InOrder(items', items)
    BY <1>17 DEF ToSet, Service!InOrder
  <2>2. ToSet(items) = {} \/ Service!Next
    BY <1>16, <1>17, <2>1
  <2>3. CASE ToSet(items) = {}
    <3>1. items = <<>>
      <4>1. SUFFICES ASSUME items # <<>>
                     PROVE  FALSE
        OBVIOUS
      <4>2. Head(items) \in ToSet(items)
        BY <1>2, <4>1, TailSet
      <4>3. QED
        BY <2>3, <4>2
    <3>2. QED
      BY <1>2, <1>5, <1>17, <2>3, <3>1
  <2>4. QED
    BY <2>2, <2>3
<1>18. CASE StopStep
  <2>1. ASSUME NEW v \in Views, ForceKey(v)
        PROVE  Service!Next \/ UNCHANGED Service!serviceVars
    BY <1>17, <2>1 DEF ForceKey, Clear, handoverVars
  <2>2. ASSUME NEW v \in Views, StopKey(v) \/ StopDone(v) \/ InterruptWindowEnds(v)
        PROVE  UNCHANGED Service!serviceVars
    BY <1>2, <1>5, <2>2 DEF StopKey, StopDone, InterruptWindowEnds, queueVars, runVars,
                            handoverVars, history
  <2>3. CASE AbortActiveRun
    BY <1>2, <1>5, <2>3 DEF AbortActiveRun, keyVars, handoverVars, history
  <2>4. QED
    BY <1>18, <2>1, <2>2, <2>3 DEF StopStep
<1>19. CASE QueueStep
  <2>1. ASSUME NEW i \in 1..Len(items), RemoveItem(i)
        PROVE  Service!Next
    <3> DEFINE D == {items[i]}
    <3>1. /\ items' = RemoveAt(items, i) /\ dropped' = dropped \cup D
          /\ UNCHANGED <<unsent, typing, pending, timers, runs, over, lost>>
      BY <2>1 DEF RemoveItem, RemoveQueued, runVars, keyVars, handoverVars
    <3>2. ToSet(items') = ToSet(items) \ D
      BY <1>2, <3>1, RemoveAtSet
    <3>3. D \in SUBSET ToSet(items) /\ D # {}
      BY <1>2, ToSetElements
    <3>4. Service!InOrder(items', items)
      BY <1>2, <3>1, RemoveAtOrder
    <3> HIDE DEF D
    <3>5. QED
      BY <1>16, <3>1, <3>2, <3>3, <3>4
  <2>2. ASSUME NEW i \in 1..Len(items), NEW j \in 1..Len(items), MoveItem(i, j)
        PROVE  Service!Next
    <3>1. /\ items' = Moved(items, i, j)
          /\ UNCHANGED <<unsent, typing, pending, timers, runs, over, dropped, lost>>
      BY <2>2 DEF MoveItem, Move, runVars, keyVars, handoverVars, history
    <3>2. ToSet(items') = ToSet(items) /\ Len(items') = Len(items)
      BY <1>2, <3>1, MovedSet
    <3>3. Taken' = Taken /\ Typed' = Typed /\ Running' = Running
      BY <3>1 DEF Taken, Typed, Running
    <3>4. ToSet(Line') = ToSet(Line)
      BY <1>3, <3>2, <3>3
    <3>5. Len(Line') = Len(Line)
      BY <1>2, <3>1, <3>2, LineElements
    <3>6. DOMAIN Line' = 1..Len(Line) /\ Line' \in [1..Len(Line) -> Requests]
      BY <1>3, <3>5, LenProperties
    <3>7. \A n \in 1..Len(Line) : Line'[n] \in ToSet(Line)
      BY <3>4, <3>6 DEF ToSet
    <3>8. Line' \in [1..Len(Line) -> ToSet(Line)] /\ IsInjective(Line')
      BY <1>3, <3>6, <3>7
    <3>9. Service!Reorder
      BY <3>1, <3>3, <3>8
         DEF Service!Reorder, Service!ToSet, ToSet, Service!IsInjective, IsInjective
    <3>10. QED
      BY <3>9 DEF Service!Next
  <2>3. CASE ClearQueue
    BY <1>17, <2>3 DEF ClearQueue, Clear, runVars, keyVars, handoverVars
  <2>4. CASE Pause
    BY <1>2, <1>5, <2>4 DEF Pause, runVars, keyVars, handoverVars, history
  <2>5. CASE Resume
    <3>1. PICK k \in 0..Len(items) : \E taker \in [1..k -> {v \in Listening : ~busy[v]}] :
            /\ items' = SubSeq(items, k + 1, Len(items))
            /\ timers' = timers \o
                 [i \in 1..k |-> [view |-> taker[i], request |-> items[i], via |-> "resumed"]]
      BY <2>5, ResumeTakes
    <3>2. PICK taker \in [1..k -> {v \in Listening : ~busy[v]}] :
            /\ items' = SubSeq(items, k + 1, Len(items))
            /\ timers' = timers \o
                 [i \in 1..k |-> [view |-> taker[i], request |-> items[i], via |-> "resumed"]]
      BY <3>1
    <3> DEFINE new == [i \in 1..k |-> [view |-> taker[i], request |-> items[i], via |-> "resumed"]]
    <3>3. Len(items) \in Nat /\ k \in Nat
      BY <1>2, LenProperties
    <3>4. \A i \in 1..k : items[i] \in Requests /\ taker[i] \in Views
      BY <1>2, <3>2, <3>3, ElementOfSeq DEF Listening
    <3>5. new \in Seq(Timer) /\ Len(new) = k /\ \A i \in 1..k : new[i].request = items[i]
      BY <3>3, <3>4 DEF Timer
    <3>6. timers' = timers \o new /\ items' = SubSeq(items, k + 1, Len(items))
      BY <3>2
    <3> HIDE DEF new
    <3>7. Line' = Line
      BY <1>6, <3>5, <3>6
    <3>8. QED
      BY <1>5, <2>5, <3>7 DEF Resume, runVars, keyVars, handoverVars, history
  <2>6. QED
    BY <1>19, <2>1, <2>2, <2>3, <2>4, <2>5 DEF QueueStep
<1>20. CASE ViewStep \/ Release \/ UNCHANGED vars
  BY <1>2, <1>5, <1>20
     DEF ViewStep, Mount, SessionUp, Close, Release, vars, queueVars, runVars, keyVars,
         handoverVars, history
<1>21. QED
  BY <1>7, <1>9, <1>10, <1>11, <1>13, <1>14, <1>15, <1>18, <1>19, <1>20
     DEF Next, RunStep, RequestStep

(* Nobody has asked, the line is empty                                     *)
LEMMA ServiceInit == Init => Service!Init
<1> SUFFICES ASSUME Init
             PROVE  Service!Init
  OBVIOUS
<1>1. /\ pending = <<>> /\ items = <<>> /\ timers = <<>>
      /\ unsent = Requests /\ over = {} /\ dropped = {} /\ lost = {}
      /\ \A v \in Views : runs[v] = {} /\ typing[v] = {}
  BY DEF Init, PromptQueueInit
<1>2. Typed = {} /\ Running = {} /\ ToSet(pending) = {}
  BY <1>1 DEF Typed, Running, ToSet
<1>3. Line = <<>>
  <2>1. items \in Seq(Requests) /\ timers \in Seq(Timer) /\ Len(items) = 0 /\ Len(timers) = 0
    BY <1>1, EmptySeq
  <2>2. Line = LineOf(timers, items)
    BY DEF Line, LineOf
  <2>3. /\ LineOf(timers, items) \in Seq(Requests)
        /\ Len(LineOf(timers, items)) = Len(timers) + Len(items)
    BY <2>1, LineElements
  <2>4. Line \in Seq(Requests) /\ Len(Line) = 0
    BY <2>1, <2>2, <2>3
  <2>5. QED
    BY <2>4, EmptySeq
<1>4. QED
  BY <1>1, <1>2, <1>3 DEF Service!Init

(* Whatever views come and go, settle, stop or take requests, and whatever *)
(* the user does with the queue, together they serve one line: from its    *)
(* head, each request at most once, and none that has left it.             *)
THEOREM ServesOneLine ==
  ASSUME IsFiniteSet(Requests)
  PROVE  Spec => ServiceSpec
<1>1. Init => TypeOK /\ PlacesInv
  BY TypeInit, PlacesInit
<1>2. TypeOK /\ PlacesInv /\ [Next]_vars => TypeOK' /\ PlacesInv'
  BY TypeStep, PlacesStep
<1>3. TypeOK /\ PlacesInv /\ TypeOK' /\ PlacesInv' /\ [Next]_vars
        => [Service!Next]_Service!serviceVars
  BY ServiceStep
<1>4. QED
  BY <1>1, <1>2, <1>3, ServiceInit, PTL DEF Spec, ServiceSpec, Service!Spec

-----------------------------------------------------------------------------
(* Stops hit what is pending                                               *)

(* The steps in which a signal fires or is forgotten                       *)
LEMMA SignalSteps ==
  ASSUME Next
  PROVE  \/ UNCHANGED aborted
         \/ \E v \in Views, r \in Requests : Settle(v, r)
         \/ \E v \in Views : StopKey(v) \/ ForceKey(v)
         \/ AbortActiveRun
<1>a. ASSUME NEW v, NEW rs, Accept(v, rs)
      PROVE  UNCHANGED aborted
  BY <1>a DEF Accept, StartRun, runVars
<1>1. CASE RunStep
  BY <1>1 DEF RunStep, StartQueued, LoseQueued, StartRun, runVars
<1>2. CASE RequestStep
  <2>1. ASSUME NEW v \in Views, NEW r \in Requests, TypeGoal(v, r) \/ FinishEnter(v, r)
        PROVE  UNCHANGED aborted
    BY <1>a, <2>1 DEF TypeGoal, FinishEnter, runVars
  <2>2. ASSUME NEW r \in Requests, Submit(r)
        PROVE  UNCHANGED aborted
    BY <1>a, <2>2 DEF Submit, runVars
  <2>3. ASSUME NEW v \in Views, Claim(v)
        PROVE  UNCHANGED aborted
    BY <1>a, <2>3 DEF Claim, runVars
  <2>4. CASE Release
    BY <2>4 DEF Release, runVars
  <2> QED
    BY <1>2, <2>1, <2>2, <2>3, <2>4 DEF RequestStep
<1>3. CASE StopStep
  BY <1>3 DEF StopStep, StopDone, InterruptWindowEnds, runVars
<1>4. CASE QueueStep
  BY <1>4 DEF QueueStep, RemoveItem, MoveItem, ClearQueue, Pause, Resume, runVars
<1>5. CASE ViewStep
  BY <1>5 DEF ViewStep, Mount, SessionUp, Close, runVars
<1> QED
  BY <1>1, <1>2, <1>3, <1>4, <1>5 DEF Next

(* Among the pending requests are those of each view                       *)
LEMMA RunningIs ==
  /\ \A r : r \in Running <=> \E v \in Views : r \in runs[v]
  /\ \A r : r \in Running' <=> \E v \in Views : r \in runs'[v]
BY DEF Running

(* The start of a request keeps signals and controllers with the pending   *)
LEMMA StartKeepsStops ==
  ASSUME TypeOK, StopsHitThePending, NEW v \in Views, NEW r \in Requests, StartRun(v, r)
  PROVE  StopsHitThePending'
<1>1. UNCHANGED aborted
  BY DEF StartRun
<1>2. \A w \in Views : runs[w] \subseteq runs'[w]
  BY DEF StartRun, TypeOK
<1>3. \A w \in Views : controller'[w] # NoRequest => controller'[w] \in runs'[w]
  BY <1>2 DEF StartRun, TypeOK, StopsHitThePending
<1>4. aborted' \subseteq Running'
  BY <1>1, <1>2, RunningIs DEF StopsHitThePending
<1> QED
  BY <1>3, <1>4 DEF StopsHitThePending

LEMMA StopsStep ==
  TypeOK /\ StopsHitThePending /\ [Next]_vars => StopsHitThePending'
<1> SUFFICES ASSUME TypeOK, StopsHitThePending, [Next]_vars
             PROVE  StopsHitThePending'
  OBVIOUS
<1> USE DEF StopsHitThePending
<1>1. CASE UNCHANGED <<controller, runs, aborted>>
  BY <1>1 DEF Running
<1>2. ASSUME NEW v \in Views, NEW r \in Requests, Settle(v, r)
      PROVE  StopsHitThePending'
  <2>1. /\ runs' = [runs EXCEPT ![v] = @ \ {r}]
        /\ controller' = [controller EXCEPT ![v] = IF @ = r THEN NoRequest ELSE @]
        /\ aborted' = aborted \ {r}
    BY <1>2 DEF Settle, Free
  <2>2. \A w \in Views : runs[w] \ {r} \subseteq runs'[w]
    BY <2>1 DEF TypeOK
  <2>3. aborted' \subseteq Running'
    BY <2>1, <2>2, RunningIs
  <2>4. \A w \in Views : controller'[w] # NoRequest => controller'[w] \in runs'[w]
    BY <2>1 DEF TypeOK
  <2> QED
    BY <2>3, <2>4
<1>3. CASE timers # <<>> /\ StartRun(Head(timers).view, Head(timers).request)
  BY <1>3, TimerRequest, StartKeepsStops
<1>4. ASSUME NEW v \in Views, NEW rs \in Seq(Requests), rs # <<>>, Accept(v, rs)
      PROVE  StopsHitThePending'
  <2>1. CASE busy[v]
    BY <1>1, <1>4, <2>1 DEF Accept, runVars
  <2>2. CASE ~busy[v]
    <3>1. Head(rs) \in Requests
      BY <1>4, HeadTailProperties
    <3> QED
      BY <1>4, <2>2, <3>1, StartKeepsStops DEF Accept
  <2> QED
    BY <2>1, <2>2
<1>5. ASSUME NEW v \in Views, StopKey(v) \/ ForceKey(v)
      PROVE  StopsHitThePending'
  <2>1. /\ aborted' = aborted \cup ({controller[v]} \ {NoRequest})
        /\ UNCHANGED <<controller, runs, Running>>
    BY <1>5 DEF StopKey, ForceKey, Running
  <2> QED
    BY <2>1, RunningIs
<1>6. ASSUME NEW v \in Views, StopDone(v)
      PROVE  StopsHitThePending'
  <2>1. /\ controller' = [controller EXCEPT ![v] = NoRequest]
        /\ UNCHANGED <<aborted, runs, Running>>
    BY <1>6 DEF StopDone, Running
  <2> QED
    BY <2>1 DEF TypeOK
<1>7. CASE AbortActiveRun
  <2> DEFINE hit == {v \in Listening : controller[v] # NoRequest}
  <2>1. /\ aborted' = aborted \cup {controller[v] : v \in hit}
        /\ controller' = [v \in Views |-> IF v \in hit THEN NoRequest ELSE controller[v]]
        /\ UNCHANGED <<runs, Running>>
    BY <1>7 DEF AbortActiveRun, Running
  <2>2. \A v \in hit : controller[v] \in Running
    BY RunningIs DEF Listening
  <2>3. aborted' \subseteq Running'
    BY <2>1, <2>2
  <2>4. \A v \in Views : controller'[v] # NoRequest => controller'[v] \in runs'[v]
    BY <2>1
  <2> QED
    BY <2>3, <2>4
<1>8. \A r \in Requests : <<r>> \in Seq(Requests) /\ <<r>> # <<>>
  OBVIOUS
<1>9. CASE Next
  <2>1. CASE UNCHANGED <<busy, controller, runs, runningItem>>
    BY <1>1, <1>2, <1>5, <1>7, <1>9, <2>1, SignalSteps
  <2> QED
    BY <1>2, <1>3, <1>4, <1>5, <1>6, <1>7, <1>8, <1>9, <2>1, RunSteps DEF TypeOK
<1> QED
  BY <1>1, <1>9 DEF vars, runVars

(* A stop hits what is pending and nothing else: every controller a view   *)
(* holds and every signal that has fired is a pending request's.           *)
THEOREM StopsHit == Spec => []StopsHitThePending
<1>1. Init => StopsHitThePending
  BY DEF Init, StopsHitThePending
<1> QED
  BY <1>1, StopsStep, TypeCorrect, PTL DEF Spec

(* No stop that came before it reaches a request that starts               *)
THEOREM NoneStartsStopped == Spec => NothingStartsStopped
<1>1. ASSUME TypeOK, StopsHitThePending, Next, NEW r \in Requests, r \in Running' \ Running
      PROVE  r \notin aborted'
  <2>1. r \notin aborted
    BY <1>1 DEF StopsHitThePending
  <2>2. PICK v \in Views : r \in runs'[v] /\ r \notin runs[v]
    BY <1>1, RunningIs
  <2>3. CASE UNCHANGED aborted
    BY <2>1, <2>3
  <2>4. ASSUME NEW w \in Views, NEW q \in Requests, Settle(w, q)
        PROVE  FALSE
    BY <1>1, <2>2, <2>4 DEF Settle, TypeOK
  <2>5. ASSUME NEW w \in Views, StopKey(w) \/ ForceKey(w)
        PROVE  FALSE
    BY <2>2, <2>5 DEF StopKey, ForceKey
  <2>6. CASE AbortActiveRun
    BY <2>2, <2>6 DEF AbortActiveRun
  <2> QED
    BY <1>1, <2>3, <2>4, <2>5, <2>6, SignalSteps
<1>2. TypeOK /\ StopsHitThePending /\ [Next]_vars =>
        [\A r \in Requests : r \in Running' \ Running => r \notin aborted']_vars
  BY <1>1
<1> QED
  BY <1>2, StopsHit, TypeCorrect, PTL DEF Spec, NothingStartsStopped

-----------------------------------------------------------------------------
(* How a request can be lost                                               *)

(* A view that is ready has its runner                                     *)
ReadyHasRunner == \A v \in Views : phase[v] = "ready" => queuedRef[v] = "set"

LEMMA ReadyStep ==
  ASSUME TypeOK, ReadyHasRunner, [Next]_vars
  PROVE  ReadyHasRunner'
<1> USE DEF ReadyHasRunner
<1>1. CASE UNCHANGED viewVars
  BY <1>1 DEF viewVars
<1>2. ASSUME NEW v \in Views, Mount(v)
      PROVE  ReadyHasRunner'
  BY <1>2 DEF Mount, Unmount, Listening, TypeOK
<1>3. ASSUME NEW v \in Views, SessionUp(v)
      PROVE  ReadyHasRunner'
  BY <1>3 DEF SessionUp, TypeOK
<1>4. ASSUME NEW v \in Views, Close(v)
      PROVE  ReadyHasRunner'
  BY <1>4 DEF Close, Unmount, TypeOK
<1> QED
  BY <1>1, <1>2, <1>3, <1>4
  DEF Next, ViewStep, RunStep, Settle, StartQueued, LoseQueued,
      RequestStep, TypeGoal, FinishEnter, Submit, Claim, Release,
      StopStep, StopKey, ForceKey, StopDone, InterruptWindowEnds, AbortActiveRun,
      QueueStep, RemoveItem, MoveItem, ClearQueue, Pause, Resume, vars

(* Only the timer of a resume loses a request                              *)
LEMMA OnlyTimersLose ==
  ASSUME Next, lost' # lost
  PROVE  LoseQueued
BY DEF Next, ViewStep, Mount, SessionUp, Close, RunStep, Settle, StartQueued,
      RequestStep, TypeGoal, FinishEnter, Submit, Claim, Release,
      StopStep, StopKey, ForceKey, StopDone, InterruptWindowEnds, AbortActiveRun,
      QueueStep, RemoveItem, MoveItem, ClearQueue, Pause, Resume, history

(* A request is lost in one way only: a timer of a resume finds its view   *)
(* unmounted, or not yet set up.                                           *)
THEOREM LostInOneWay == Spec => OneWayToLose
<1>1. Init => ReadyHasRunner
  BY DEF Init, ReadyHasRunner
<1>2. Spec => []ReadyHasRunner
  BY <1>1, ReadyStep, TypeCorrect, PTL DEF Spec
<1>3. ASSUME TypeOK, ReadyHasRunner, Next, NEW r \in Requests, r \in lost' \ lost
      PROVE  /\ timers # <<>> /\ timers' = Tail(timers)
             /\ Head(timers).request = r /\ Head(timers).via = "resumed"
             /\ phase[Head(timers).view] # "ready"
  <2>1. LoseQueued
    BY <1>3, OnlyTimersLose
  <2>2. Head(timers).view \in Views
    BY <1>3, <2>1, TimerRequest DEF LoseQueued
  <2> QED
    BY <1>3, <2>1, <2>2 DEF LoseQueued, ReadyHasRunner
<1>4. TypeOK /\ ReadyHasRunner /\ [Next]_vars =>
        [\A r \in Requests : r \in lost' \ lost =>
           /\ timers # <<>> /\ timers' = Tail(timers)
           /\ Head(timers).request = r /\ Head(timers).via = "resumed"
           /\ phase[Head(timers).view] # "ready"]_vars
  BY <1>3
<1> QED
  BY <1>2, <1>4, TypeCorrect, PTL DEF Spec, OneWayToLose

(* What the documents say of the queue is true as long as the views that   *)
(* are up stay up: no request is lost.                                     *)
THEOREM NoneLostWhileViewsStay == SteadySpec => []NoRequestIsLost
<1>1. [SteadyNext]_vars => [Next]_vars
  BY SteadyIsNext
<1>2. Init => TypeOK /\ BusyIsJustified /\ SteadyInv /\ NoRequestIsLost
  BY TypeInit, SteadyInit DEF Init, BusyIsJustified, NoRequestIsLost
<1>3. TypeOK /\ SteadyInv /\ NoRequestIsLost /\ [SteadyNext]_vars => NoRequestIsLost'
  <2> SUFFICES ASSUME TypeOK, SteadyInv, NoRequestIsLost, SteadyNext
               PROVE  UNCHANGED lost
    BY DEF NoRequestIsLost, vars, history
  <2>1. ~ LoseQueued
    <3>1. timers # <<>> => 1 \in 1..Len(timers) /\ timers[1] = Head(timers)
      BY HeadTailProperties, LenProperties, EmptySeq DEF TypeOK
    <3> QED
      BY <3>1 DEF LoseQueued, SteadyInv, TimersFindTheirView
  <2> QED
    BY <2>1, SteadyIsNext, OnlyTimersLose
<1>4. TypeOK /\ BusyIsJustified /\ SteadyInv /\ NoRequestIsLost /\ [SteadyNext]_vars
        => TypeOK' /\ BusyIsJustified' /\ SteadyInv' /\ NoRequestIsLost'
  BY <1>1, <1>3, TypeStep, BusyStep, SteadyStep
<1> QED
  BY <1>2, <1>4, PTL DEF SteadySpec
=============================================================================
