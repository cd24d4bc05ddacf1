--------------------------- MODULE RequestRunner ---------------------------
(***************************************************************************)
(* How requests to the agent are started, queued, stopped and handed over  *)
(* between terminal views (src/presentation/TerminalView.tsx), on top of   *)
(* the shared PromptQueue and of the hand-over of requests that come from  *)
(* outside a terminal (src/presentation/TerminalRequests.ts).              *)
(*                                                                         *)
(* A view is one mounted TerminalView component.  A pane is rebuilt as a   *)
(* new view when the layout changes; the requests started in its old view  *)
(* keep running there.  Each view has its own busy flag, its own           *)
(* AbortController and its own agent loop, while the queue is shared.      *)
(* JavaScript runs one callback at a time: an action is one callback, from *)
(* an event or a resolved promise to the next await.                       *)
(***************************************************************************)
EXTENDS PromptQueue

CONSTANTS
  Views,         \* instances of the TerminalView component
  Panes,
  PaneOf,        \* the pane a view belongs to
  InitialViews,  \* the views that are up when the model starts
  NoView,        \* null
  MaxStops       \* bound: stop keys of one view whose handlers overlap

ASSUME RunnerAssumption ==
  /\ PaneOf \in [Views -> Panes]
  /\ InitialViews \subseteq Views
  /\ \A v, w \in InitialViews : PaneOf[v] = PaneOf[w] => v = w
  /\ NoView \notin Views
  /\ MaxStops \in Nat

VARIABLES
  phase,       \* life of a view: "new", "starting", "ready", "gone"
  queuedRef,   \* runQueuedItemRef: "unset" until the shell is up, "cleared" on unmount
  busy,        \* aiBusyRef
  controller,  \* activeRunAbortControllerRef: the request whose controller it holds
  runs,        \* requests whose promise is pending, per view
  aborted,     \* pending requests whose abort signal has fired
  typing,      \* requests whose Enter handler awaits the clearing of the shell line
  stops,       \* Ctrl+C handlers that await their write to the shell, per view
  recent,      \* lastInterruptTimeRef is at most 500 ms ago
  timers,      \* the 150 ms timers between taking an item and starting it
  owner,       \* the view that receives requests from outside the terminals
  pending,     \* TerminalRequests' own queue, used while there is no owner
  unsent, over, dropped, lost,  \* history: requests not made yet, finished,
                                \* removed by the user, taken but never started
  starts       \* history: how often each request was started

viewVars == <<phase, queuedRef>>
runVars == <<busy, controller, runs, aborted, starts>>
keyVars == <<typing, stops, recent>>
handoverVars == <<owner, pending>>
history == <<unsent, over, dropped, lost>>
vars == <<queueVars, viewVars, runVars, keyVars, timers, handoverVars, history>>

Timer == [view : Views, request : Requests, via : {"settled", "resumed"}]

TypeOK ==
  /\ PromptQueueTypeOK
  /\ phase \in [Views -> {"new", "starting", "ready", "gone"}]
  /\ queuedRef \in [Views -> {"unset", "set", "cleared"}]
  /\ busy \in [Views -> BOOLEAN]
  /\ controller \in [Views -> Requests \cup {NoRequest}]
  /\ runs \in [Views -> SUBSET Requests]
  /\ aborted \subseteq Requests
  /\ typing \in [Views -> SUBSET Requests]
  /\ stops \in [Views -> 0..MaxStops]
  /\ recent \in [Views -> BOOLEAN]
  /\ timers \in Seq(Timer)
  /\ owner \in Views \cup {NoView}
  /\ pending \in Seq(Requests)
  /\ unsent \subseteq Requests
  /\ over \subseteq Requests
  /\ dropped \subseteq Requests
  /\ lost \subseteq Requests
  /\ starts \in [Requests -> Nat]

Init ==
  /\ PromptQueueInit
  /\ phase = [v \in Views |-> IF v \in InitialViews THEN "ready" ELSE "new"]
  /\ queuedRef = [v \in Views |-> IF v \in InitialViews THEN "set" ELSE "unset"]
  /\ busy = [v \in Views |-> FALSE]
  /\ controller = [v \in Views |-> NoRequest]
  /\ runs = [v \in Views |-> {}]
  /\ aborted = {}
  /\ typing = [v \in Views |-> {}]
  /\ stops = [v \in Views |-> 0]
  /\ recent = [v \in Views |-> FALSE]
  /\ timers = <<>>
  /\ owner = NoView
  /\ pending = <<>>
  /\ unsent = Requests
  /\ over = {}
  /\ dropped = {}
  /\ lost = {}
  /\ starts = [r \in Requests |-> 0]

(* Views whose window listeners are installed *)
Listening == {v \in Views : phase[v] \in {"starting", "ready"}}

-----------------------------------------------------------------------------
(* Starting and finishing a request                                        *)

(* runAiGoal and runFlow up to their first await *)
StartRun(v, r) ==
  /\ busy' = [busy EXCEPT ![v] = TRUE]
  /\ controller' = [controller EXCEPT ![v] = r]
  /\ runs' = [runs EXCEPT ![v] = @ \cup {r}]
  /\ starts' = [starts EXCEPT ![r] = @ + 1]
  /\ SetRunningItem(r)
  /\ UNCHANGED aborted

(* A non-empty batch of requests reaches view v in one callback: the first *)
(* one runs unless the view is busy, the others find it busy.              *)
AcceptUnlessBusy(v, rs) ==  \* mutant: requests that find the view busy are refused
  /\ busy[v] => UNCHANGED <<runVars, runningItem>>
  /\ ~busy[v] => StartRun(v, Head(rs))
  /\ UNCHANGED items
Accept(v, rs) ==
  \/ /\ busy[v]
     /\ Enqueue(rs)
     /\ UNCHANGED <<runVars, runningItem>>
  \/ /\ ~busy[v]
     /\ StartRun(v, Head(rs))
     /\ Enqueue(Tail(rs))

(* The view no longer works on r.  It becomes free even when it meanwhile  *)
(* works on another request, whose controller it keeps.                    *)
ForgetController(v, r) ==  \* mutant: the busy flag stays
  /\ controller' = [controller EXCEPT ![v] = IF @ = r THEN NoRequest ELSE @]
  /\ UNCHANGED busy
Free(v, r) ==
  /\ controller' = [controller EXCEPT ![v] = IF @ = r THEN NoRequest ELSE @]
  /\ busy' = [busy EXCEPT ![v] = FALSE]

(* The finally block of a request: whatever else the view does, it becomes *)
(* free, nothing is shown as running, and the next item is taken.          *)
Settle(v, r) ==
  /\ r \in runs[v]
  /\ runs' = [runs EXCEPT ![v] = @ \ {r}]
  /\ over' = over \cup {r}
  /\ aborted' = aborted \ {r}
  /\ Free(v, r)
  /\ SetRunningItem(NoRequest)
  /\ \/ /\ CanTake
        /\ TakeNext
        /\ timers' = Append(timers, [view |-> v, request |-> Head(items), via |-> "settled"])
     \/ ~CanTake /\ UNCHANGED <<items, timers>>
  /\ UNCHANGED <<paused, viewVars, starts, keyVars, handoverVars, unsent, dropped, lost>>

(* A 150 ms timer fires.  Equal delays fire in the order they were set.    *)
(* After a settled request the timer calls the closure of the view, even   *)
(* of an unmounted one; after a resume it goes through runQueuedItemRef.   *)
StartQueued ==
  /\ timers # <<>>
  /\ Head(timers).via = "settled" \/ queuedRef[Head(timers).view] = "set"
  /\ StartRun(Head(timers).view, Head(timers).request)
  /\ timers' = Tail(timers)
  /\ UNCHANGED <<items, paused, viewVars, keyVars, handoverVars, history>>

(* The optional call runQueuedItemRef.current?.(next) finds no function *)
LoseQueued ==
  /\ timers # <<>>
  /\ Head(timers).via = "resumed"
  /\ queuedRef[Head(timers).view] # "set"
  /\ lost' = lost \cup {Head(timers).request}
  /\ timers' = Tail(timers)
  /\ UNCHANGED <<queueVars, viewVars, runVars, keyVars, handoverVars, unsent, over, dropped>>

-----------------------------------------------------------------------------
(* Requests typed into a view, and requests from outside the terminals     *)

(* Enter after `> goal`: the handler first awaits the clearing of the line *)
TypeGoal(v, r) ==
  /\ phase[v] = "ready"
  /\ r \in unsent
  /\ unsent' = unsent \ {r}
  /\ typing' = [typing EXCEPT ![v] = @ \cup {r}]
  /\ UNCHANGED <<queueVars, viewVars, runVars, stops, recent, timers, handoverVars,
                 over, dropped, lost>>

(* ... and then looks at the busy flag *)
FinishEnter(v, r) ==
  /\ r \in typing[v]
  /\ typing' = [typing EXCEPT ![v] = @ \ {r}]
  /\ Accept(v, <<r>>)
  /\ UNCHANGED <<paused, viewVars, stops, recent, timers, handoverVars, history>>

(* submitTerminalRequest: a workflow, a flow or a goal from the app *)
Submit(r) ==
  /\ r \in unsent
  /\ unsent' = unsent \ {r}
  /\ \/ /\ owner # NoView
        /\ Accept(owner, <<r>>)
        /\ UNCHANGED pending
     \/ /\ owner = NoView
        /\ pending' = Append(pending, r)
        /\ UNCHANGED <<runVars, items, runningItem>>
  /\ UNCHANGED <<paused, viewVars, keyVars, timers, owner, over, dropped, lost>>

(* The focused view claims the requests; the ones that waited reach it at  *)
(* once.  The release of the view that lost the focus is overwritten.      *)
Claim(v) ==
  /\ phase[v] = "ready"
  /\ owner # v
  /\ owner' = v
  /\ pending' = <<>>
  /\ \/ pending # <<>> /\ Accept(v, pending)
     \/ pending = <<>> /\ UNCHANGED <<runVars, items, runningItem>>
  /\ UNCHANGED <<paused, viewVars, keyVars, timers, history>>

(* The focus leaves the owner for a view that is not ready *)
Release ==
  /\ owner # NoView
  /\ owner' = NoView
  /\ UNCHANGED <<queueVars, viewVars, runVars, keyVars, timers, pending, history>>

-----------------------------------------------------------------------------
(* Stopping                                                                *)

(* Ctrl+C in a busy view: abort, then await the write of ^C to the shell.  *)
StopKey(v) ==
  /\ phase[v] = "ready"
  /\ busy[v]
  /\ ~recent[v]
  /\ stops[v] < MaxStops
  /\ recent' = [recent EXCEPT ![v] = TRUE]
  /\ stops' = [stops EXCEPT ![v] = @ + 1]
  /\ aborted' = aborted \cup ({controller[v]} \ {NoRequest})
  /\ SetRunningItem(NoRequest)
  /\ UNCHANGED <<items, paused, viewVars, busy, controller, runs, starts, typing,
                 timers, handoverVars, history>>

(* A second Ctrl+C within 500 ms, while the view is still busy *)
ForceKey(v) ==
  /\ phase[v] = "ready"
  /\ busy[v]
  /\ recent[v]
  /\ stops[v] < MaxStops
  /\ recent' = [recent EXCEPT ![v] = FALSE]
  /\ stops' = [stops EXCEPT ![v] = @ + 1]
  /\ aborted' = aborted \cup ({controller[v]} \ {NoRequest})
  /\ SetRunningItem(NoRequest)
  /\ Clear
  /\ dropped' = dropped \cup ToSet(items)
  /\ UNCHANGED <<paused, viewVars, busy, controller, runs, starts, typing,
                 timers, handoverVars, unsent, over, lost>>

(* The rest of either handler, after its writes *)
StopDone(v) ==
  /\ stops[v] > 0
  /\ stops' = [stops EXCEPT ![v] = @ - 1]
  /\ busy' = [busy EXCEPT ![v] = FALSE]
  /\ controller' = [controller EXCEPT ![v] = NoRequest]
  /\ UNCHANGED <<queueVars, viewVars, runs, aborted, starts, typing, recent,
                 timers, handoverVars, history>>

InterruptWindowEnds(v) ==
  /\ recent[v]
  /\ recent' = [recent EXCEPT ![v] = FALSE]
  /\ UNCHANGED <<queueVars, viewVars, runVars, typing, stops, timers, handoverVars, history>>

(* "Stop" in the queue panel: the event reaches every mounted view *)
AbortActiveRun ==
  LET hit == {v \in Listening : controller[v] # NoRequest}
  IN  /\ hit # {}
      /\ aborted' = aborted \cup {controller[v] : v \in hit}
      /\ busy' = [v \in Views |-> IF v \in hit THEN FALSE ELSE busy[v]]
      /\ controller' = [v \in Views |-> IF v \in hit THEN NoRequest ELSE controller[v]]
      /\ SetRunningItem(NoRequest)
      /\ UNCHANGED <<items, paused, viewVars, runs, starts, keyVars, timers,
                     handoverVars, history>>

-----------------------------------------------------------------------------
(* Editing the queue: the panel, typed commands and the agent's own tools  *)

RemoveItem(i) ==
  /\ RemoveQueued(i)
  /\ dropped' = dropped \cup {items[i]}
  /\ UNCHANGED <<paused, runningItem, viewVars, runVars, keyVars, timers, handoverVars,
                 unsent, over, lost>>

MoveItem(i, j) ==
  /\ i # j
  /\ Move(i, j)
  /\ UNCHANGED <<paused, runningItem, viewVars, runVars, keyVars, timers, handoverVars, history>>

ClearQueue ==
  /\ items # <<>>
  /\ Clear
  /\ dropped' = dropped \cup ToSet(items)
  /\ UNCHANGED <<paused, runningItem, viewVars, runVars, keyVars, timers, handoverVars,
                 unsent, over, lost>>

Pause ==
  /\ ~paused
  /\ paused' = TRUE
  /\ UNCHANGED <<items, runningItem, viewVars, runVars, keyVars, timers, handoverVars, history>>

(* setPaused(false) dispatches cero:queue-resumed: one listener after the  *)
(* other, every mounted view that is not busy takes an item.  The order of *)
(* the listeners is left open.                                             *)
ResumeSilently ==  \* mutant: no event, nobody takes an item
  /\ paused
  /\ paused' = FALSE
  /\ UNCHANGED <<items, runningItem, viewVars, runVars, keyVars, timers, handoverVars, history>>
Resume ==
  LET idle == {v \in Listening : ~busy[v]}
  IN  /\ paused
      /\ paused' = FALSE
      /\ \E k \in 0..Len(items) : \E taker \in [1..k -> idle] :
           /\ \A i, j \in 1..k : taker[i] = taker[j] => i = j
           /\ k = Len(items) \/ \A v \in idle : \E i \in 1..k : taker[i] = v
           /\ items' = SubSeq(items, k + 1, Len(items))
           /\ timers' = timers \o
                [i \in 1..k |-> [view |-> taker[i], request |-> items[i], via |-> "resumed"]]
      /\ UNCHANGED <<runningItem, viewVars, runVars, keyVars, handoverVars, history>>

-----------------------------------------------------------------------------
(* The life of a view                                                      *)

(* The effect of unmounting the views vs on the shared state *)
UnmountKeepingRequests(vs) ==  \* mutant: the view does not release the requests
  /\ queuedRef' = [v \in Views |-> IF v \in vs /\ queuedRef[v] = "set" THEN "cleared"
                                   ELSE queuedRef[v]]
  /\ UNCHANGED owner
Unmount(vs) ==
  /\ queuedRef' = [v \in Views |-> IF v \in vs /\ queuedRef[v] = "set" THEN "cleared"
                                   ELSE queuedRef[v]]
  /\ owner' = IF owner \in vs THEN NoView ELSE owner

(* A pane is opened, or rebuilt by a change of the layout: then its old    *)
(* view goes and the new one comes in the same commit.                     *)
Mount(v) ==
  LET siblings == {w \in Views : PaneOf[w] = PaneOf[v]}
      replaced == siblings \cap Listening
  IN  /\ phase[v] = "new"
      /\ replaced # {} \/ \A w \in siblings : phase[w] = "new"
      /\ phase' = [w \in Views |-> IF w = v THEN "starting"
                                   ELSE IF w \in replaced THEN "gone" ELSE phase[w]]
      /\ Unmount(replaced)
      /\ UNCHANGED <<queueVars, runVars, keyVars, timers, pending, history>>

(* initSession reaches its end: the shell runs, the references are set.    *)
(* It is not cancelled by an unmount.                                      *)
SessionUp(v) ==
  /\ phase[v] \in {"starting", "gone"}
  /\ queuedRef[v] = "unset"
  /\ queuedRef' = [queuedRef EXCEPT ![v] = "set"]
  /\ phase' = [phase EXCEPT ![v] = IF @ = "starting" THEN "ready" ELSE @]
  /\ UNCHANGED <<queueVars, runVars, keyVars, timers, handoverVars, history>>

Close(v) ==
  /\ v \in Listening
  /\ phase' = [phase EXCEPT ![v] = "gone"]
  /\ Unmount({v})
  /\ UNCHANGED <<queueVars, runVars, keyVars, timers, pending, history>>

-----------------------------------------------------------------------------
RunStep == \/ \E v \in Views, r \in Requests : Settle(v, r)
           \/ StartQueued
           \/ LoseQueued

RequestStep == \/ \E v \in Views, r \in Requests : TypeGoal(v, r) \/ FinishEnter(v, r)
               \/ \E r \in Requests : Submit(r)
               \/ \E v \in Views : Claim(v)
               \/ Release

StopStep == \/ \E v \in Views : StopKey(v) \/ ForceKey(v) \/ StopDone(v) \/ InterruptWindowEnds(v)
            \/ AbortActiveRun

QueueStep == \/ \E i \in 1..Len(items) : RemoveItem(i)
             \/ \E i, j \in 1..Len(items) : MoveItem(i, j)
             \/ ClearQueue
             \/ Pause
             \/ Resume

ViewStep == \E v \in Views : Mount(v) \/ SessionUp(v) \/ Close(v)

Next == RunStep \/ RequestStep \/ StopStep \/ QueueStep \/ ViewStep

Spec == Init /\ [][Next]_vars

(* The views of InitialViews stay up: no pane is opened, rebuilt, closed.  *)
(* Timers fire and awaited writes return; every request ends at last: the  *)
(* tools it calls run under a timeout and its number of steps is bounded   *)
(* (a dialog it shows is answered).                                        *)
SteadyNext == RunStep \/ RequestStep \/ StopStep \/ QueueStep

Fairness ==
  /\ WF_vars(StartQueued)
  /\ \A v \in Views, r \in Requests : WF_vars(Settle(v, r)) /\ WF_vars(FinishEnter(v, r))
  /\ \A v \in Views : WF_vars(StopDone(v))

SteadySpec == Init /\ [][SteadyNext]_vars /\ Fairness
-----------------------------------------------------------------------------
(* Properties                                                              *)

(* A busy view holds the controller of a request that is still pending: a  *)
(* view never stays busy with nothing to wait for (its requests would be   *)
(* queued for ever), and Ctrl+C in a busy view always has a target.        *)
BusyIsJustified == \A v \in Views : busy[v] => controller[v] \in runs[v]

(* What the status bar shows as running has been started and not finished, *)
(* whatever views finish, stop or take requests meanwhile.                 *)
ShownRequestIsPending ==
  runningItem # NoRequest => \E v \in Views : runningItem \in runs[v]

(* Where a request can be between its arrival and its end *)
Typed == UNION {typing[v] : v \in Views}
Running == UNION {runs[v] : v \in Views}
Taken == {timers[i].request : i \in 1..Len(timers)}

(* A stop hits what is pending and nothing else: the controller a view     *)
(* holds and every signal that has fired belong to a pending request, so   *)
(* no late stop key, whatever settles, starts or is stopped meanwhile,     *)
(* reaches a request that starts after it.                                 *)
StopsHitThePending ==
  /\ aborted \subseteq Running
  /\ \A v \in Views : controller[v] # NoRequest => controller[v] \in runs[v]

NothingStartsStopped == [][\A r \in Requests : r \in Running' \ Running => r \notin aborted']_vars

(* There is one way to lose a request: a timer of a resume finds its view  *)
(* unmounted or not yet set up.                                            *)
OneWayToLose ==
  [][\A r \in Requests : r \in lost' \ lost =>
       /\ timers # <<>> /\ timers' = Tail(timers)
       /\ Head(timers).request = r /\ Head(timers).via = "resumed"
       /\ phase[Head(timers).view] # "ready"]_vars

(* No request is copied: each is in one place, the queues hold it once, it *)
(* runs in one view, and it is started at most once, which means exactly   *)
(* when it is running or over.  A request the user removed never starts.   *)
Places == <<unsent, Typed, ToSet(pending), ToSet(items), Taken, Running, over, dropped, lost>>

EachRequestInOnePlace ==
  /\ \A i, j \in DOMAIN Places : i # j => Places[i] \cap Places[j] = {}
  /\ UNION ToSet(Places) = Requests
  /\ IsInjective(pending) /\ IsInjective(items)
  /\ \A i, j \in 1..Len(timers) : timers[i].request = timers[j].request => i = j
  /\ \A v, w \in Views : v # w => runs[v] \cap runs[w] = {} /\ typing[v] \cap typing[w] = {}
  /\ \A r \in Requests : starts[r] = IF r \in Running \cup over THEN 1 ELSE 0

(* Requests from outside the terminals wait only while no view has claimed *)
(* them, and the view that has is on the screen.                           *)
HandoverIsLive ==
  /\ owner # NoView => phase[owner] = "ready" /\ pending = <<>>
  /\ \A v, w \in Listening : PaneOf[v] = PaneOf[w] => v = w

(* Nothing leaves a paused queue except by the user's hand: a settling     *)
(* request sets no timer.                                                  *)
PausedQueueIsHeld == [][paused /\ paused' => Taken' \subseteq Taken]_vars

(* The requests that wait, in the order in which they are to start: those  *)
(* behind a timer, then the queue.                                         *)
Line == [i \in 1..Len(timers) |-> timers[i].request] \o items

(* Views and queue together implement the service of one line: requests    *)
(* are started from its head whatever view takes them, at most once each,  *)
(* and never after they were removed.                                      *)
Service == INSTANCE RequestService WITH
             unasked <- unsent, arriving <- Typed \cup ToSet(pending), line <- Line,
             inService <- Running, served <- over, withdrawn <- dropped \cup lost

ServiceSpec == Service!Spec

(* With the views that are up staying up, a queue that is not paused has   *)
(* something that will take from it: a pending request or a timer.         *)
QueueIsDriven == items # <<>> /\ ~paused => Running # {} \/ timers # <<>>

(* ... so every waiting request leaves the queue, unless the user pauses   *)
(* it,                                                                     *)
QueueMoves == \A r \in Requests : (r \in ToSet(items)) ~> (r \notin ToSet(items) \/ paused)

(* ... and a request that was typed or taken comes to its end.             *)
RequestsEnd ==
  \A r \in Requests : (r \in Typed \cup Taken \cup Running)
                        ~> (r \in over \cup dropped \/ paused)
-----------------------------------------------------------------------------
(* What comments and documents say, and the code does not keep             *)

(* FLOW_FILES.md: flows opened while the terminal is busy "are queued      *)
(* sequentially in FIFO order without interrupting or dropping runs".      *)
NoRequestIsLost == lost = {}
=============================================================================
