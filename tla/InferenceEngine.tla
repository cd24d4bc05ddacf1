-------------------------- MODULE InferenceEngine --------------------------
(***************************************************************************)
(* The embedded model: the queue that the tabs' requests pass one at a     *)
(* time (src/ai/models/EmbeddedEngineManager.ts), the calls to the model   *)
(* server with the restart on the CPU when the GPU runs out of memory      *)
(* (src/ai/provider/EmbeddedProvider.ts), the search for a provider that   *)
(* starts the server (resolveAvailableProvider of AgentLoop.ts), and the   *)
(* native side that owns the server and mirrors the queue                  *)
(* (src-tauri/src/embedded_server.rs).  Native commands run on the main    *)
(* thread in the order they were sent.                                     *)
(***************************************************************************)
EXTENDS Naturals, Sequences

CONSTANTS
  Requests,   \* requests of the tabs for the model
  Sessions,   \* the tabs
  SessionOf,  \* the tab of a request
  Closing,    \* the tabs that may be closed
  Grammars,   \* the requests that send a grammar
  Cancellable,  \* the requests whose user may cancel them
  Operators,  \* uses of a panel, warm-ups and adapter reloads, which start and
              \* stop the server once each
  NoRequest

ASSUME EngineAssumption ==
  /\ SessionOf \in [Requests -> Sessions]
  /\ NoRequest \notin Requests
  /\ Closing \subseteq Sessions
  /\ Requests \cap Operators = {}
  /\ Requests \cap Sessions = {}
  /\ Operators \cap Sessions = {}
  /\ Grammars \subseteq Requests /\ Cancellable \subseteq Requests

VARIABLES
  pc,           \* where each request stands
  phase,        \* the endpoint whose failure it recovers from
  grammar,      \* requests that still send their grammar
  retried,      \* requests called again after a recovery (not allowOomRecovery)
  aborted,      \* requests whose signal has fired
  answer,       \* what each was answered
  queue,        \* inferenceQueue: the number with which each request of it came,
                \* 0 for the others
  enqueued,     \* how many came
  active,       \* activeInferenceRequest; isProcessingQueue changes with it
  ticks,        \* timers set to process the next item
  cpuFallback,  \* isCpuFallbackMode
  operator,     \* where each operator stands
  calls,        \* native commands sent and not run
  server,       \* the model server
  mode,         \* what it runs on, "gpu" without a server
  served,       \* requests that the server works on
  slot,         \* active_request of the native side
  nativeQueue   \* queue of the native side

requestVars == <<phase, grammar, retried, aborted>>
queueVars == <<queue, enqueued, active, ticks>>
serverVars == <<server, mode, served>>
slotVars == <<slot, nativeQueue>>
vars == <<pc, requestVars, answer, queueVars, cpuFallback, operator, calls,
          serverVars, slotVars>>

Service == INSTANCE InferenceService
             WITH place <- queue, joined <- enqueued, serving <- active

Searching == {"detecting", "booting", "polling"}
Calling == {"acquired", "chat", "completion", "stopping", "stopped",
            "starting", "failed", "warming"}
Holding == {"acquiring"} \cup Calling \cup {"releasing", "released"}
Places == {"new", "unserved", "queued", "done"} \cup Searching \cup Holding
Callers == Requests \cup Operators \cup Sessions
Calls == [op : {"start", "stop", "acquire", "release", "close"},
          by : Callers, cpu : BOOLEAN]

TypeOK ==
  /\ pc \in [Requests -> Places]
  /\ phase \in [Requests -> {"chat", "completion"}]
  /\ grammar \subseteq Requests
  /\ retried \subseteq Requests
  /\ aborted \subseteq Cancellable
  /\ answer \in [Requests -> {"none", "ok", "error", "cancelled", "closed"}]
  /\ queue \in [Requests -> Nat]
  /\ enqueued \in Nat
  /\ active \in Requests \cup {NoRequest}
  /\ ticks \in Nat
  /\ cpuFallback \in BOOLEAN
  /\ operator \in [Operators -> {"new", "calling", "reloading", "reloaded", "done"}]
  /\ calls \in Seq(Calls)
  /\ server \in {"none", "loading", "ready"}
  /\ mode \in {"gpu", "cpu"}
  /\ served \subseteq Requests
  /\ slot \in Requests \cup {NoRequest}
  /\ nativeQueue \in Seq(Requests)

Init ==
  /\ pc = [r \in Requests |-> "new"]
  /\ phase = [r \in Requests |-> "chat"]
  /\ grammar = Grammars /\ retried = {} /\ aborted = {}
  /\ answer = [r \in Requests |-> "none"]
  /\ queue = [r \in Requests |-> 0] /\ enqueued = 0
  /\ active = NoRequest /\ ticks = 0
  /\ cpuFallback = FALSE
  /\ operator = [o \in Operators |-> "new"]
  /\ calls = <<>>
  /\ server = "none" /\ mode = "gpu" /\ served = {}
  /\ slot = NoRequest /\ nativeQueue = <<>>

-----------------------------------------------------------------------------
(* Commands                                                                *)

Call(op, by) == [op |-> op, by |-> by, cpu |-> FALSE]

StartCallAnew(by, forceCpu) ==  \* mutant: the mode is forgotten between starts
  [op |-> "start", by |-> by, cpu |-> forceCpu]
StartCallMisnamed(by, forceCpu) ==  \* mutant: a command the native side does not have
  [op |-> "restart", by |-> by, cpu |-> forceCpu \/ cpuFallback]
(* startEngine: on the CPU when asked to or when the fallback is on *)
StartCall(by, forceCpu) == [op |-> "start", by |-> by, cpu |-> forceCpu \/ cpuFallback]

Send(call) == calls' = Append(calls, call)

-----------------------------------------------------------------------------
(* The queue                                                               *)

CanServeAlways == TRUE  \* mutant: the request in progress is not looked at
CanServe == active = NoRequest

Waiting(q) == Service!Waiting(q)
First(q) == Service!First(q)

(* processNextInferenceQueueItem, given the queue q: its first request is  *)
(* made active and the native slot is asked for                            *)
Process(q, places) ==
  IF CanServe /\ Waiting(q) # {}
    THEN /\ active' = First(q)
         /\ queue' = [q EXCEPT ![First(q)] = 0]
         /\ pc' = [places EXCEPT ![First(q)] = "acquiring"]
         /\ Send(Call("acquire", First(q)))
    ELSE /\ queue' = q
         /\ pc' = places
         /\ UNCHANGED <<active, calls>>

EnqueueOnly(r) ==  \* mutant: the queue is not looked at when a request comes
  /\ queue' = [queue EXCEPT ![r] = enqueued + 1]
  /\ enqueued' = enqueued + 1
  /\ pc' = [pc EXCEPT ![r] = "queued"]
  /\ UNCHANGED <<active, calls, ticks>>

(* generate and enqueueInference *)
Enqueue(r) ==
  /\ Process([queue EXCEPT ![r] = enqueued + 1], [pc EXCEPT ![r] = "queued"])
  /\ enqueued' = enqueued + 1
  /\ UNCHANGED ticks

(* The timer set when a request was done *)
Tick ==
  /\ ticks > 0
  /\ ticks' = ticks - 1
  /\ Process(queue, pc)
  /\ UNCHANGED <<enqueued, requestVars, answer, cpuFallback, operator, serverVars,
                 slotVars>>

(* The promise of the request in progress is settled, then its slot is     *)
(* released                                                                *)
Settle(r, a) ==
  /\ answer' = [answer EXCEPT ![r] = a]
  /\ pc' = [pc EXCEPT ![r] = "releasing"]
  /\ Send(Call("release", r))

NoTick(n) == n      \* mutant: nobody looks at the queue again
AddTick(n) == n + 1

(* What only the call of the request knew is gone with it *)
Forget(r) ==
  /\ phase' = [phase EXCEPT ![r] = "chat"]
  /\ grammar' = grammar \ {r}
  /\ retried' = retried \ {r}
  /\ aborted' = aborted \ {r}

Released(r) ==
  /\ pc[r] = "released"
  /\ pc' = [pc EXCEPT ![r] = "done"]
  /\ active' = NoRequest
  /\ ticks' = AddTick(ticks)
  /\ Forget(r)
  /\ UNCHANGED <<queue, enqueued, answer, cpuFallback, operator, calls,
                 serverVars, slotVars>>

(* cancelSessionRequests: the waiting requests of the session are rejected, *)
(* the native side is told and not waited for                              *)
CloseSession(s) ==
  LET closed == {r \in Waiting(queue) : SessionOf[r] = s}
  IN /\ \E r \in Requests : SessionOf[r] = s /\ pc[r] \in {"queued"} \cup Calling
     /\ \A i \in DOMAIN calls : calls[i].op # "close"  \* bound: one at a time
     /\ queue' = [r \in Requests |-> IF r \in closed THEN 0 ELSE queue[r]]
     /\ pc' = [r \in Requests |-> IF r \in closed THEN "done" ELSE pc[r]]
     /\ answer' = [r \in Requests |-> IF r \in closed THEN "closed" ELSE answer[r]]
     /\ Send(Call("close", s))
     /\ UNCHANGED <<enqueued, active, ticks, requestVars, cpuFallback, operator,
                    serverVars, slotVars>>

Abort(r) ==
  /\ pc[r] \in {"queued"} \cup Searching \cup Holding
  /\ r \in Cancellable \ aborted
  /\ aborted' = aborted \cup {r}
  /\ UNCHANGED <<pc, phase, grammar, retried, answer, queueVars, cpuFallback,
                 operator, calls, serverVars, slotVars>>

-----------------------------------------------------------------------------
(* The search for a provider: resolveAvailableProvider                     *)

(* A health check fails when the server is not ready, and it may run into  *)
(* its time limit of 2 s while the server works.                           *)
Healthy == {server = "ready"} \cup {FALSE : r \in served}

searchVars == <<requestVars, answer, cpuFallback, operator, serverVars, slotVars>>

Probe(r) ==
  /\ pc[r] = "new"
  /\ \E healthy \in Healthy :
       IF healthy
         THEN Enqueue(r)
         ELSE /\ pc' = [pc EXCEPT ![r] = "detecting"]
              /\ UNCHANGED <<queueVars, calls>>
  /\ UNCHANGED searchVars

(* The providers were detected anew.  If the server does not answer then,  *)
(* it is started, unless no model is on the disk.                          *)
Detect(r) ==
  /\ pc[r] = "detecting"
  /\ \E healthy \in Healthy :
       \/ healthy /\ Enqueue(r)
       \/ /\ ~healthy
          /\ pc' = [pc EXCEPT ![r] = "unserved"]
          /\ UNCHANGED <<queueVars, calls>>
       \/ /\ ~healthy
          /\ pc' = [pc EXCEPT ![r] = "booting"]
          /\ Send(StartCall(r, FALSE))
          /\ UNCHANGED queueVars
  /\ UNCHANGED searchVars

(* Every 500 ms, for 45 s *)
Poll(r) ==
  /\ pc[r] = "polling"
  /\ \/ TRUE \in Healthy /\ Enqueue(r)
     \/ /\ pc' = [pc EXCEPT ![r] = "unserved"]
        /\ UNCHANGED <<queueVars, calls>>
  /\ UNCHANGED searchVars

-----------------------------------------------------------------------------
(* The calls to the server                                                 *)

(* A request whose server is not ready, or whose signal has fired, does not *)
(* reach the server                                                        *)
Fetch(r) ==
  served' = IF server = "ready" /\ r \notin aborted THEN served \cup {r} ELSE served \ {r}
LeaveRunning(r) == UNCHANGED served  \* mutant: a cancelled or failed request works on
HangUp(r) == served' = served \ {r}

(* executeInference, up to the call of the chat endpoint *)
Execute(r) ==
  IF r \in aborted
    THEN /\ Settle(r, "cancelled")
         /\ HangUp(r)
    ELSE /\ pc' = [pc EXCEPT ![r] = "chat"]
         /\ Fetch(r)
         /\ UNCHANGED <<answer, calls>>

executeVars == <<aborted, queueVars, operator, server, mode, slotVars>>

Acquired(r) ==
  /\ pc[r] = "acquired"
  /\ Execute(r)
  /\ UNCHANGED <<phase, grammar, retried, cpuFallback, executeVars>>

Answered(r) ==
  /\ pc[r] \in {"chat", "completion"}
  /\ r \in served
  /\ Settle(r, "ok")
  /\ HangUp(r)
  /\ UNCHANGED <<phase, grammar, retried, cpuFallback, executeVars>>

Cancelled(r) ==
  /\ pc[r] \in {"chat", "completion"}
  /\ r \in aborted
  /\ Settle(r, "cancelled")
  /\ HangUp(r)
  /\ UNCHANGED <<phase, grammar, retried, cpuFallback, executeVars>>

(* The server rejects the grammar: once more without it *)
GrammarRejected(r) ==
  /\ pc[r] = "chat"
  /\ r \in served /\ r \in grammar /\ r \notin aborted
  /\ grammar' = grammar \ {r}
  /\ Execute(r)
  /\ UNCHANGED <<phase, retried, cpuFallback, executeVars>>

(* An endpoint failed for good: the other one, or the error *)
GiveUp(r, endpoint) ==
  \/ /\ endpoint = "chat"
     /\ pc' = [pc EXCEPT ![r] = "completion"]
     /\ Fetch(r)
     /\ UNCHANGED <<answer, calls>>
  \/ /\ endpoint = "completion"
     /\ Settle(r, "error")
     /\ HangUp(r)

Failed(r) ==
  /\ pc[r] \in {"chat", "completion"}
  /\ r \notin aborted
  /\ GiveUp(r, pc[r])
  /\ UNCHANGED <<phase, grammar, retried, cpuFallback, executeVars>>

(* The server reports that it is out of memory: handleOomCrash *)
OutOfMemory(r) ==
  /\ pc[r] \in {"chat", "completion"}
  /\ r \in served /\ r \notin aborted
  /\ r \notin retried /\ ~cpuFallback
  /\ cpuFallback' = TRUE
  /\ phase' = [phase EXCEPT ![r] = pc[r]]
  /\ pc' = [pc EXCEPT ![r] = "stopping"]
  /\ Send(Call("stop", r))
  /\ HangUp(r)
  /\ UNCHANGED <<grammar, retried, answer, executeVars>>

Stopped(r) ==
  /\ pc[r] = "stopped"
  /\ pc' = [pc EXCEPT ![r] = "starting"]
  /\ Send(StartCall(r, TRUE))
  /\ UNCHANGED <<phase, grammar, retried, answer, cpuFallback, served, executeVars>>

NotRestarted(r) ==
  /\ pc[r] = "failed"
  /\ GiveUp(r, phase[r])
  /\ UNCHANGED <<phase, grammar, retried, cpuFallback, executeVars>>

(* waitForReady ends with a ready server or after 15 attempts, and nobody  *)
(* looks at which it was                                                   *)
Warmed(r) ==
  /\ pc[r] = "warming"
  /\ retried' = retried \cup {r}
  /\ Execute(r)
  /\ UNCHANGED <<phase, grammar, cpuFallback, executeVars>>

-----------------------------------------------------------------------------
(* Panels, warm-up, adapter reloads                                        *)

operatorVars == <<pc, requestVars, answer, queueVars, cpuFallback, serverVars, slotVars>>

StartEngine(o) ==
  /\ operator[o] \in {"new", "reloaded"}
  /\ operator' = [operator EXCEPT ![o] = "calling"]
  /\ Send(StartCall(o, FALSE))
  /\ UNCHANGED operatorVars

(* stopEngine, alone or as the first half of hotReloadLora *)
StopEngine(o) ==
  /\ operator[o] = "new"
  /\ \E next \in {"calling", "reloading"} :
       operator' = [operator EXCEPT ![o] = next]
  /\ Send(Call("stop", o))
  /\ UNCHANGED operatorVars

-----------------------------------------------------------------------------
(* The native side                                                         *)

AfterCallTrusting(place, ok) ==  \* mutant: a restart that failed is not noticed
  CASE place = "acquiring" -> "acquired"
    [] place = "releasing" -> "released"
    [] place = "stopping" -> "stopped"
    [] place = "starting" -> IF ok THEN "warming" ELSE "starting"
    [] place = "booting" -> IF ok THEN "polling" ELSE "unserved"
    [] OTHER -> place
AfterCall(place, ok) ==
  CASE place = "acquiring" -> "acquired"
    [] place = "releasing" -> "released"
    [] place = "stopping" -> "stopped"
    [] place = "starting" -> IF ok THEN "warming" ELSE "failed"
    [] place = "booting" -> IF ok THEN "polling" ELSE "unserved"
    [] OTHER -> place

(* The reply continues the caller; a close is not waited for *)
Reply(by, ok) ==
  /\ pc' = [r \in Requests |-> IF r = by THEN AfterCall(pc[r], ok) ELSE pc[r]]
  /\ operator' = [o \in Operators |->
       IF o # by THEN operator[o]
       ELSE IF operator[o] = "reloading" THEN "reloaded" ELSE "done"]

Serving(op) ==
  /\ calls # <<>>
  /\ Head(calls).op = op
  /\ calls' = Tail(calls)
  /\ UNCHANGED <<requestVars, answer, queueVars, cpuFallback>>

NoServer == server' = "none" /\ mode' = "gpu" /\ served' = {}

(* start_embedded_llm: refused without a binary or a model, before the     *)
(* running server is looked at; then the running server is killed          *)
NativeStart ==
  /\ Serving("start")
  /\ \/ /\ Reply(Head(calls).by, FALSE)
        /\ UNCHANGED serverVars
     \/ /\ server' = "loading" /\ served' = {}
        /\ mode' = IF Head(calls).cpu THEN "cpu" ELSE "gpu"
        /\ Reply(Head(calls).by, TRUE)
     \/ /\ NoServer
        /\ Reply(Head(calls).by, FALSE)
  /\ UNCHANGED slotVars

NativeStop ==
  /\ Serving("stop")
  /\ NoServer
  /\ Reply(Head(calls).by, TRUE)
  /\ UNCHANGED slotVars

(* acquire_inference_slot *)
NativeAcquire ==
  /\ Serving("acquire")
  /\ IF slot = NoRequest
       THEN slot' = Head(calls).by /\ UNCHANGED nativeQueue
       ELSE nativeQueue' = Append(nativeQueue, Head(calls).by) /\ UNCHANGED slot
  /\ Reply(Head(calls).by, TRUE)
  /\ UNCHANGED serverVars

(* The native queue q without the requests gone *)
Without(q, gone) ==
  IF \A i \in DOMAIN q : q[i] \notin gone THEN q
  ELSE SelectSeq(q, LAMBDA r : r \notin gone)

(* The slot goes to the next of the native queue q *)
PassSlot(q) ==
  IF q = <<>> THEN slot' = NoRequest /\ nativeQueue' = q
              ELSE slot' = Head(q) /\ nativeQueue' = Tail(q)

NeverPass(r) ==  \* mutant: the slot is not given back
  /\ nativeQueue' = Without(nativeQueue, {r})
  /\ UNCHANGED slot

(* release_inference_slot *)
GiveBack(r) ==
  IF slot = r
    THEN PassSlot(nativeQueue)
    ELSE /\ nativeQueue' = Without(nativeQueue, {r})
         /\ UNCHANGED slot

NativeRelease ==
  /\ Serving("release")
  /\ GiveBack(Head(calls).by)
  /\ Reply(Head(calls).by, TRUE)
  /\ UNCHANGED serverVars

(* cancel_session_requests *)
NativeClose ==
  /\ Serving("close")
  /\ LET s == Head(calls).by
         rest == Without(nativeQueue, {r \in Requests : SessionOf[r] = s})
     IN IF slot # NoRequest /\ SessionOf[slot] = s
          THEN PassSlot(rest)
          ELSE nativeQueue' = rest /\ UNCHANGED slot
  /\ UNCHANGED <<pc, operator, serverVars>>

(* The server: the model is loaded; the process ends, on its own or killed *)
ServerLoads ==
  /\ server = "loading"
  /\ server' = "ready"
  /\ UNCHANGED <<pc, requestVars, answer, queueVars, cpuFallback, operator, calls,
                 mode, served, slotVars>>

ServerDies ==
  /\ server # "none"
  /\ NoServer
  /\ UNCHANGED <<pc, requestVars, answer, queueVars, cpuFallback, operator, calls,
                 slotVars>>

-----------------------------------------------------------------------------
(* A running request goes on: its fetch ends, its wait ends, the timers of *)
(* its waits fire.                                                         *)
Ends(r) ==
  \/ Answered(r) \/ Cancelled(r) \/ GrammarRejected(r) \/ Failed(r) \/ OutOfMemory(r)

Continue(r) ==
  \/ Detect(r) \/ Poll(r)
  \/ Acquired(r) \/ Ends(r) \/ Stopped(r) \/ NotRestarted(r) \/ Warmed(r)
  \/ Released(r)

Native == NativeStart \/ NativeStop \/ NativeAcquire \/ NativeRelease \/ NativeClose

Next ==
  \/ \E r \in Requests : Probe(r) \/ Continue(r) \/ Abort(r)
  \/ Tick
  \/ \E s \in Closing : CloseSession(s)
  \/ \E o \in Operators : StartEngine(o) \/ StopEngine(o)
  \/ Native
  \/ ServerLoads
  \/ ServerDies

Spec == Init /\ [][Next]_vars

(* The event loop and the main thread run what is due, and every call of   *)
(* the server ends.                                                        *)
Fairness ==
  /\ WF_vars((\E r \in Requests : Continue(r)) \/ Tick)
  /\ WF_vars(Native)

FairSpec == Spec /\ Fairness

-----------------------------------------------------------------------------
(* Properties                                                              *)

(* Requests are served one at a time in the order in which they came, and  *)
(* each is answered once, also when the server is restarted under a        *)
(* request, sessions are closed and requests are cancelled: the queue of   *)
(* enqueueInference implements the service.                                *)
FirstComeFirstServed == Service!Spec

(* The server works on no request but the one in progress: no cancelled,   *)
(* failed or repeated request leaves the model to work for a tab whose     *)
(* turn is over (the comment on enqueueInference).                         *)
OnlyActiveIsServed == served \subseteq {active}

(* The queue never waits for nobody: when requests wait and none is in     *)
(* progress, a timer is set that will take the next.                       *)
QueueIsDriven == Waiting(queue) # {} /\ active = NoRequest => ticks > 0

(* Once memory has run out the GPU is not used again: while no command to  *)
(* stop the server is on its way, neither the server nor a start on its    *)
(* way uses the GPU, whichever panel, tab or reload asked for it and       *)
(* however the starts and the recovery interleave (handleOomCrash).        *)
FallbackSticks ==
  cpuFallback /\ (\A i \in DOMAIN calls : calls[i].op # "stop") =>
    /\ server # "none" => mode = "cpu"
    /\ \A i \in DOMAIN calls : calls[i].op = "start" => calls[i].cpu

(* The native side mirrors the queue: its slot is that of the request in   *)
(* progress or free, and nobody is left in its own queue, also when a      *)
(* session is closed while its request is executed.                        *)
SlotMirrorsActive == slot \in {active, NoRequest} /\ nativeQueue = <<>>

(* How many steps a request has left at most: what an endpoint, the        *)
(* grammar and the one fallback to the CPU can still cost it.              *)
StepsAhead(place) ==
  CASE place = "new" -> 18 [] place = "detecting" -> 17 [] place = "booting" -> 16
    [] place = "polling" -> 15 [] place = "queued" -> 14 [] place = "acquiring" -> 13
    [] place = "acquired" -> 12 [] place = "stopping" -> 11 [] place = "stopped" -> 10
    [] place = "starting" -> 9 [] place \in {"failed", "warming"} -> 8 [] place = "chat" -> 7
    [] place = "completion" -> 6 [] place = "releasing" -> 5 [] place = "released" -> 4
    [] OTHER -> 0
StepsLeft(r) ==
  StepsAhead(pc[r]) + (IF r \in grammar THEN 1 ELSE 0) + (IF cpuFallback THEN 0 ELSE 6)

(* A request is not tried for ever: each step it takes leaves fewer than   *)
(* before, whichever endpoint, grammar or mode of the server it is tried   *)
(* with, and no step of another tab, a panel or the server gives it more   *)
(* (executeInference and handleOomCrash).                                  *)
RetriesRunOut ==
  [][\A r \in Requests :
       /\ StepsLeft(r)' <= StepsLeft(r)
       /\ pc'[r] # pc[r] \/ (r \in grammar /\ r \notin grammar')
            => StepsLeft(r)' < StepsLeft(r)]_vars

(* Nobody waits for a reply that does not come: a request at an await of a *)
(* native command has that command on its way, whatever was sent, killed   *)
(* or refused meanwhile.                                                   *)
AwaitedOp == [acquiring |-> "acquire", releasing |-> "release", stopping |-> "stop",
              starting |-> "start", booting |-> "start"]
NobodyIsStranded ==
  \A r \in Requests : pc[r] \in DOMAIN AwaitedOp =>
    \E i \in DOMAIN calls : calls[i].by = r /\ calls[i].op = AwaitedOp[pc[r]]

(* The queue drains: when requests wait, a moment comes when none waits and *)
(* none is in progress, so all were answered, if every call of the server  *)
(* ends.  A failed start, a dead server, a recovery or a closed session    *)
(* strands neither a request nor those behind it.                          *)
QueueDrains == Waiting(queue) # {} ~> Waiting(queue) = {} /\ active = NoRequest
=============================================================================
