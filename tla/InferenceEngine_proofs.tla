----------------------- MODULE InferenceEngine_proofs -----------------------
(***************************************************************************)
(* Proofs about InferenceEngine, for any number of requests, tabs and      *)
(* operators                                                               *)
(***************************************************************************)
EXTENDS InferenceEngine, WellFoundedInduction, TLAPS

-----------------------------------------------------------------------------
(* The inductive invariant                                                 *)

(* A request in this place waits for the reply to this command *)
Awaits(place, op) ==
  \/ place = "acquiring" /\ op = "acquire"
  \/ place = "releasing" /\ op = "release"
  \/ place = "stopping" /\ op = "stop"
  \/ place \in {"starting", "booting"} /\ op = "start"
Awaiting(place) == place \in {"acquiring", "releasing", "stopping", "starting", "booting"}

Sorted(call) ==
  /\ call.op \in {"acquire", "release"} => call.by \in Requests
  /\ call.op = "close" <=> call.by \in Sessions

(* The commands on their way are those that somebody waits for, at most    *)
(* one for a request                                                       *)
CallsMatch ==
  /\ \A i \in DOMAIN calls :
       /\ Sorted(calls[i])
       /\ calls[i].by \in Requests => Awaits(pc[calls[i].by], calls[i].op)
  /\ \A i, j \in DOMAIN calls :
       calls[i].by = calls[j].by /\ calls[i].by \in Requests => i = j

OneHolds == \A r \in Requests : pc[r] \in Holding <=> active = r

QueueMatches == \A r \in Requests : queue[r] > 0 <=> pc[r] = "queued"

AnswersMatch ==
  \A r \in Requests : answer[r] # "none" <=> pc[r] \in {"releasing", "released", "done"}

ServedRun == \A r \in served : pc[r] \in {"chat", "completion"}

SlotMatches ==
  /\ nativeQueue = <<>>
  /\ slot # NoRequest => active = slot /\ pc[slot] \notin {"acquiring", "released"}

IInv ==
  /\ TypeOK /\ CallsMatch /\ OneHolds /\ QueueMatches /\ AnswersMatch
  /\ ServedRun /\ SlotMatches /\ QueueIsDriven

-----------------------------------------------------------------------------
(* The queue                                                               *)

(* When requests wait, one of them is the first *)
LEMMA FirstWaits ==
  ASSUME NEW q \in [Requests -> Nat], Waiting(q) # {}
  PROVE  First(q) \in Waiting(q)
<1> DEFINE places == {q[r] : r \in Waiting(q)}
<1>1. places \subseteq Nat /\ places # {}
  BY DEF Waiting, Service!Waiting
<1>2. PICK n \in places : \A m \in places : n <= m
  <2> DEFINE less == OpToRel(<, Nat)
  <2>1. IsWellFoundedOn(less, Nat)
    BY NatLessThanWellFounded
  <2>2. \E n \in places : \A m \in places : <<m, n>> \notin less
    <3> HIDE DEF less, places
    <3> QED
      BY <1>1, <2>1, WFMin
  <2>3. \A m, n \in places : <<m, n>> \notin less => n <= m
    BY <1>1 DEF OpToRel
  <2> QED
    BY <2>2, <2>3
<1>3. PICK r \in Waiting(q) : q[r] = n
  BY <1>2
<1>4. \A t \in Waiting(q) : q[r] <= q[t]
  BY <1>2, <1>3
<1> QED
  BY <1>4 DEF First, Waiting, Service!First, Service!Waiting

(* The next request of the queue, if any, is taken when none is in progress *)
Takes(q, places, f) ==
  /\ f \in Requests /\ q[f] > 0 /\ f = First(q)
  /\ active = NoRequest /\ active' = f
  /\ queue' = [q EXCEPT ![f] = 0]
  /\ pc' = [places EXCEPT ![f] = "acquiring"]
  /\ calls' = Append(calls, [op |-> "acquire", by |-> f, cpu |-> FALSE])

Leaves(q, places) ==
  /\ active # NoRequest \/ Waiting(q) = {}
  /\ queue' = q /\ pc' = places /\ active' = active /\ calls' = calls

LEMMA ProcessTakes ==
  ASSUME NEW q \in [Requests -> Nat], NEW places, Process(q, places)
  PROVE  Leaves(q, places) \/ \E f \in Requests : Takes(q, places, f)
<1>1. CASE CanServe /\ Waiting(q) # {}
  <2>1. First(q) \in Waiting(q)
    BY <1>1, FirstWaits
  <2>2. First(q) \in Requests /\ q[First(q)] > 0
    BY <2>1 DEF Waiting, Service!Waiting
  <2>3. Takes(q, places, First(q))
    BY <1>1, <2>2 DEF Process, Takes, CanServe, Send, Call
  <2> QED
    BY <2>2, <2>3
<1>2. CASE ~(CanServe /\ Waiting(q) # {})
  BY <1>2 DEF Process, Leaves, CanServe
<1> QED
  BY <1>1, <1>2

-----------------------------------------------------------------------------
(* Commands                                                                *)

(* Those that wait for a reply stay where they are *)
AwaitersStay == \A r \in Requests : Awaiting(pc[r]) => pc'[r] = pc[r]

LEMMA CallsKept ==
  ASSUME TypeOK, CallsMatch, calls' = calls, AwaitersStay
  PROVE  CallsMatch'
BY DEF CallsMatch, TypeOK, AwaitersStay, Awaits, Awaiting, Sorted

LEMMA CallSent ==
  ASSUME TypeOK, CallsMatch, AwaitersStay,
         NEW call \in Calls, Sorted(call), calls' = Append(calls, call),
         call.by \in Requests =>
           ~Awaiting(pc[call.by]) /\ Awaits(pc'[call.by], call.op)
  PROVE  CallsMatch' /\ calls' \in Seq(Calls)
<1>1. calls \in Seq(Calls) /\ calls' \in Seq(Calls)
  BY DEF TypeOK
<1>2. /\ Len(calls') = Len(calls) + 1 /\ calls'[Len(calls')] = call
      /\ \A i \in DOMAIN calls' : i # Len(calls') => i \in DOMAIN calls /\ calls'[i] = calls[i]
  BY <1>1
<1>3. \A i \in DOMAIN calls : calls[i].by \in Requests => Awaiting(pc[calls[i].by])
  BY DEF CallsMatch, Awaits, Awaiting
<1>4. ASSUME NEW i \in DOMAIN calls'
      PROVE  /\ Sorted(calls'[i])
             /\ calls'[i].by \in Requests => Awaits(pc'[calls'[i].by], calls'[i].op)
  BY <1>2, <1>3, <1>4 DEF CallsMatch, AwaitersStay
<1>5. ASSUME NEW i \in DOMAIN calls', NEW j \in DOMAIN calls',
             calls'[i].by = calls'[j].by, calls'[i].by \in Requests
      PROVE  i = j
  BY <1>2, <1>3, <1>5 DEF CallsMatch
<1> QED
  BY <1>1, <1>4, <1>5 DEF CallsMatch, Sorted

LEMMA CallReplied ==
  ASSUME TypeOK, CallsMatch, calls # <<>>, calls' = Tail(calls),
         \A r \in Requests : r # Head(calls).by => pc'[r] = pc[r]
  PROVE  CallsMatch' /\ calls' \in Seq(Calls)
<1>1. calls \in Seq(Calls) /\ calls' \in Seq(Calls)
  BY DEF TypeOK
<1>2. /\ Head(calls) = calls[1] /\ 1 \in DOMAIN calls
      /\ \A i \in DOMAIN calls' : i + 1 \in DOMAIN calls /\ calls'[i] = calls[i + 1]
      /\ DOMAIN calls' \subseteq Nat \ {0}
  BY <1>1
<1>3. \A i \in DOMAIN calls' : calls'[i].by \in Requests => calls'[i].by # Head(calls).by
  BY <1>2 DEF CallsMatch
<1>4. ASSUME NEW i \in DOMAIN calls'
      PROVE  /\ Sorted(calls'[i])
             /\ calls'[i].by \in Requests => Awaits(pc'[calls'[i].by], calls'[i].op)
  BY <1>2, <1>3, <1>4 DEF CallsMatch
<1>5. ASSUME NEW i \in DOMAIN calls', NEW j \in DOMAIN calls',
             calls'[i].by = calls'[j].by, calls'[i].by \in Requests
      PROVE  i = j
  BY <1>2, <1>5 DEF CallsMatch
<1> QED
  BY <1>1, <1>4, <1>5 DEF CallsMatch, Sorted

LEMMA StartCalls ==
  ASSUME cpuFallback \in BOOLEAN, NEW forceCpu \in BOOLEAN, NEW by \in Requests \cup Operators
  PROVE  /\ StartCall(by, forceCpu) \in Calls /\ Sorted(StartCall(by, forceCpu))
         /\ StartCall(by, forceCpu).by = by /\ StartCall(by, forceCpu).op = "start"
<1>1. (forceCpu \/ cpuFallback) \in BOOLEAN
  OBVIOUS
<1> QED
  BY <1>1, EngineAssumption DEF StartCall, Calls, Callers, Sorted

(* The command that is executed is one somebody waits for *)
LEMMA HeadCall ==
  ASSUME TypeOK, CallsMatch, calls # <<>>
  PROVE  /\ Head(calls) \in Calls /\ Sorted(Head(calls))
         /\ Head(calls).by \in Requests => Awaits(pc[Head(calls).by], Head(calls).op)
<1>1. calls \in Seq(Calls) /\ Head(calls) = calls[1] /\ 1 \in DOMAIN calls
  BY DEF TypeOK
<1> QED
  BY <1>1 DEF CallsMatch

(* Two places that the invariant does not tell apart *)
Alike(p, q) ==
  /\ p \in Holding <=> q \in Holding
  /\ p = "queued" <=> q = "queued"
  /\ p \in {"releasing", "released", "done"} <=> q \in {"releasing", "released", "done"}
  /\ p \in {"chat", "completion"} <=> q \in {"chat", "completion"}

(* What a reply changes *)
LEMMA Replies ==
  ASSUME TypeOK, NEW by, NEW ok \in BOOLEAN, Reply(by, ok)
  PROVE  /\ pc' \in [Requests -> Places]
         /\ operator' \in [Operators -> {"new", "calling", "reloading", "reloaded", "done"}]
         /\ \A r \in Requests : r # by => pc'[r] = pc[r]
         /\ \A r \in Requests : r = by =>
              /\ pc[r] = "acquiring" => pc'[r] = "acquired"
              /\ pc[r] = "releasing" => pc'[r] = "released"
              /\ pc[r] = "stopping" => pc'[r] = "stopped"
              /\ pc[r] = "starting" => pc'[r] \in {"warming", "failed"}
              /\ pc[r] = "booting" => pc'[r] \in {"polling", "unserved"}
         /\ \A r \in Requests : (r = by => Awaiting(pc[r])) => Alike(pc[r], pc'[r])
<1> USE DEF Places, Holding, Calling, Searching
<1>1. \A r \in Requests : AfterCall(pc[r], ok) \in Places
  BY DEF TypeOK, AfterCall
<1>2. pc' = [r \in Requests |-> IF r = by THEN AfterCall(pc[r], ok) ELSE pc[r]]
  BY DEF Reply
<1>3. pc' \in [Requests -> Places]
  BY <1>1, <1>2 DEF TypeOK
<1>4. operator' \in [Operators -> {"new", "calling", "reloading", "reloaded", "done"}]
  BY DEF Reply, TypeOK
<1>5. \A r \in Requests : r = by => pc'[r] = AfterCall(pc[r], ok)
  BY <1>2
<1>6. \A r \in Requests : (r = by => Awaiting(pc[r])) => Alike(pc[r], pc'[r])
  <2> TAKE r \in Requests
  <2> HAVE r = by => Awaiting(pc[r])
  <2>1. CASE r # by
    BY <1>2, <2>1 DEF Alike
  <2>2. CASE r = by
    BY <1>5, <2>2 DEF Alike, Awaiting, AfterCall
  <2> QED
    BY <2>1, <2>2
<1> QED
  BY <1>2, <1>3, <1>4, <1>5, <1>6 DEF AfterCall

-----------------------------------------------------------------------------
(* A step keeps the invariant                                              *)

LEMMA AbortStep ==
  ASSUME IInv, NEW r \in Requests, Abort(r)
  PROVE  IInv'
<1> USE EngineAssumption DEF Places, Holding, Calling, Searching, Awaiting
<1>1. AwaitersStay
  BY DEF AwaitersStay, Abort, requestVars, queueVars, serverVars, slotVars
<1>2. CallsMatch' /\ calls' \in Seq(Calls)
  BY <1>1, CallsKept DEF IInv, TypeOK, Abort, requestVars, queueVars, serverVars,
     slotVars
<1>3. TypeOK'
  BY <1>2 DEF IInv, TypeOK, SlotMatches, Abort, requestVars, queueVars, serverVars,
     slotVars
<1>4. OneHolds' /\ QueueMatches' /\ AnswersMatch'
  BY <1>2 DEF IInv, TypeOK, OneHolds, QueueMatches, AnswersMatch, Abort, requestVars,
     queueVars, serverVars, slotVars
<1>5. ServedRun' /\ SlotMatches'
  BY <1>2 DEF IInv, TypeOK, OneHolds, ServedRun, SlotMatches, Abort, requestVars,
     queueVars, serverVars, slotVars
<1>6. QueueIsDriven'
  BY <1>2 DEF IInv, TypeOK, OneHolds, QueueIsDriven, Waiting, Service!Waiting, Abort,
     requestVars, queueVars, serverVars, slotVars
<1> QED
  BY <1>2, <1>3, <1>4, <1>5, <1>6 DEF IInv

LEMMA ReleasedStep ==
  ASSUME IInv, NEW r \in Requests, Released(r)
  PROVE  IInv'
<1> USE EngineAssumption DEF Places, Holding, Calling, Searching, Awaiting
<1>1. AwaitersStay
  BY DEF AwaitersStay, Released, AddTick, Forget, requestVars, queueVars, serverVars,
     slotVars
<1>2. CallsMatch' /\ calls' \in Seq(Calls)
  BY <1>1, CallsKept DEF IInv, TypeOK, Released, AddTick, Forget, requestVars,
     queueVars, serverVars, slotVars
<1>3. TypeOK'
  BY <1>2 DEF IInv, TypeOK, SlotMatches, Released, AddTick, Forget, requestVars,
     queueVars, serverVars, slotVars
<1>4. OneHolds' /\ QueueMatches' /\ AnswersMatch'
  BY <1>2 DEF IInv, TypeOK, OneHolds, QueueMatches, AnswersMatch, Released, AddTick,
     Forget, requestVars, queueVars, serverVars, slotVars
<1>5. ServedRun' /\ SlotMatches'
  BY <1>2 DEF IInv, TypeOK, OneHolds, ServedRun, SlotMatches, Released, AddTick, Forget,
     requestVars, queueVars, serverVars, slotVars
<1>6. QueueIsDriven'
  BY <1>2 DEF IInv, TypeOK, OneHolds, QueueIsDriven, Waiting, Service!Waiting, Released,
     AddTick, Forget, requestVars, queueVars, serverVars, slotVars
<1> QED
  BY <1>2, <1>3, <1>4, <1>5, <1>6 DEF IInv

LEMMA OutOfMemoryStep ==
  ASSUME IInv, NEW r \in Requests, OutOfMemory(r)
  PROVE  IInv'
<1> USE EngineAssumption DEF Places, Holding, Calling, Searching, Awaiting
<1>1. AwaitersStay
  BY DEF AwaitersStay, IInv, TypeOK, OutOfMemory, Settle, Send, Call, HangUp, Fetch,
     requestVars, queueVars, serverVars, slotVars, executeVars
<1>2. CallsMatch' /\ calls' \in Seq(Calls)
  BY <1>1, CallSent DEF IInv, TypeOK, Calls, Callers, Sorted, Awaits, OutOfMemory,
     Settle, Send, Call, HangUp, Fetch, requestVars, queueVars, serverVars, slotVars,
     executeVars
<1>3. TypeOK'
  BY <1>2 DEF IInv, TypeOK, SlotMatches, OutOfMemory, Settle, Send, Call, HangUp, Fetch,
     requestVars, queueVars, serverVars, slotVars, executeVars
<1>4. OneHolds' /\ QueueMatches' /\ AnswersMatch'
  BY <1>2 DEF IInv, TypeOK, OneHolds, QueueMatches, AnswersMatch, OutOfMemory, Settle,
     Send, Call, HangUp, Fetch, requestVars, queueVars, serverVars, slotVars,
     executeVars
<1>5. ServedRun' /\ SlotMatches'
  BY <1>2 DEF IInv, TypeOK, OneHolds, ServedRun, SlotMatches, OutOfMemory, Settle, Send,
     Call, HangUp, Fetch, requestVars, queueVars, serverVars, slotVars, executeVars
<1>6. QueueIsDriven'
  BY <1>2 DEF IInv, TypeOK, OneHolds, QueueIsDriven, Waiting, Service!Waiting,
     OutOfMemory, Settle, Send, Call, HangUp, Fetch, requestVars, queueVars, serverVars,
     slotVars, executeVars
<1> QED
  BY <1>2, <1>3, <1>4, <1>5, <1>6 DEF IInv

LEMMA StoppedStep ==
  ASSUME IInv, NEW r \in Requests, Stopped(r)
  PROVE  IInv'
<1> USE EngineAssumption DEF Places, Holding, Calling, Searching, Awaiting
<1>1. /\ StartCall(r, TRUE) \in Calls /\ Sorted(StartCall(r, TRUE))
      /\ StartCall(r, TRUE).by = r /\ StartCall(r, TRUE).op = "start"
  BY StartCalls DEF IInv, TypeOK
<1>2. AwaitersStay
  BY <1>1 DEF AwaitersStay, IInv, TypeOK, Stopped, Send, requestVars, queueVars,
     serverVars, slotVars, executeVars
<1>3. CallsMatch' /\ calls' \in Seq(Calls)
  BY <1>1, <1>2, CallSent DEF IInv, TypeOK, Calls, Callers, Sorted, Awaits, Stopped,
     Send, requestVars, queueVars, serverVars, slotVars, executeVars
<1>4. TypeOK'
  BY <1>1, <1>3 DEF IInv, TypeOK, SlotMatches, Stopped, Send, requestVars, queueVars,
     serverVars, slotVars, executeVars
<1>5. OneHolds' /\ QueueMatches' /\ AnswersMatch'
  BY <1>1, <1>3 DEF IInv, TypeOK, OneHolds, QueueMatches, AnswersMatch, Stopped, Send,
     requestVars, queueVars, serverVars, slotVars, executeVars
<1>6. ServedRun' /\ SlotMatches'
  BY <1>1, <1>3 DEF IInv, TypeOK, OneHolds, ServedRun, SlotMatches, Stopped, Send,
     requestVars, queueVars, serverVars, slotVars, executeVars
<1>7. QueueIsDriven'
  BY <1>1, <1>3 DEF IInv, TypeOK, OneHolds, QueueIsDriven, Waiting, Service!Waiting,
     Stopped, Send, requestVars, queueVars, serverVars, slotVars, executeVars
<1> QED
  BY <1>3, <1>4, <1>5, <1>6, <1>7 DEF IInv

LEMMA NativeStartStep ==
  ASSUME IInv, NativeStart
  PROVE  IInv'
<1> USE EngineAssumption DEF Places, Holding, Calling, Searching, Awaiting
<1>1. calls # <<>> /\ Head(calls).op = "start"
  BY DEF NativeStart, Serving
<1>2. /\ Head(calls) \in Calls /\ Sorted(Head(calls))
      /\ Head(calls).by \in Requests => Awaits(pc[Head(calls).by], "start")
  BY <1>1, HeadCall DEF IInv
<1>3. PICK ok \in BOOLEAN : Reply(Head(calls).by, ok)
  BY DEF NativeStart
<1>4. /\ pc' \in [Requests -> Places]
      /\ operator' \in [Operators -> {"new", "calling", "reloading", "reloaded", "done"}]
      /\ \A r \in Requests : r # Head(calls).by => pc'[r] = pc[r]
      /\ \A r \in Requests : r = Head(calls).by =>
           /\ pc[r] = "starting" => pc'[r] \in {"warming", "failed"}
           /\ pc[r] = "booting" => pc'[r] \in {"polling", "unserved"}
      /\ \A r \in Requests : Alike(pc[r], pc'[r])
  BY <1>2, <1>3, Replies DEF IInv, Awaits
<1>5. /\ UNCHANGED <<requestVars, answer, queue, enqueued, active, ticks, cpuFallback>>
      /\ calls' = Tail(calls)
  BY DEF NativeStart, Serving, queueVars
<1>6. \A r \in Requests : pc'[r] \in {"acquiring", "released"} => pc'[r] = pc[r]
  BY <1>2, <1>4 DEF Awaits, TypeOK, IInv
<1>7. /\ \/ server' \in {"none", "loading"} /\ mode' \in {"gpu", "cpu"} /\ served' = {}
         \/ UNCHANGED <<server, mode, served>>
      /\ UNCHANGED <<slot, nativeQueue>>
  BY DEF NativeStart, NoServer, serverVars, slotVars
<1>8. CallsMatch' /\ calls' \in Seq(Calls)
  BY <1>1, <1>4, <1>5, CallReplied DEF IInv
<1>9. TypeOK'
  BY <1>4, <1>5, <1>7, <1>8 DEF IInv, TypeOK, SlotMatches, requestVars
<1>10. OneHolds' /\ QueueMatches' /\ AnswersMatch'
  BY <1>4, <1>5 DEF IInv, OneHolds, QueueMatches, AnswersMatch, Alike
<1>11. ServedRun' /\ SlotMatches'
  BY <1>4, <1>5, <1>7, <1>6 DEF IInv, TypeOK, OneHolds, ServedRun, SlotMatches, Alike
<1>12. QueueIsDriven'
  BY <1>5 DEF IInv, QueueIsDriven, Waiting, Service!Waiting
<1> QED
  BY <1>8, <1>9, <1>10, <1>11, <1>12 DEF IInv

LEMMA NativeStopStep ==
  ASSUME IInv, NativeStop
  PROVE  IInv'
<1> USE EngineAssumption DEF Places, Holding, Calling, Searching, Awaiting
<1>1. calls # <<>> /\ Head(calls).op = "stop"
  BY DEF NativeStop, Serving
<1>2. /\ Head(calls) \in Calls /\ Sorted(Head(calls))
      /\ Head(calls).by \in Requests => Awaits(pc[Head(calls).by], "stop")
  BY <1>1, HeadCall DEF IInv
<1>3. PICK ok \in BOOLEAN : Reply(Head(calls).by, ok)
  BY DEF NativeStop
<1>4. /\ pc' \in [Requests -> Places]
      /\ operator' \in [Operators -> {"new", "calling", "reloading", "reloaded", "done"}]
      /\ \A r \in Requests : r # Head(calls).by => pc'[r] = pc[r]
      /\ \A r \in Requests : r = Head(calls).by /\ pc[r] = "stopping" => pc'[r] = "stopped"
      /\ \A r \in Requests : Alike(pc[r], pc'[r])
  BY <1>2, <1>3, Replies DEF IInv, Awaits
<1>5. /\ UNCHANGED <<requestVars, answer, queue, enqueued, active, ticks, cpuFallback>>
      /\ calls' = Tail(calls)
  BY DEF NativeStop, Serving, queueVars
<1>6. \A r \in Requests : pc'[r] \in {"acquiring", "released"} => pc'[r] = pc[r]
  BY <1>2, <1>4 DEF Awaits, TypeOK, IInv
<1>7. /\ server' = "none" /\ mode' = "gpu" /\ served' = {}
      /\ UNCHANGED <<slot, nativeQueue>>
  BY DEF NativeStop, NoServer, slotVars
<1>8. CallsMatch' /\ calls' \in Seq(Calls)
  BY <1>1, <1>4, <1>5, CallReplied DEF IInv
<1>9. TypeOK'
  BY <1>4, <1>5, <1>7, <1>8 DEF IInv, TypeOK, SlotMatches, requestVars
<1>10. OneHolds' /\ QueueMatches' /\ AnswersMatch'
  BY <1>4, <1>5 DEF IInv, OneHolds, QueueMatches, AnswersMatch, Alike
<1>11. ServedRun' /\ SlotMatches'
  BY <1>4, <1>5, <1>7, <1>6 DEF IInv, TypeOK, OneHolds, ServedRun, SlotMatches, Alike
<1>12. QueueIsDriven'
  BY <1>5 DEF IInv, QueueIsDriven, Waiting, Service!Waiting
<1> QED
  BY <1>8, <1>9, <1>10, <1>11, <1>12 DEF IInv

LEMMA NativeAcquireStep ==
  ASSUME IInv, NativeAcquire
  PROVE  IInv'
<1> USE EngineAssumption DEF Places, Holding, Calling, Searching, Awaiting
<1>1. calls # <<>> /\ Head(calls).op = "acquire"
  BY DEF NativeAcquire, Serving
<1>2. /\ Head(calls) \in Calls /\ Sorted(Head(calls))
      /\ Head(calls).by \in Requests => Awaits(pc[Head(calls).by], "acquire")
  BY <1>1, HeadCall DEF IInv
<1>3. PICK ok \in BOOLEAN : Reply(Head(calls).by, ok)
  BY DEF NativeAcquire
<1>4. /\ pc' \in [Requests -> Places]
      /\ operator' \in [Operators -> {"new", "calling", "reloading", "reloaded", "done"}]
      /\ \A r \in Requests : r # Head(calls).by => pc'[r] = pc[r]
      /\ \A r \in Requests : r = Head(calls).by /\ pc[r] = "acquiring" => pc'[r] = "acquired"
      /\ \A r \in Requests : Alike(pc[r], pc'[r])
  BY <1>2, <1>3, Replies DEF IInv, Awaits
<1>5. /\ UNCHANGED <<requestVars, answer, queue, enqueued, active, ticks, cpuFallback>>
      /\ calls' = Tail(calls)
  BY DEF NativeAcquire, Serving, queueVars
<1>6. Head(calls).by \in Requests /\ pc[Head(calls).by] = "acquiring"
  BY <1>1, <1>2 DEF Sorted, Awaits
<1>7. slot = NoRequest /\ active = Head(calls).by
  BY <1>6 DEF IInv, OneHolds, SlotMatches
<1>8. /\ slot' = Head(calls).by /\ Head(calls).by \in Requests
      /\ active = Head(calls).by /\ pc[active] = "acquiring"
      /\ UNCHANGED <<nativeQueue, server, mode, served>>
  BY <1>6, <1>7 DEF NativeAcquire, serverVars
<1>9. CallsMatch' /\ calls' \in Seq(Calls)
  BY <1>1, <1>4, <1>5, CallReplied DEF IInv
<1>10. TypeOK'
  BY <1>4, <1>5, <1>8, <1>9 DEF IInv, TypeOK, SlotMatches, requestVars
<1>11. OneHolds' /\ QueueMatches' /\ AnswersMatch'
  BY <1>4, <1>5 DEF IInv, OneHolds, QueueMatches, AnswersMatch, Alike
<1>12. ServedRun' /\ SlotMatches'
  BY <1>4, <1>5, <1>8, <1>6 DEF IInv, TypeOK, OneHolds, ServedRun, SlotMatches, Alike
<1>13. QueueIsDriven'
  BY <1>5 DEF IInv, QueueIsDriven, Waiting, Service!Waiting
<1> QED
  BY <1>9, <1>10, <1>11, <1>12, <1>13 DEF IInv

LEMMA NativeReleaseStep ==
  ASSUME IInv, NativeRelease
  PROVE  IInv'
<1> USE EngineAssumption DEF Places, Holding, Calling, Searching, Awaiting
<1>1. calls # <<>> /\ Head(calls).op = "release"
  BY DEF NativeRelease, Serving
<1>2. /\ Head(calls) \in Calls /\ Sorted(Head(calls))
      /\ Head(calls).by \in Requests => Awaits(pc[Head(calls).by], "release")
  BY <1>1, HeadCall DEF IInv
<1>3. PICK ok \in BOOLEAN : Reply(Head(calls).by, ok)
  BY DEF NativeRelease
<1>4. /\ pc' \in [Requests -> Places]
      /\ operator' \in [Operators -> {"new", "calling", "reloading", "reloaded", "done"}]
      /\ \A r \in Requests : r # Head(calls).by => pc'[r] = pc[r]
      /\ \A r \in Requests : r = Head(calls).by /\ pc[r] = "releasing" => pc'[r] = "released"
      /\ \A r \in Requests : Alike(pc[r], pc'[r])
  BY <1>2, <1>3, Replies DEF IInv, Awaits
<1>5. /\ UNCHANGED <<requestVars, answer, queue, enqueued, active, ticks, cpuFallback>>
      /\ calls' = Tail(calls)
  BY DEF NativeRelease, Serving, queueVars
<1>6. Head(calls).by \in Requests /\ pc[Head(calls).by] = "releasing"
  BY <1>1, <1>2 DEF Sorted, Awaits
<1>7. nativeQueue = <<>> /\ active = Head(calls).by
  BY <1>6 DEF IInv, OneHolds, SlotMatches
<1>8. slot' = NoRequest /\ nativeQueue' = <<>>
  <2>1. CASE slot = Head(calls).by
    BY <1>7, <2>1 DEF NativeRelease, GiveBack, PassSlot
  <2>2. CASE slot # Head(calls).by
    <3>1. slot = NoRequest
      BY <1>7, <2>2 DEF IInv, SlotMatches
    <3> QED
      BY <1>7, <2>2, <3>1 DEF NativeRelease, GiveBack, Without
  <2> QED
    BY <2>1, <2>2
<1>9. /\ slot' = NoRequest /\ nativeQueue' = <<>> /\ active = Head(calls).by
      /\ Head(calls).by \in Requests /\ pc[active] = "releasing"
      /\ UNCHANGED <<server, mode, served>>
  BY <1>6, <1>7, <1>8 DEF NativeRelease, serverVars
<1>10. CallsMatch' /\ calls' \in Seq(Calls)
  BY <1>1, <1>4, <1>5, CallReplied DEF IInv
<1>11. TypeOK'
  BY <1>4, <1>5, <1>9, <1>10 DEF IInv, TypeOK, SlotMatches, requestVars
<1>12. OneHolds' /\ QueueMatches' /\ AnswersMatch'
  BY <1>4, <1>5 DEF IInv, OneHolds, QueueMatches, AnswersMatch, Alike
<1>13. ServedRun' /\ SlotMatches'
  BY <1>4, <1>5, <1>9, <1>6 DEF IInv, TypeOK, OneHolds, ServedRun, SlotMatches, Alike
<1>14. QueueIsDriven'
  BY <1>5 DEF IInv, QueueIsDriven, Waiting, Service!Waiting
<1> QED
  BY <1>10, <1>11, <1>12, <1>13, <1>14 DEF IInv

LEMMA NativeCloseStep ==
  ASSUME IInv, NativeClose
  PROVE  IInv'
<1>1. /\ UNCHANGED <<pc, requestVars, answer, queue, enqueued, active, ticks, cpuFallback,
                     operator, server, mode, served>>
      /\ calls # <<>> /\ calls' = Tail(calls)
  BY DEF NativeClose, Serving, queueVars, serverVars
<1>2. CallsMatch' /\ calls' \in Seq(Calls)
  BY <1>1, CallReplied DEF IInv
<1>3. nativeQueue' = <<>> /\ slot' \in {slot, NoRequest}
  <2> DEFINE gone == {r \in Requests : SessionOf[r] = Head(calls).by}
  <2>1. nativeQueue = <<>>
    BY DEF IInv, SlotMatches
  <2>2. Without(nativeQueue, gone) = <<>>
    BY <2>1 DEF Without
  <2> QED
    BY <2>2 DEF NativeClose, PassSlot
<1>4. TypeOK'
  BY <1>1, <1>2, <1>3 DEF IInv, TypeOK, requestVars
<1>5. OneHolds' /\ QueueMatches' /\ AnswersMatch' /\ ServedRun' /\ SlotMatches'
  BY <1>1, <1>3 DEF IInv, OneHolds, QueueMatches, AnswersMatch, ServedRun, SlotMatches
<1>6. QueueIsDriven'
  BY <1>1 DEF IInv, QueueIsDriven, Waiting, Service!Waiting
<1> QED
  BY <1>2, <1>4, <1>5, <1>6 DEF IInv

LEMMA ServerStep ==
  ASSUME IInv, ServerLoads \/ ServerDies
  PROVE  IInv'
<1> USE EngineAssumption DEF Places, Holding, Calling, Searching, Awaiting
<1>1. AwaitersStay
  BY DEF AwaitersStay, ServerLoads, ServerDies, NoServer, requestVars, queueVars,
     serverVars, slotVars
<1>2. CallsMatch' /\ calls' \in Seq(Calls)
  BY <1>1, CallsKept DEF IInv, TypeOK, ServerLoads, ServerDies, NoServer, requestVars,
     queueVars, serverVars, slotVars
<1>3. TypeOK'
  BY <1>2 DEF IInv, TypeOK, SlotMatches, ServerLoads, ServerDies, NoServer, requestVars,
     queueVars, serverVars, slotVars
<1>4. OneHolds' /\ QueueMatches' /\ AnswersMatch'
  BY <1>2 DEF IInv, TypeOK, OneHolds, QueueMatches, AnswersMatch, ServerLoads,
     ServerDies, NoServer, requestVars, queueVars, serverVars, slotVars
<1>5. ServedRun' /\ SlotMatches'
  BY <1>2 DEF IInv, TypeOK, OneHolds, ServedRun, SlotMatches, ServerLoads, ServerDies,
     NoServer, requestVars, queueVars, serverVars, slotVars
<1>6. QueueIsDriven'
  BY <1>2 DEF IInv, TypeOK, OneHolds, QueueIsDriven, Waiting, Service!Waiting,
     ServerLoads, ServerDies, NoServer, requestVars, queueVars, serverVars, slotVars
<1> QED
  BY <1>2, <1>3, <1>4, <1>5, <1>6 DEF IInv

LEMMA StartEngineStep ==
  ASSUME IInv, NEW o \in Operators, StartEngine(o)
  PROVE  IInv'
<1> USE EngineAssumption DEF Places, Holding, Calling, Searching, Awaiting
<1>1. /\ StartCall(o, FALSE) \in Calls /\ Sorted(StartCall(o, FALSE))
      /\ StartCall(o, FALSE).by = o /\ StartCall(o, FALSE).op = "start"
  BY StartCalls DEF IInv, TypeOK
<1>2. AwaitersStay
  BY <1>1 DEF AwaitersStay, IInv, TypeOK, StartEngine, Send, operatorVars, requestVars,
     queueVars, serverVars, slotVars
<1>3. CallsMatch' /\ calls' \in Seq(Calls)
  BY <1>1, <1>2, CallSent DEF IInv, TypeOK, Calls, Callers, Sorted, Awaits, StartEngine,
     Send, operatorVars, requestVars, queueVars, serverVars, slotVars
<1>4. TypeOK'
  BY <1>1, <1>3 DEF IInv, TypeOK, SlotMatches, StartEngine, Send, operatorVars,
     requestVars, queueVars, serverVars, slotVars
<1>5. OneHolds' /\ QueueMatches' /\ AnswersMatch'
  BY <1>1, <1>3 DEF IInv, TypeOK, OneHolds, QueueMatches, AnswersMatch, StartEngine,
     Send, operatorVars, requestVars, queueVars, serverVars, slotVars
<1>6. ServedRun' /\ SlotMatches'
  BY <1>1, <1>3 DEF IInv, TypeOK, OneHolds, ServedRun, SlotMatches, StartEngine, Send,
     operatorVars, requestVars, queueVars, serverVars, slotVars
<1>7. QueueIsDriven'
  BY <1>1, <1>3 DEF IInv, TypeOK, OneHolds, QueueIsDriven, Waiting, Service!Waiting,
     StartEngine, Send, operatorVars, requestVars, queueVars, serverVars, slotVars
<1> QED
  BY <1>3, <1>4, <1>5, <1>6, <1>7 DEF IInv

LEMMA StopEngineStep ==
  ASSUME IInv, NEW o \in Operators, StopEngine(o)
  PROVE  IInv'
<1> USE EngineAssumption DEF Places, Holding, Calling, Searching, Awaiting
<1>1. AwaitersStay
  BY DEF AwaitersStay, IInv, TypeOK, StopEngine, Call, Send, operatorVars, requestVars,
     queueVars, serverVars, slotVars
<1>2. CallsMatch' /\ calls' \in Seq(Calls)
  BY <1>1, CallSent DEF IInv, TypeOK, Calls, Callers, Sorted, Awaits, StopEngine, Call,
     Send, operatorVars, requestVars, queueVars, serverVars, slotVars
<1>3. TypeOK'
  BY <1>2 DEF IInv, TypeOK, SlotMatches, StopEngine, Call, Send, operatorVars,
     requestVars, queueVars, serverVars, slotVars
<1>4. OneHolds' /\ QueueMatches' /\ AnswersMatch'
  BY <1>2 DEF IInv, TypeOK, OneHolds, QueueMatches, AnswersMatch, StopEngine, Call,
     Send, operatorVars, requestVars, queueVars, serverVars, slotVars
<1>5. ServedRun' /\ SlotMatches'
  BY <1>2 DEF IInv, TypeOK, OneHolds, ServedRun, SlotMatches, StopEngine, Call, Send,
     operatorVars, requestVars, queueVars, serverVars, slotVars
<1>6. QueueIsDriven'
  BY <1>2 DEF IInv, TypeOK, OneHolds, QueueIsDriven, Waiting, Service!Waiting,
     StopEngine, Call, Send, operatorVars, requestVars, queueVars, serverVars, slotVars
<1> QED
  BY <1>2, <1>3, <1>4, <1>5, <1>6 DEF IInv

LEMMA CloseSessionStep ==
  ASSUME IInv, NEW s \in Closing, CloseSession(s)
  PROVE  IInv'
<1> USE EngineAssumption DEF Places, Holding, Calling, Searching, Awaiting
<1>1. AwaitersStay
  BY DEF AwaitersStay, IInv, TypeOK, QueueMatches, CloseSession, Call, Send, Waiting,
     Service!Waiting, requestVars, queueVars, serverVars, slotVars
<1>2. CallsMatch' /\ calls' \in Seq(Calls)
  BY <1>1, CallSent DEF IInv, TypeOK, Calls, Callers, Sorted, Awaits, QueueMatches,
     CloseSession, Call, Send, Waiting, Service!Waiting, requestVars, queueVars,
     serverVars, slotVars
<1>3. TypeOK'
  BY <1>2 DEF IInv, TypeOK, SlotMatches, QueueMatches, CloseSession, Call, Send,
     Waiting, Service!Waiting, requestVars, queueVars, serverVars, slotVars
<1>4. OneHolds' /\ QueueMatches' /\ AnswersMatch'
  BY <1>2 DEF IInv, TypeOK, OneHolds, QueueMatches, AnswersMatch, QueueMatches,
     CloseSession, Call, Send, Waiting, Service!Waiting, requestVars, queueVars,
     serverVars, slotVars
<1>5. ServedRun' /\ SlotMatches'
  BY <1>2 DEF IInv, TypeOK, OneHolds, ServedRun, SlotMatches, QueueMatches,
     CloseSession, Call, Send, Waiting, Service!Waiting, requestVars, queueVars,
     serverVars, slotVars
<1>6. QueueIsDriven'
  BY <1>2 DEF IInv, TypeOK, OneHolds, QueueIsDriven, Waiting, Service!Waiting,
     QueueMatches, CloseSession, Call, Send, Waiting, Service!Waiting, requestVars,
     queueVars, serverVars, slotVars
<1> QED
  BY <1>2, <1>3, <1>4, <1>5, <1>6 DEF IInv

LEMMA TakesStep ==
  ASSUME IInv, NEW q \in [Requests -> Nat], NEW places \in [Requests -> Places],
         \A r \in Requests : q[r] > 0 <=> places[r] = "queued",
         \A r \in Requests : places[r] = "queued" => ~Awaiting(pc[r]) /\ pc[r] \notin Holding
                                                     /\ answer[r] = "none",
         \A r \in Requests : places[r] # "queued" => places[r] = pc[r],
         Leaves(q, places) \/ \E f \in Requests : Takes(q, places, f),
         enqueued' \in Nat, ticks' \in Nat,
         UNCHANGED searchVars
  PROVE  IInv'
<1> USE EngineAssumption DEF Places, Holding, Calling, Searching, Awaiting
<1>1. CASE Leaves(q, places)
  <2>1. pc' = places /\ queue' = q /\ active' = active /\ calls' = calls
        /\ UNCHANGED <<phase, grammar, retried, aborted, answer, cpuFallback, operator,
                       server, mode, served, slot, nativeQueue>>
        /\ (active # NoRequest \/ Waiting(q) = {})
    BY <1>1 DEF Leaves, searchVars, requestVars, serverVars, slotVars
  <2>2. CallsMatch'
    <3>1. AwaitersStay
      BY <2>1 DEF AwaitersStay
    <3> QED
      BY <2>1, <3>1, CallsKept DEF IInv
  <2>3. TypeOK'
    BY <2>1 DEF IInv, TypeOK
  <2>4. OneHolds' /\ QueueMatches' /\ AnswersMatch'
    BY <2>1 DEF IInv, OneHolds, QueueMatches, AnswersMatch
  <2>5. ServedRun' /\ SlotMatches'
    BY <2>1 DEF IInv, TypeOK, OneHolds, ServedRun, SlotMatches
  <2>6. QueueIsDriven'
    BY <2>1 DEF QueueIsDriven
  <2> QED
    BY <2>2, <2>3, <2>4, <2>5, <2>6 DEF IInv
<1>2. CASE \E f \in Requests : Takes(q, places, f)
  <2>1. PICK f \in Requests : Takes(q, places, f)
    BY <1>2
  <2>2. /\ q[f] > 0 /\ active = NoRequest /\ active' = f
        /\ queue' = [q EXCEPT ![f] = 0] /\ pc' = [places EXCEPT ![f] = "acquiring"]
        /\ calls' = Append(calls, [op |-> "acquire", by |-> f, cpu |-> FALSE])
        /\ UNCHANGED <<phase, grammar, retried, aborted, answer, cpuFallback, operator,
                       server, mode, served, slot, nativeQueue>>
    BY <2>1 DEF Takes, searchVars, requestVars, serverVars, slotVars
  <2>3. places[f] = "queued" /\ ~Awaiting(pc[f]) /\ answer[f] = "none" /\ pc'[f] = "acquiring"
    BY <2>2
  <2>4. \A r \in Requests : r # f => pc'[r] = places[r] /\ queue'[r] = q[r]
    BY <2>2
  <2>5. CallsMatch' /\ calls' \in Seq(Calls)
    <3>1. AwaitersStay
      BY <2>3, <2>4 DEF AwaitersStay
    <3>2. [op |-> "acquire", by |-> f, cpu |-> FALSE] \in Calls
          /\ Sorted([op |-> "acquire", by |-> f, cpu |-> FALSE])
      BY DEF Calls, Callers, Sorted
    <3> QED
      BY <2>2, <2>3, <3>1, <3>2, CallSent DEF IInv, Awaits
  <2>6. TypeOK'
    BY <2>2, <2>5 DEF IInv, TypeOK
  <2>7. OneHolds' /\ QueueMatches' /\ AnswersMatch'
    BY <2>2, <2>3, <2>4 DEF IInv, TypeOK, OneHolds, QueueMatches, AnswersMatch
  <2>8. ServedRun' /\ SlotMatches'
    BY <2>2, <2>3, <2>4 DEF IInv, TypeOK, OneHolds, ServedRun, SlotMatches
  <2>9. QueueIsDriven'
    BY <2>2 DEF QueueIsDriven
  <2> QED
    BY <2>5, <2>6, <2>7, <2>8, <2>9 DEF IInv
<1> QED
  BY <1>1, <1>2

LEMMA EnqueueStep ==
  ASSUME IInv, NEW r \in Requests, pc[r] \in {"new", "detecting", "polling"},
         Enqueue(r), UNCHANGED searchVars
  PROVE  IInv'
<1> USE DEF Places, Holding, Calling, Searching, Awaiting
<1> DEFINE q == [queue EXCEPT ![r] = enqueued + 1]
           places == [pc EXCEPT ![r] = "queued"]
<1>1. q \in [Requests -> Nat] /\ places \in [Requests -> Places]
  BY DEF IInv, TypeOK
<1>2. Leaves(q, places) \/ \E f \in Requests : Takes(q, places, f)
  <2> HIDE DEF q
  <2> QED
    BY <1>1, ProcessTakes DEF Enqueue, q
<1>3. \A t \in Requests : q[t] > 0 <=> places[t] = "queued"
  BY DEF IInv, TypeOK, QueueMatches
<1>4. \A t \in Requests : /\ places[t] # "queued" => places[t] = pc[t]
                          /\ places[t] = "queued" => ~Awaiting(pc[t]) /\ pc[t] \notin Holding
                                                     /\ answer[t] = "none"
  BY DEF IInv, TypeOK, AnswersMatch
<1>5. enqueued' \in Nat /\ ticks' \in Nat
  BY DEF Enqueue, IInv, TypeOK
<1> HIDE DEF q, places
<1> QED
  BY <1>1, <1>2, <1>3, <1>4, <1>5, TakesStep

LEMMA TickStep ==
  ASSUME IInv, Tick
  PROVE  IInv'
<1> USE DEF Places, Holding, Calling, Searching, Awaiting
<1>1. queue \in [Requests -> Nat] /\ pc \in [Requests -> Places]
  BY DEF IInv, TypeOK
<1>2. Leaves(queue, pc) \/ \E f \in Requests : Takes(queue, pc, f)
  BY <1>1, ProcessTakes DEF Tick
<1>3. \A t \in Requests : queue[t] > 0 <=> pc[t] = "queued"
  BY DEF IInv, QueueMatches
<1>4. \A t \in Requests : pc[t] = "queued" => ~Awaiting(pc[t]) /\ pc[t] \notin Holding
                                              /\ answer[t] = "none"
  BY DEF IInv, AnswersMatch
<1>5. enqueued' \in Nat /\ ticks' \in Nat /\ UNCHANGED searchVars
  BY DEF Tick, IInv, TypeOK, searchVars
<1> QED
  BY <1>1, <1>2, <1>3, <1>4, <1>5, TakesStep

(* A search sends a start, or ends without a server *)
LEMMA SearchStep ==
  ASSUME IInv, NEW r \in Requests, Probe(r) \/ Detect(r) \/ Poll(r)
  PROVE  IInv'
<1> USE EngineAssumption DEF Places, Holding, Calling, Searching, Awaiting
<1>1. CASE Enqueue(r)
  BY <1>1, EnqueueStep DEF Probe, Detect, Poll
<1>2. CASE /\ pc[r] \in {"new", "detecting", "polling"}
           /\ pc' = [pc EXCEPT ![r] = "detecting"] \/ pc' = [pc EXCEPT ![r] = "unserved"]
           /\ UNCHANGED <<queueVars, calls, searchVars>>
  <2>1. CallsMatch'
    <3>1. AwaitersStay /\ calls' = calls
      BY <1>2 DEF AwaitersStay, IInv, TypeOK
    <3> QED
      BY <3>1, CallsKept DEF IInv
  <2>2. PICK p \in {"detecting", "unserved"} : pc' = [pc EXCEPT ![r] = p]
    BY <1>2
  <2>3. UNCHANGED <<phase, grammar, retried, aborted, answer, queue, enqueued, active, ticks,
                    cpuFallback, operator, calls, server, mode, served, slot, nativeQueue>>
    BY <1>2 DEF searchVars, requestVars, queueVars, serverVars, slotVars
  <2>4. TypeOK'
    BY <2>2, <2>3 DEF IInv, TypeOK
  <2>5. OneHolds' /\ QueueMatches' /\ AnswersMatch'
    BY <1>2, <2>2, <2>3 DEF IInv, TypeOK, OneHolds, QueueMatches, AnswersMatch
  <2>6. ServedRun' /\ SlotMatches' /\ QueueIsDriven'
    BY <1>2, <2>2, <2>3 DEF IInv, TypeOK, OneHolds, ServedRun, SlotMatches,
       QueueIsDriven,
         Waiting, Service!Waiting
  <2> QED
    BY <2>1, <2>4, <2>5, <2>6 DEF IInv
<1>3. CASE /\ pc[r] = "detecting" /\ pc' = [pc EXCEPT ![r] = "booting"]
           /\ Send(StartCall(r, FALSE))
           /\ UNCHANGED <<queueVars, searchVars>>
  <2>1. /\ StartCall(r, FALSE) \in Calls /\ Sorted(StartCall(r, FALSE))
        /\ StartCall(r, FALSE).by = r /\ StartCall(r, FALSE).op = "start"
    BY StartCalls DEF IInv, TypeOK
  <2>2. CallsMatch' /\ calls' \in Seq(Calls)
    <3>1. AwaitersStay /\ pc'[r] = "booting"
      BY <1>3 DEF AwaitersStay, IInv, TypeOK
    <3> QED
      BY <1>3, <2>1, <3>1, CallSent DEF IInv, Send, Awaits
  <2> QED
    BY <1>3, <2>2 DEF IInv, TypeOK, OneHolds, QueueMatches, AnswersMatch, ServedRun,
       SlotMatches,
         QueueIsDriven, Waiting, Service!Waiting, searchVars, requestVars, queueVars,
         serverVars, slotVars
<1> QED
  BY <1>1, <1>2, <1>3 DEF Probe, Detect, Poll

(* What the steps of a call of the model leave alone *)
CallOnly ==
  /\ UNCHANGED executeVars
  /\ phase' \in [Requests -> {"chat", "completion"}] /\ cpuFallback' \in BOOLEAN
  /\ grammar' \subseteq Requests /\ retried' \subseteq Requests

LEMMA SettleStep ==
  ASSUME IInv, NEW r \in Requests, pc[r] \in Calling, ~Awaiting(pc[r]),
         NEW a \in {"ok", "error", "cancelled"}, Settle(r, a), HangUp(r), CallOnly
  PROVE  IInv'
<1> USE EngineAssumption DEF Places, Holding, Calling, Searching, Awaiting
<1>1. AwaitersStay /\ pc'[r] = "releasing"
  BY DEF AwaitersStay, Settle, IInv, TypeOK
<1>2. CallsMatch' /\ calls' \in Seq(Calls)
  BY <1>1, CallSent DEF IInv, Settle, Send, Call, Calls, Callers, Sorted, Awaits
<1>3. TypeOK'
  BY <1>2 DEF IInv, TypeOK, Settle, HangUp, CallOnly, executeVars, queueVars, slotVars
<1>4. OneHolds' /\ QueueMatches' /\ AnswersMatch'
  BY DEF IInv, TypeOK, OneHolds, QueueMatches, AnswersMatch, Settle, CallOnly,
     executeVars, queueVars
<1>5. ServedRun' /\ SlotMatches'
  BY DEF IInv, TypeOK, OneHolds, ServedRun, SlotMatches, Settle, HangUp, CallOnly,
         executeVars, queueVars, slotVars
<1>6. QueueIsDriven'
  BY DEF IInv, QueueIsDriven, Waiting, Service!Waiting, CallOnly, executeVars, queueVars
<1> QED
  BY <1>2, <1>3, <1>4, <1>5, <1>6 DEF IInv

LEMMA FetchStep ==
  ASSUME IInv, NEW r \in Requests, pc[r] \in Calling, ~Awaiting(pc[r]),
         NEW endpoint \in {"chat", "completion"}, pc' = [pc EXCEPT ![r] = endpoint],
         Fetch(r), UNCHANGED <<answer, calls>>, CallOnly
  PROVE  IInv'
<1> USE EngineAssumption DEF Places, Holding, Calling, Searching, Awaiting
<1>1. AwaitersStay
  BY DEF AwaitersStay, IInv, TypeOK
<1>2. CallsMatch'
  BY <1>1, CallsKept DEF IInv
<1>3. TypeOK'
  BY DEF IInv, TypeOK, Fetch, CallOnly, executeVars, queueVars, slotVars
<1>4. OneHolds' /\ QueueMatches' /\ AnswersMatch'
  BY DEF IInv, TypeOK, OneHolds, QueueMatches, AnswersMatch, CallOnly, executeVars,
     queueVars
<1>5. ServedRun' /\ SlotMatches'
  BY DEF IInv, TypeOK, OneHolds, ServedRun, SlotMatches, Fetch, CallOnly,
         executeVars, queueVars, slotVars
<1>6. QueueIsDriven'
  BY DEF IInv, QueueIsDriven, Waiting, Service!Waiting, CallOnly, executeVars, queueVars
<1> QED
  BY <1>2, <1>3, <1>4, <1>5, <1>6 DEF IInv

LEMMA ExecuteStep ==
  ASSUME IInv, NEW r \in Requests, pc[r] \in Calling, ~Awaiting(pc[r]), Execute(r), CallOnly
  PROVE  IInv'
BY SettleStep, FetchStep DEF Execute

LEMMA GiveUpStep ==
  ASSUME IInv, NEW r \in Requests, pc[r] \in Calling, ~Awaiting(pc[r]),
         NEW endpoint, GiveUp(r, endpoint), CallOnly
  PROVE  IInv'
BY SettleStep, FetchStep DEF GiveUp

(* The calls of the model that go on *)
LEMMA ModelStep ==
  ASSUME IInv, NEW r \in Requests,
         \/ Acquired(r) \/ GrammarRejected(r) \/ Warmed(r)
         \/ Failed(r) \/ NotRestarted(r)
         \/ Answered(r) \/ Cancelled(r)
  PROVE  IInv'
<1> USE DEF Calling, Awaiting
<1>1. CallOnly
  BY DEF CallOnly, IInv, TypeOK, Acquired, GrammarRejected, Warmed, Failed,
     NotRestarted,
         Answered, Cancelled
<1>2. pc[r] \in Calling /\ ~Awaiting(pc[r])
  BY DEF Acquired, GrammarRejected, Warmed, Failed, NotRestarted, Answered, Cancelled
<1>3. CASE Acquired(r) \/ GrammarRejected(r) \/ Warmed(r)
  BY <1>1, <1>2, <1>3, ExecuteStep DEF Acquired, GrammarRejected, Warmed
<1>4. CASE Failed(r) \/ NotRestarted(r)
  BY <1>1, <1>2, <1>4, GiveUpStep DEF Failed, NotRestarted
<1>5. CASE Answered(r) \/ Cancelled(r)
  BY <1>1, <1>2, <1>5, SettleStep DEF Answered, Cancelled
<1> QED
  BY <1>3, <1>4, <1>5

LEMMA InvStep ==
  ASSUME IInv, [Next]_vars
  PROVE  IInv'
<1>1. CASE UNCHANGED vars
  BY <1>1 DEF vars, requestVars, queueVars, serverVars, slotVars, IInv, TypeOK,
     CallsMatch,
       OneHolds, QueueMatches, AnswersMatch, ServedRun, SlotMatches, QueueIsDriven,
       Waiting, Service!Waiting, Sorted
<1>2. ASSUME NEW r \in Requests, Probe(r) \/ Continue(r) \/ Abort(r)
      PROVE  IInv'
  BY <1>2, SearchStep, ModelStep, AbortStep, OutOfMemoryStep, StoppedStep, ReleasedStep
     DEF Continue, Ends
<1>3. ASSUME NEW s \in Closing, CloseSession(s)
      PROVE  IInv'
  BY <1>3, CloseSessionStep
<1>4. ASSUME NEW o \in Operators, StartEngine(o) \/ StopEngine(o)
      PROVE  IInv'
  BY <1>4, StartEngineStep, StopEngineStep
<1>5. CASE Native
  BY <1>5, NativeStartStep, NativeStopStep, NativeAcquireStep, NativeReleaseStep,
     NativeCloseStep DEF Native
<1>6. CASE Tick \/ ServerLoads \/ ServerDies
  BY <1>6, TickStep, ServerStep
<1> QED
  BY <1>1, <1>2, <1>3, <1>4, <1>5, <1>6 DEF Next

LEMMA InvInit == Init => IInv
<1> SUFFICES ASSUME Init PROVE IInv
  OBVIOUS
<1> USE EngineAssumption DEF Init, Places, Holding, Calling, Searching
<1>1. TypeOK
  <2>1. calls \in Seq(Calls) /\ nativeQueue \in Seq(Requests)
    OBVIOUS
  <2>2. /\ pc \in [Requests -> Places] /\ phase \in [Requests -> {"chat", "completion"}]
        /\ answer \in [Requests -> {"none", "ok", "error", "cancelled", "closed"}]
        /\ queue \in [Requests -> Nat]
        /\ operator \in [Operators -> {"new", "calling", "reloading", "reloaded", "done"}]
    OBVIOUS
  <2>3. /\ grammar \subseteq Requests /\ retried \subseteq Requests
        /\ aborted \subseteq Cancellable /\ enqueued \in Nat /\ ticks \in Nat
        /\ active \in Requests \cup {NoRequest} /\ cpuFallback \in BOOLEAN
        /\ server \in {"none", "loading", "ready"} /\ mode \in {"gpu", "cpu"}
        /\ served \subseteq Requests /\ slot \in Requests \cup {NoRequest}
    OBVIOUS
  <2> QED
    BY <2>1, <2>2, <2>3 DEF TypeOK
<1>2. CallsMatch /\ OneHolds /\ QueueMatches /\ AnswersMatch /\ ServedRun /\ SlotMatches
  BY DEF CallsMatch, OneHolds, QueueMatches, AnswersMatch, ServedRun, SlotMatches
<1>3. QueueIsDriven
  BY DEF QueueIsDriven, Waiting, Service!Waiting
<1> QED
  BY <1>1, <1>2, <1>3 DEF IInv

THEOREM EngineInvariant == Spec => []IInv
<1>1. IInv /\ [Next]_vars => IInv'
  BY InvStep
<1> QED
  BY <1>1, InvInit, PTL DEF Spec

(* Every variable keeps its type *)
THEOREM EngineTypeCorrect == Spec => []TypeOK
<1>1. IInv => TypeOK
  BY DEF IInv
<1> QED
  BY <1>1, EngineInvariant, PTL

(* The server works on no request but the one in progress *)
THEOREM OneServed == Spec => []OnlyActiveIsServed
<1>1. IInv => OnlyActiveIsServed
  BY DEF IInv, TypeOK, ServedRun, OneHolds, OnlyActiveIsServed, Holding, Calling
<1> QED
  BY <1>1, EngineInvariant, PTL

(* Requests that wait with none in progress will be looked at *)
THEOREM QueueDriven == Spec => []QueueIsDriven
<1>1. IInv => QueueIsDriven
  BY DEF IInv
<1> QED
  BY <1>1, EngineInvariant, PTL

(* The native slot is that of the request in progress, or free *)
THEOREM SlotMirrors == Spec => []SlotMirrorsActive
<1>1. IInv => SlotMirrorsActive
  BY DEF IInv, SlotMatches, SlotMirrorsActive
<1> QED
  BY <1>1, EngineInvariant, PTL

-----------------------------------------------------------------------------
(* The fallback to the CPU                                                 *)

(* Once memory has run out, a server on the GPU and a start on the GPU are *)
(* followed by a command to stop it                                        *)
FallbackInv ==
  cpuFallback =>
    /\ server # "none" /\ mode = "gpu" => \E j \in DOMAIN calls : calls[j].op = "stop"
    /\ \A i \in DOMAIN calls : calls[i].op = "start" /\ ~calls[i].cpu =>
         \E j \in DOMAIN calls : i < j /\ calls[j].op = "stop"

LEMMA FallbackIdle ==
  ASSUME FallbackInv, UNCHANGED <<calls, cpuFallback, mode>>, server' = server \/ server # "none"
  PROVE  FallbackInv'
BY DEF FallbackInv

LEMMA FallbackSent ==
  ASSUME TypeOK, FallbackInv, NEW call \in Calls, calls' = Append(calls, call),
         UNCHANGED <<server, mode>>,
         \/ call.op = "stop"
         \/ cpuFallback' = cpuFallback /\ (call.op = "start" /\ cpuFallback => call.cpu)
  PROVE  FallbackInv'
<1>1. calls \in Seq(Calls) /\ calls' \in Seq(Calls)
  BY DEF TypeOK
<1>2. /\ Len(calls') \in DOMAIN calls' /\ calls'[Len(calls')] = call
      /\ \A i \in DOMAIN calls : i \in DOMAIN calls' /\ calls'[i] = calls[i]
      /\ \A i \in DOMAIN calls' : i = Len(calls') \/ (i \in DOMAIN calls /\ i < Len(calls'))
  BY <1>1
<1>3. CASE call.op = "stop"
  BY <1>2, <1>3 DEF FallbackInv
<1>4. CASE call.op # "stop"
  <2>1. cpuFallback' = cpuFallback /\ (call.op = "start" /\ cpuFallback => call.cpu)
    BY <1>4
  <2>2. ASSUME cpuFallback, server # "none", mode = "gpu"
        PROVE  \E j \in DOMAIN calls' : calls'[j].op = "stop"
    BY <1>2, <2>2 DEF FallbackInv
  <2>3. ASSUME cpuFallback, NEW i \in DOMAIN calls', calls'[i].op = "start", ~calls'[i].cpu
        PROVE  \E j \in DOMAIN calls' : i < j /\ calls'[j].op = "stop"
    <3>1. i \in DOMAIN calls /\ calls'[i] = calls[i]
      BY <1>2, <2>1, <2>3
    <3> QED
      BY <1>2, <2>3, <3>1 DEF FallbackInv
  <2> QED
    BY <2>1, <2>2, <2>3 DEF FallbackInv
<1> QED
  BY <1>3, <1>4

LEMMA FallbackRun ==
  ASSUME TypeOK, FallbackInv, calls # <<>>, calls' = Tail(calls), cpuFallback' = cpuFallback,
         \/ server' = "none"
         \/ Head(calls).op # "stop" /\ UNCHANGED <<server, mode>>
         \/ Head(calls).op = "start" /\ mode' = IF Head(calls).cpu THEN "cpu" ELSE "gpu"
  PROVE  FallbackInv'
<1>1. calls \in Seq(Calls) /\ calls' \in Seq(Calls)
  BY DEF TypeOK
<1>2. /\ Head(calls) = calls[1] /\ 1 \in DOMAIN calls
      /\ \A i \in DOMAIN calls' : i \in Nat /\ i + 1 \in DOMAIN calls /\ calls'[i] = calls[i + 1]
      /\ \A i \in DOMAIN calls : i \in Nat /\ (i > 1 => i - 1 \in DOMAIN calls' /\ calls'[i - 1] = calls[i])
  BY <1>1
<1>3. ASSUME cpuFallback, NEW i \in DOMAIN calls', calls'[i].op = "start", ~calls'[i].cpu
      PROVE  \E j \in DOMAIN calls' : i < j /\ calls'[j].op = "stop"
  <2>1. PICK j \in DOMAIN calls : i + 1 < j /\ calls[j].op = "stop"
    BY <1>2, <1>3 DEF FallbackInv
  <2>2. j > 1 /\ i < j - 1
    BY <1>2, <2>1
  <2> QED
    BY <1>2, <2>1, <2>2
<1>4. ASSUME cpuFallback, server' # "none", mode' = "gpu"
      PROVE  \E j \in DOMAIN calls' : calls'[j].op = "stop"
  <2>1. \E j \in DOMAIN calls : j > 1 /\ calls[j].op = "stop"
    <3>1. CASE Head(calls).op # "stop" /\ UNCHANGED <<server, mode>>
      <4>1. PICK j \in DOMAIN calls : calls[j].op = "stop"
        BY <1>4, <3>1 DEF FallbackInv
      <4> QED
        BY <1>1, <1>2, <3>1, <4>1
    <3>2. CASE /\ Head(calls).op = "start"
               /\ mode' = IF Head(calls).cpu THEN "cpu" ELSE "gpu"
      <4>1. ~calls[1].cpu
        BY <1>2, <1>4, <3>2
      <4> QED
        BY <1>2, <1>4, <3>2, <4>1 DEF FallbackInv
    <3> QED
      BY <1>4, <3>1, <3>2
  <2> QED
    BY <1>2, <2>1
<1> QED
  BY <1>3, <1>4 DEF FallbackInv

LEMMA OtherCalls ==
  ASSUME NEW op \in {"stop", "acquire", "release", "close"}, NEW by \in Callers
  PROVE  Call(op, by) \in Calls /\ Call(op, by).op = op
BY DEF Call, Calls

LEMMA FallbackStep ==
  ASSUME IInv, FallbackInv, [Next]_vars
  PROVE  FallbackInv'
<1> USE EngineAssumption
<1> DEFINE Idle == UNCHANGED <<calls, cpuFallback, server, mode>>
           Sent == \E call \in Calls :
             /\ calls' = Append(calls, call)
             /\ UNCHANGED <<server, mode>>
             /\ \/ call.op = "stop"
                \/ cpuFallback' = cpuFallback /\ (call.op = "start" /\ cpuFallback => call.cpu)
<1>1. Idle => FallbackInv'
  BY FallbackIdle
<1>2. Sent => FallbackInv'
  BY FallbackSent DEF IInv
<1>3. CASE UNCHANGED vars
  BY <1>1, <1>3 DEF vars, serverVars
<1>4. \A r \in Requests : \A a : Settle(r, a) /\ UNCHANGED <<cpuFallback, server, mode>> => Sent
  BY OtherCalls DEF Settle, Send, Callers
<1>5. \A by \in Requests \cup Operators, f \in BOOLEAN :
        Send(StartCall(by, f)) /\ UNCHANGED <<cpuFallback, server, mode>> => Sent
  <2> TAKE by \in Requests \cup Operators, f \in BOOLEAN
  <2> HAVE Send(StartCall(by, f)) /\ UNCHANGED <<cpuFallback, server, mode>>
  <2>1. StartCall(by, f) \in Calls
    BY StartCalls DEF IInv, TypeOK
  <2>2. cpuFallback => StartCall(by, f).cpu
    BY DEF StartCall
  <2> QED
    BY <2>1, <2>2 DEF Send
<1>6. \A q \in [Requests -> Nat] : \A places :
        Process(q, places) /\ UNCHANGED <<cpuFallback, server, mode>> => Idle \/ Sent
  <2> TAKE q \in [Requests -> Nat]
  <2> TAKE places
  <2> HAVE Process(q, places) /\ UNCHANGED <<cpuFallback, server, mode>>
  <2>1. Leaves(q, places) \/ \E f \in Requests : Takes(q, places, f)
    BY ProcessTakes
  <2>2. ASSUME NEW f \in Requests, Takes(q, places, f)
        PROVE  Sent
    <3>1. calls' = Append(calls, Call("acquire", f))
      BY <2>2 DEF Takes, Call
    <3> QED
      BY <3>1, OtherCalls DEF Callers
  <2> QED
    BY <2>1, <2>2 DEF Leaves
<1>7. ASSUME NEW r \in Requests, Enqueue(r), UNCHANGED <<cpuFallback, server, mode>>
      PROVE  Idle \/ Sent
  <2>1. [queue EXCEPT ![r] = enqueued + 1] \in [Requests -> Nat]
    BY DEF IInv, TypeOK
  <2> HIDE DEF Idle, Sent
  <2> QED
    BY <1>6, <1>7, <2>1 DEF Enqueue
<1>8. ASSUME NEW r \in Requests, Probe(r) \/ Detect(r) \/ Poll(r)
      PROVE  FallbackInv'
  <2>1. UNCHANGED <<cpuFallback, server, mode>>
    BY <1>8 DEF Probe, Detect, Poll, searchVars, serverVars
  <2>2. Enqueue(r) \/ calls' = calls \/ Send(StartCall(r, FALSE))
    BY <1>8 DEF Probe, Detect, Poll
  <2> QED
    BY <1>1, <1>2, <1>5, <1>7, <2>1, <2>2
<1>9. ASSUME NEW r \in Requests,
             \/ Acquired(r) \/ GrammarRejected(r) \/ Warmed(r)
             \/ Failed(r) \/ NotRestarted(r)
             \/ Answered(r) \/ Cancelled(r)
      PROVE  FallbackInv'
  <2>1. UNCHANGED <<cpuFallback, server, mode>>
    BY <1>9 DEF Acquired, GrammarRejected, Warmed, Failed, NotRestarted, Answered,
       Cancelled,
                executeVars
  <2>2. calls' = calls \/ \E a \in {"ok", "error", "cancelled"} : Settle(r, a)
    BY <1>9 DEF Acquired, GrammarRejected, Warmed, Failed, NotRestarted, Answered,
       Cancelled,
                Execute, GiveUp
  <2> QED
    BY <1>1, <1>2, <1>4, <2>1, <2>2
<1>10. ASSUME NEW r \in Requests, OutOfMemory(r)
       PROVE  FallbackInv'
  <2>1. calls' = Append(calls, Call("stop", r)) /\ UNCHANGED <<server, mode>>
    BY <1>10 DEF OutOfMemory, Send, executeVars
  <2> QED
    BY <1>2, <2>1, OtherCalls DEF Callers
<1>11. ASSUME NEW r \in Requests, Stopped(r)
       PROVE  FallbackInv'
  BY <1>2, <1>5, <1>11 DEF Stopped, executeVars
<1>12. ASSUME NEW r \in Requests, Abort(r) \/ Released(r)
       PROVE  FallbackInv'
  BY <1>1, <1>12 DEF Abort, Released, serverVars
<1>13. ASSUME NEW s \in Closing, CloseSession(s)
       PROVE  FallbackInv'
  <2>1. calls' = Append(calls, Call("close", s)) /\ UNCHANGED <<cpuFallback, server, mode>>
    BY <1>13 DEF CloseSession, Send, serverVars
  <2> QED
    BY <1>2, <2>1, OtherCalls DEF Callers
<1>14. ASSUME NEW o \in Operators, StartEngine(o) \/ StopEngine(o)
       PROVE  FallbackInv'
  <2>1. UNCHANGED <<cpuFallback, server, mode>>
    BY <1>14 DEF StartEngine, StopEngine, operatorVars, serverVars
  <2>2. Send(StartCall(o, FALSE)) \/ calls' = Append(calls, Call("stop", o))
    BY <1>14 DEF StartEngine, StopEngine, Send
  <2> QED
    BY <1>2, <1>5, <2>1, <2>2, OtherCalls DEF Callers
<1>15. CASE Native
  <2>1. calls # <<>> /\ calls' = Tail(calls) /\ cpuFallback' = cpuFallback
    BY <1>15 DEF Native, NativeStart, NativeStop, NativeAcquire, NativeRelease,
       NativeClose, Serving
  <2>2. \/ server' = "none"
        \/ Head(calls).op # "stop" /\ UNCHANGED <<server, mode>>
        \/ Head(calls).op = "start" /\ mode' = IF Head(calls).cpu THEN "cpu" ELSE "gpu"
    BY <1>15 DEF Native, NativeStart, NativeStop, NativeAcquire, NativeRelease,
       NativeClose,
         Serving, NoServer, serverVars
  <2> QED
    BY <2>1, <2>2, FallbackRun DEF IInv
<1>16. CASE Tick
  <2>1. queue \in [Requests -> Nat] /\ UNCHANGED <<cpuFallback, server, mode>>
    BY <1>16 DEF IInv, TypeOK, Tick, serverVars
  <2>2. Idle \/ Sent
    <3> HIDE DEF Idle, Sent
    <3> QED
      BY <1>6, <1>16, <2>1 DEF Tick
  <2> QED
    BY <1>1, <1>2, <2>2
<1>17. CASE ServerLoads
  BY <1>17, FallbackIdle DEF ServerLoads
<1>18. CASE ServerDies
  BY <1>18 DEF ServerDies, NoServer, FallbackInv
<1> QED
  BY <1>3, <1>8, <1>9, <1>10, <1>11, <1>12, <1>13, <1>14, <1>15, <1>16, <1>17, <1>18
     DEF Next, Continue, Ends

(* Once memory has run out the GPU is not used again *)
THEOREM FallbackKept == Spec => []FallbackSticks
<1>1. Init => FallbackInv
  BY DEF Init, FallbackInv
<1>2. IInv /\ FallbackInv /\ [Next]_vars => FallbackInv'
  BY FallbackStep
<1>3. IInv /\ FallbackInv => FallbackSticks
  BY DEF IInv, TypeOK, FallbackInv, FallbackSticks
<1> QED
  BY <1>1, <1>2, <1>3, EngineInvariant, PTL DEF Spec

-----------------------------------------------------------------------------
(* The queue implements the service                                        *)

LEMMA ServedBySettle ==
  ASSUME IInv, NEW r \in Requests, pc[r] \in Calling, NEW a \in {"ok", "error", "cancelled"},
         Settle(r, a), UNCHANGED queueVars
  PROVE  Service!Answer
<1>1. active = r /\ answer[r] = "none"
  BY DEF IInv, OneHolds, AnswersMatch, Holding, Calling
<1> QED
  BY <1>1 DEF Service!Answer, Service!Answers, Settle, queueVars

LEMMA ServiceStep ==
  ASSUME IInv, [Next]_vars
  PROVE  [Service!Next]_Service!vars
<1> DEFINE Same == UNCHANGED <<queue, enqueued, active, answer>>
<1>1. Same => UNCHANGED Service!vars
  BY DEF Service!vars
<1>2. CASE UNCHANGED vars
  BY <1>1, <1>2 DEF vars, queueVars
<1>3. ASSUME NEW q \in [Requests -> Nat], NEW places, Process(q, places)
      PROVE  Service!Serve(q) \/ (queue' = q /\ UNCHANGED active)
  <2>1. Leaves(q, places) \/ \E f \in Requests : Takes(q, places, f)
    BY <1>3, ProcessTakes
  <2>2. ASSUME NEW f \in Requests, Takes(q, places, f)
        PROVE  Service!Serve(q)
    <3>1. f \in Service!Waiting(q) /\ f = Service!First(q)
      BY <2>2 DEF Takes, First, Service!Waiting
    <3> QED
      BY <2>2, <3>1 DEF Takes, Service!Serve
  <2> QED
    BY <2>1, <2>2 DEF Leaves
<1>4. ASSUME NEW r \in Requests, Enqueue(r), pc[r] \in {"new", "detecting", "polling"},
             UNCHANGED answer
      PROVE  Service!Join(r)
  <2>1. [queue EXCEPT ![r] = enqueued + 1] \in [Requests -> Nat]
    BY DEF IInv, TypeOK
  <2>2. \/ Service!Serve([queue EXCEPT ![r] = enqueued + 1])
        \/ queue' = [queue EXCEPT ![r] = enqueued + 1] /\ UNCHANGED active
    BY <1>3, <1>4, <2>1 DEF Enqueue
  <2>3. queue[r] = 0 /\ r # active /\ answer[r] = "none"
    <3>1. queue[r] \in Nat /\ ~(queue[r] > 0)
      BY <1>4 DEF IInv, TypeOK, QueueMatches
    <3>2. r # active
      BY <1>4 DEF IInv, OneHolds, Holding, Calling
    <3>3. answer[r] = "none"
      BY <1>4 DEF IInv, AnswersMatch
    <3> QED
      BY <3>1, <3>2, <3>3
  <2>4. enqueued' = enqueued + 1
    BY <1>4 DEF Enqueue
  <2> QED
    BY <1>4, <2>2, <2>3, <2>4 DEF Service!Join
<1>5. ASSUME NEW r \in Requests, Probe(r) \/ Detect(r) \/ Poll(r)
      PROVE  Service!Next \/ Same
  <2>1. UNCHANGED answer /\ pc[r] \in {"new", "detecting", "polling"}
    BY <1>5 DEF Probe, Detect, Poll, searchVars
  <2>2. Enqueue(r) \/ Same
    BY <1>5 DEF Probe, Detect, Poll, queueVars, searchVars
  <2> QED
    BY <1>4, <2>1, <2>2 DEF Service!Next
<1>6. ASSUME NEW r \in Requests,
             \/ Acquired(r) \/ GrammarRejected(r) \/ Warmed(r)
             \/ Failed(r) \/ NotRestarted(r)
             \/ Answered(r) \/ Cancelled(r)
      PROVE  Service!Next \/ Same
  <2>1. UNCHANGED queueVars /\ pc[r] \in Calling
    BY <1>6 DEF Acquired, GrammarRejected, Warmed, Failed, NotRestarted, Answered,
       Cancelled,
                executeVars, Calling
  <2>2. UNCHANGED answer \/ \E a \in {"ok", "error", "cancelled"} : Settle(r, a)
    BY <1>6 DEF Acquired, GrammarRejected, Warmed, Failed, NotRestarted, Answered,
       Cancelled,
                Execute, GiveUp
  <2> QED
    BY <2>1, <2>2, ServedBySettle DEF Service!Next, queueVars
<1>7. ASSUME NEW r \in Requests, OutOfMemory(r) \/ Stopped(r) \/ Abort(r)
      PROVE  Same
  BY <1>7 DEF OutOfMemory, Stopped, Abort, executeVars, queueVars
<1>8. ASSUME NEW r \in Requests, Released(r)
      PROVE  Service!Next
  <2>1. active = r /\ answer[r] # "none"
    BY <1>8 DEF Released, IInv, OneHolds, AnswersMatch, Holding
  <2> QED
    BY <1>8, <2>1 DEF Released, Service!Free, Service!Next
<1>9. ASSUME NEW s \in Closing, CloseSession(s)
      PROVE  Service!Next
  <2> DEFINE closed == {r \in Waiting(queue) : SessionOf[r] = s}
  <2>1. closed \in SUBSET Requests /\ closed \subseteq Service!Waiting(queue)
    BY DEF Waiting, Service!Waiting
  <2>2. Service!Withdraw(closed)
    BY <1>9, <2>1 DEF CloseSession, Service!Withdraw
  <2> QED
    BY <2>1, <2>2 DEF Service!Next
<1>10. ASSUME NEW o \in Operators, StartEngine(o) \/ StopEngine(o)
       PROVE  Same
  BY <1>10 DEF StartEngine, StopEngine, operatorVars, queueVars
<1>11. CASE Native
  BY <1>1, <1>11 DEF Native, NativeStart, NativeStop, NativeAcquire, NativeRelease,
     NativeClose,
       Serving, queueVars
<1>12. CASE Tick
  <2>1. queue \in [Requests -> Nat]
    BY DEF IInv, TypeOK
  <2>2. Service!Serve(queue) \/ (queue' = queue /\ UNCHANGED active)
    BY <1>3, <1>12, <2>1 DEF Tick
  <2> QED
    BY <1>1, <1>12, <2>2 DEF Tick, Service!Take, Service!Next
<1>13. CASE ServerLoads \/ ServerDies
  BY <1>1, <1>13 DEF ServerLoads, ServerDies, queueVars
<1> QED
  BY <1>1, <1>2, <1>5, <1>6, <1>7, <1>8, <1>9, <1>10, <1>11, <1>12, <1>13
     DEF Next, Continue, Ends

(* Requests are served one at a time, first come first served, and each is *)
(* answered once                                                           *)
THEOREM ServiceImplemented == Spec => FirstComeFirstServed
<1>1. Init => Service!Init
  BY DEF Init, Service!Init
<1>2. IInv /\ [Next]_vars => [Service!Next]_Service!vars
  BY ServiceStep
<1> QED
  BY <1>1, <1>2, EngineInvariant, PTL DEF Spec, Service!Spec, FirstComeFirstServed

-----------------------------------------------------------------------------
(* Retries run out                                                         *)

Descends(t) ==
  /\ StepsLeft(t)' <= StepsLeft(t)
  /\ pc'[t] # pc[t] \/ (t \in grammar /\ t \notin grammar') => StepsLeft(t)' < StepsLeft(t)

(* The fallback and a grammar once given up are not taken back             *)
Spent == grammar' \subseteq grammar /\ (cpuFallback => cpuFallback')

LEMMA AheadIsNatural ==
  ASSUME NEW place
  PROVE  StepsAhead(place) \in 0..18
BY DEF StepsAhead

(* A request that gets nearer to its end, or stays with what it has        *)
LEMMA NearerDescends ==
  ASSUME NEW t, Spent, StepsAhead(pc'[t]) < StepsAhead(pc[t])
  PROVE  Descends(t)
BY AheadIsNatural DEF Spent, Descends, StepsLeft

LEMMA StayingDescends ==
  ASSUME NEW t, Spent, pc'[t] = pc[t]
  PROVE  Descends(t)
BY AheadIsNatural DEF Spent, Descends, StepsLeft

(* The request the queue takes moves on, the others stay                   *)
LEMMA ProcessDescends ==
  ASSUME TypeOK, NEW q \in [Requests -> Nat], NEW places \in [Requests -> Places],
         Process(q, places),
         \A t \in Requests : q[t] > 0 => StepsAhead("acquiring") < StepsAhead(pc[t]),
         \A t \in Requests : places[t] = pc[t] \/ StepsAhead(places[t]) < StepsAhead(pc[t])
  PROVE  \A t \in Requests : pc'[t] = pc[t] \/ StepsAhead(pc'[t]) < StepsAhead(pc[t])
<1>1. CASE Leaves(q, places)
  BY <1>1 DEF Leaves
<1>2. ASSUME NEW f \in Requests, Takes(q, places, f)
      PROVE  \A t \in Requests : pc'[t] = pc[t] \/ StepsAhead(pc'[t]) < StepsAhead(pc[t])
  BY <1>2 DEF Takes
<1> QED
  BY <1>1, <1>2, ProcessTakes

LEMMA EnqueueDescends ==
  ASSUME IInv, NEW r \in Requests, pc[r] \in {"new", "detecting", "polling"}, Enqueue(r)
  PROVE  \A t \in Requests : pc'[t] = pc[t] \/ StepsAhead(pc'[t]) < StepsAhead(pc[t])
<1> DEFINE q == [queue EXCEPT ![r] = enqueued + 1]
           places == [pc EXCEPT ![r] = "queued"]
<1>1. q \in [Requests -> Nat] /\ places \in [Requests -> Places]
  BY DEF IInv, TypeOK, Places
<1>2. \A t \in Requests : q[t] > 0 => StepsAhead("acquiring") < StepsAhead(pc[t])
  BY DEF IInv, TypeOK, QueueMatches, StepsAhead
<1>3. \A t \in Requests : places[t] = pc[t] \/ StepsAhead(places[t]) < StepsAhead(pc[t])
  BY DEF IInv, TypeOK, StepsAhead
<1>4. Process(q, places)
  BY DEF Enqueue
<1> QED
  <2> HIDE DEF q, places
  <2> QED
    BY <1>1, <1>2, <1>3, <1>4, ProcessDescends DEF IInv

(* A step of the request itself: it moves nearer to its end or, with a     *)
(* grammar or the fallback spent, back to the server                       *)
LEMMA OwnStepDescends ==
  ASSUME IInv, NEW r \in Requests, Continue(r) \/ Probe(r), ~Enqueue(r)
  PROVE  \A t \in Requests : Descends(t)
<1> USE DEF Execute, GiveUp, Settle
<1>1. pc \in [Requests -> Places] /\ grammar \subseteq Requests /\ cpuFallback \in BOOLEAN
      /\ phase \in [Requests -> {"chat", "completion"}]
  BY DEF IInv, TypeOK
<1> DEFINE Nearer == StepsAhead(pc'[r]) < StepsAhead(pc[r])
           OthersStay == \A t \in Requests : t # r => pc'[t] = pc[t]
<1>2. Spent /\ OthersStay /\ Nearer => \A t \in Requests : Descends(t)
  BY NearerDescends, StayingDescends
<1>5. CASE Probe(r) \/ Detect(r) \/ Poll(r)
  <2>1. grammar' = grammar /\ cpuFallback' = cpuFallback
    BY <1>5 DEF Probe, Detect, Poll, searchVars, requestVars
  <2>2. OthersStay
    BY <1>1, <1>5 DEF Probe, Detect, Poll
  <2>3. \/ pc[r] = "new" /\ pc'[r] = "detecting"
        \/ pc[r] = "detecting" /\ pc'[r] \in {"unserved", "booting"}
        \/ pc[r] = "polling" /\ pc'[r] = "unserved"
    BY <1>1, <1>5 DEF Probe, Detect, Poll
  <2>4. Nearer
    BY <2>3 DEF StepsAhead
  <2> QED
    BY <1>2, <2>1, <2>2, <2>4 DEF Spent
<1>6. CASE Acquired(r) \/ Answered(r) \/ Cancelled(r) \/ Failed(r)
  <2>1. Spent
    BY <1>6 DEF Spent, Acquired, Answered, Cancelled, Failed
  <2>2. OthersStay
    BY <1>1, <1>6 DEF Acquired, Answered, Cancelled, Failed
  <2>3. Nearer
    BY <1>1, <1>6 DEF Acquired, Answered, Cancelled, Failed, StepsAhead
  <2> QED
    BY <1>2, <2>1, <2>2, <2>3
<1>7. CASE Stopped(r) \/ NotRestarted(r) \/ Warmed(r) \/ Released(r)
  <2>1. (grammar' = grammar \/ grammar' = grammar \ {r}) /\ cpuFallback' = cpuFallback
    BY <1>7 DEF Stopped, NotRestarted, Warmed, Released, Forget
  <2>2. OthersStay
    BY <1>1, <1>7 DEF Stopped, NotRestarted, Warmed, Released
  <2>3. \/ pc[r] = "stopped" /\ pc'[r] = "starting"
        \/ pc[r] = "failed" /\ pc'[r] \in {"completion", "releasing"}
        \/ pc[r] = "warming" /\ pc'[r] \in {"chat", "releasing"}
        \/ pc[r] = "released" /\ pc'[r] = "done"
    BY <1>1, <1>7 DEF Stopped, NotRestarted, Warmed, Released
  <2>4. Nearer
    BY <2>3 DEF StepsAhead
  <2> QED
    BY <1>2, <2>1, <2>2, <2>4 DEF Spent
<1>3. CASE GrammarRejected(r)
  <2>1. grammar' = grammar \ {r} /\ r \in grammar /\ cpuFallback' = cpuFallback
    BY <1>3 DEF GrammarRejected
  <2>2. \A t \in Requests : t # r => pc'[t] = pc[t]
    BY <1>1, <1>3 DEF GrammarRejected
  <2>3. pc'[r] = "chat" /\ pc[r] = "chat"
    BY <1>1, <1>3 DEF GrammarRejected
  <2>4. Descends(r)
    BY <2>1, <2>3, AheadIsNatural DEF Descends, StepsLeft
  <2> QED
    BY <2>1, <2>2, <2>4, StayingDescends DEF Spent
<1>4. CASE OutOfMemory(r)
  <2>1. cpuFallback = FALSE /\ cpuFallback' = TRUE /\ grammar' = grammar
    BY <1>1, <1>4 DEF OutOfMemory
  <2>2. \A t \in Requests : t # r => pc'[t] = pc[t]
    BY <1>1, <1>4 DEF OutOfMemory
  <2>3. StepsAhead(pc'[r]) < StepsAhead(pc[r]) + 6
    BY <1>1, <1>4 DEF OutOfMemory, StepsAhead
  <2>4. Descends(r)
    BY <2>1, <2>3, AheadIsNatural DEF Descends, StepsLeft
  <2> QED
    BY <2>1, <2>2, <2>4, StayingDescends DEF Spent
<1> QED
  BY <1>3, <1>4, <1>5, <1>6, <1>7 DEF Continue, Ends

LEMMA RetriesStep ==
  ASSUME IInv, [Next]_vars
  PROVE  \A t \in Requests : Descends(t)
<1> DEFINE Kept == grammar' = grammar /\ cpuFallback' = cpuFallback
           Moves == \A t \in Requests : pc'[t] = pc[t] \/ StepsAhead(pc'[t]) < StepsAhead(pc[t])
<1>1. Kept /\ Moves => \A t \in Requests : Descends(t)
  BY NearerDescends, StayingDescends DEF Spent
<1>2. CASE UNCHANGED vars
  BY <1>1, <1>2 DEF vars, requestVars
<1>3. ASSUME NEW r \in Requests, Probe(r) \/ Continue(r), Enqueue(r)
      PROVE  \A t \in Requests : Descends(t)
  <2>2. enqueued' # enqueued
    BY <1>3 DEF Enqueue, IInv, TypeOK
  <2>3. Probe(r) \/ Detect(r) \/ Poll(r)
    BY <1>3, <2>2 DEF Continue, Ends, Acquired, Answered, Cancelled, GrammarRejected, Failed,
       OutOfMemory, Stopped, NotRestarted, Warmed, Released, executeVars, queueVars
  <2>4. Kept /\ pc[r] \in {"new", "detecting", "polling"}
    BY <2>3 DEF Probe, Detect, Poll, searchVars, requestVars
  <2> QED
    BY <1>1, <1>3, <2>4, EnqueueDescends
<1>4. ASSUME NEW r \in Requests, Probe(r) \/ Continue(r), ~Enqueue(r)
      PROVE  \A t \in Requests : Descends(t)
  BY <1>4, OwnStepDescends
<1>5. ASSUME NEW r \in Requests, Abort(r)
      PROVE  \A t \in Requests : Descends(t)
  BY <1>1, <1>5 DEF Abort
<1>6. CASE Tick
  <2>1. Process(queue, pc) /\ Kept
    BY <1>6 DEF Tick, requestVars
  <2>2. \A t \in Requests : queue[t] > 0 => StepsAhead("acquiring") < StepsAhead(pc[t])
    BY DEF IInv, QueueMatches, StepsAhead
  <2>3. Moves
    BY <2>1, <2>2, ProcessDescends DEF IInv, TypeOK
  <2> QED
    BY <1>1, <2>1, <2>3
<1>7. ASSUME NEW s \in Closing, CloseSession(s)
      PROVE  \A t \in Requests : Descends(t)
  <2>1. Kept
    BY <1>7 DEF CloseSession, requestVars
  <2>2. \A t \in Requests : pc'[t] = pc[t] \/ (queue[t] > 0 /\ pc'[t] = "done")
    BY <1>7 DEF CloseSession, Waiting, Service!Waiting
  <2>3. Moves
    BY <2>2 DEF IInv, QueueMatches, StepsAhead
  <2> QED
    BY <1>1, <2>1, <2>3
<1>8. ASSUME NEW o \in Operators, StartEngine(o) \/ StopEngine(o)
      PROVE  \A t \in Requests : Descends(t)
  BY <1>1, <1>8 DEF StartEngine, StopEngine, operatorVars, requestVars
<1>9. CASE Native
  <2>1. Kept /\ calls # <<>>
    BY <1>9 DEF Native, NativeStart, NativeStop, NativeAcquire, NativeRelease, NativeClose,
       Serving, requestVars
  <2>2. pc' = pc \/ \E ok \in BOOLEAN : Reply(Head(calls).by, ok)
    BY <1>9 DEF Native, NativeStart, NativeStop, NativeAcquire, NativeRelease, NativeClose
  <2>3. \A t \in Requests : t = Head(calls).by => Awaiting(pc[t])
    BY <2>1, HeadCall DEF IInv, Awaits, Awaiting
  <2>4. Moves
    <3>1. ASSUME NEW ok \in BOOLEAN, Reply(Head(calls).by, ok)
          PROVE  Moves
      <4>1. TypeOK
        BY DEF IInv
      <4> QED
        BY <2>3, <3>1, <4>1, Replies DEF Awaiting, StepsAhead
    <3> QED
      BY <2>2, <3>1
  <2> QED
    BY <1>1, <2>1, <2>4
<1>10. CASE ServerLoads \/ ServerDies
  BY <1>1, <1>10 DEF ServerLoads, ServerDies, requestVars
<1> QED
  BY <1>2, <1>3, <1>4, <1>5, <1>6, <1>7, <1>8, <1>9, <1>10 DEF Next

(* A request takes a bounded number of steps, whatever else is served,     *)
(* restarted or closed meanwhile                                           *)
THEOREM RetriesBounded == Spec => RetriesRunOut
<1>1. IInv /\ [Next]_vars => [\A r \in Requests : Descends(r)]_vars
  BY RetriesStep
<1> QED
  BY <1>1, EngineInvariant, PTL DEF Spec, RetriesRunOut, Descends

-----------------------------------------------------------------------------
(* Nobody waits for a reply that does not come                             *)

Reached == \A r \in Requests : Awaiting(pc[r]) => \E i \in DOMAIN calls : calls[i].by = r

LEMMA ReachedKept ==
  ASSUME Reached, calls' = calls, \A r \in Requests : Awaiting(pc'[r]) => Awaiting(pc[r])
  PROVE  Reached'
BY DEF Reached

LEMMA ReachedSent ==
  ASSUME TypeOK, Reached, NEW call, calls' = Append(calls, call),
         \A r \in Requests : Awaiting(pc'[r]) => Awaiting(pc[r]) \/ r = call.by
  PROVE  Reached'
<1>1. /\ Len(calls') \in DOMAIN calls' /\ calls'[Len(calls')] = call
      /\ \A i \in DOMAIN calls : i \in DOMAIN calls' /\ calls'[i] = calls[i]
  BY DEF TypeOK
<1> QED
  BY <1>1 DEF Reached

LEMMA ReachedReplied ==
  ASSUME TypeOK, Reached, calls # <<>>, calls' = Tail(calls),
         \A r \in Requests : Awaiting(pc'[r]) => Awaiting(pc[r]) /\ r # Head(calls).by
  PROVE  Reached'
<1>1. /\ Head(calls) = calls[1]
      /\ \A i \in DOMAIN calls : i # 1 => i - 1 \in DOMAIN calls' /\ calls'[i - 1] = calls[i]
  BY DEF TypeOK
<1>2. ASSUME NEW r \in Requests, Awaiting(pc'[r])
      PROVE  \E i \in DOMAIN calls' : calls'[i].by = r
  <2>1. PICK i \in DOMAIN calls : calls[i].by = r /\ i # 1
    BY <1>1, <1>2 DEF Reached
  <2> QED
    BY <1>1, <2>1
<1> QED
  BY <1>2 DEF Reached

LEMMA ReachedProcess ==
  ASSUME TypeOK, Reached, NEW q \in [Requests -> Nat], NEW places \in [Requests -> Places],
         Process(q, places),
         \A r \in Requests : Awaiting(places[r]) => Awaiting(pc[r])
  PROVE  Reached'
<1>1. CASE Leaves(q, places)
  BY <1>1, ReachedKept DEF Leaves
<1>2. ASSUME NEW f \in Requests, Takes(q, places, f)
      PROVE  Reached'
  <2> DEFINE call == [op |-> "acquire", by |-> f, cpu |-> FALSE]
  <2>1. calls' = Append(calls, call) /\ call.by = f
    BY <1>2 DEF Takes
  <2>2. \A r \in Requests : Awaiting(pc'[r]) => Awaiting(pc[r]) \/ r = f
    BY <1>2 DEF Takes
  <2> QED
    BY <2>1, <2>2, ReachedSent
<1> QED
  BY <1>1, <1>2, ProcessTakes

LEMMA ReachedStep ==
  ASSUME IInv, Reached, [Next]_vars
  PROVE  Reached'
<1> USE DEF Awaiting
<1>1. TypeOK /\ pc \in [Requests -> Places]
  BY DEF IInv, TypeOK
<1>2. CASE UNCHANGED vars
  BY <1>2, ReachedKept DEF vars
<1>3. ASSUME NEW r \in Requests, Probe(r) \/ Detect(r) \/ Poll(r)
      PROVE  Reached'
  <2>1. CASE Enqueue(r)
    <3> DEFINE q == [queue EXCEPT ![r] = enqueued + 1]
               places == [pc EXCEPT ![r] = "queued"]
    <3>1. q \in [Requests -> Nat] /\ places \in [Requests -> Places]
      BY DEF IInv, TypeOK, Places
    <3>2. Process(q, places) /\ \A t \in Requests : Awaiting(places[t]) => Awaiting(pc[t])
      BY <1>1, <2>1 DEF Enqueue
    <3> HIDE DEF q, places
    <3> QED
      BY <1>1, <3>1, <3>2, ReachedProcess
  <2>2. CASE calls' = calls /\ \E p \in {"detecting", "unserved"} : pc' = [pc EXCEPT ![r] = p]
    BY <1>1, <2>2, ReachedKept
  <2>3. CASE Send(StartCall(r, FALSE)) /\ pc' = [pc EXCEPT ![r] = "booting"]
    BY <1>1, <2>3, ReachedSent DEF Send, StartCall
  <2> QED
    BY <1>3, <2>1, <2>2, <2>3 DEF Probe, Detect, Poll
<1>4. ASSUME NEW r \in Requests,
             \/ Acquired(r) \/ Answered(r) \/ Cancelled(r) \/ GrammarRejected(r)
             \/ Failed(r) \/ NotRestarted(r) \/ Warmed(r)
      PROVE  Reached'
  <2>1. \/ \E a \in {"ok", "error", "cancelled"} : Settle(r, a)
        \/ calls' = calls /\ \E p \in {"chat", "completion"} : pc' = [pc EXCEPT ![r] = p]
    BY <1>4 DEF Acquired, Answered, Cancelled, GrammarRejected, Failed, NotRestarted, Warmed,
       Execute, GiveUp
  <2>2. CASE \E a \in {"ok", "error", "cancelled"} : Settle(r, a)
    BY <1>1, <2>2, ReachedSent DEF Settle, Send, Call
  <2>3. CASE calls' = calls /\ \E p \in {"chat", "completion"} : pc' = [pc EXCEPT ![r] = p]
    BY <1>1, <2>3, ReachedKept
  <2> QED
    BY <2>1, <2>2, <2>3
<1>5. ASSUME NEW r \in Requests, OutOfMemory(r) \/ Stopped(r)
      PROVE  Reached'
  BY <1>1, <1>5, ReachedSent DEF OutOfMemory, Stopped, Send, Call, StartCall
<1>6. ASSUME NEW r \in Requests, Released(r) \/ Abort(r)
      PROVE  Reached'
  BY <1>1, <1>6, ReachedKept DEF Released, Abort
<1>7. CASE Tick
  <2>1. Process(queue, pc) /\ queue \in [Requests -> Nat]
    BY <1>7 DEF Tick, IInv, TypeOK
  <2> QED
    BY <1>1, <2>1, ReachedProcess
<1>8. ASSUME NEW s \in Closing, CloseSession(s)
      PROVE  Reached'
  <2>1. \A t \in Requests : Awaiting(pc'[t]) => Awaiting(pc[t])
    BY <1>8 DEF CloseSession
  <2> QED
    BY <1>1, <1>8, <2>1, ReachedSent DEF CloseSession, Send
<1>9. ASSUME NEW o \in Operators, StartEngine(o) \/ StopEngine(o)
      PROVE  Reached'
  BY <1>1, <1>9, ReachedSent DEF StartEngine, StopEngine, Send, operatorVars
<1>10. CASE Native
  <2>1. calls # <<>> /\ calls' = Tail(calls)
    BY <1>10 DEF Native, NativeStart, NativeStop, NativeAcquire, NativeRelease, NativeClose,
       Serving
  <2>2. \/ \E ok \in BOOLEAN : Reply(Head(calls).by, ok)
        \/ pc' = pc /\ Head(calls).op = "close"
    BY <1>10 DEF Native, NativeStart, NativeStop, NativeAcquire, NativeRelease, NativeClose,
       Serving
  <2>3. Sorted(Head(calls)) /\ (Head(calls).by \in Requests => Awaiting(pc[Head(calls).by]))
    BY <2>1, HeadCall DEF IInv, Awaits
  <2>4. \A r \in Requests : Awaiting(pc'[r]) => Awaiting(pc[r]) /\ r # Head(calls).by
    <3>1. CASE pc' = pc /\ Head(calls).op = "close"
      BY <2>3, <3>1, EngineAssumption DEF Sorted
    <3>2. ASSUME NEW ok \in BOOLEAN, Reply(Head(calls).by, ok)
          PROVE  \A r \in Requests : Awaiting(pc'[r]) => Awaiting(pc[r]) /\ r # Head(calls).by
      BY <1>1, <2>3, <3>2, Replies
    <3> QED
      BY <2>2, <3>1, <3>2
  <2> QED
    BY <1>1, <2>1, <2>4, ReachedReplied
<1>11. CASE ServerLoads \/ ServerDies
  BY <1>1, <1>11, ReachedKept DEF ServerLoads, ServerDies
<1> QED
  BY <1>2, <1>3, <1>4, <1>5, <1>6, <1>7, <1>8, <1>9, <1>10, <1>11 DEF Next, Continue, Ends

(* A request at an await of a native command has that command on its way   *)
THEOREM NobodyStranded == Spec => []NobodyIsStranded
<1>1. Init => Reached
  BY DEF Init, Reached, Awaiting
<1>2. IInv /\ Reached /\ [Next]_vars => Reached'
  BY ReachedStep
<1>3. IInv /\ Reached => NobodyIsStranded
  <2> SUFFICES ASSUME IInv, Reached, NEW r \in Requests, pc[r] \in DOMAIN AwaitedOp
               PROVE  \E i \in DOMAIN calls :
                        calls[i].by = r /\ calls[i].op = AwaitedOp[pc[r]]
    BY DEF NobodyIsStranded
  <2>1. Awaiting(pc[r])
    BY DEF AwaitedOp, Awaiting
  <2>2. PICK i \in DOMAIN calls : calls[i].by = r
    BY <2>1 DEF Reached
  <2>3. Awaits(pc[r], calls[i].op)
    BY <2>2 DEF IInv, CallsMatch
  <2>4. calls[i].op = AwaitedOp[pc[r]]
    BY <2>3 DEF Awaits, AwaitedOp
  <2> QED
    BY <2>2, <2>4
<1> QED
  BY <1>1, <1>2, <1>3, EngineInvariant, PTL DEF Spec
=============================================================================
