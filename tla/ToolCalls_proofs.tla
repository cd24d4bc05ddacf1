-------------------------- MODULE ToolCalls_proofs --------------------------
(***************************************************************************)
(* Proofs about ToolCalls, for any number of calls and sessions            *)
(***************************************************************************)
EXTENDS ToolCalls, ConsentQueue_proofs

(* Every step of a call is a step of the consent queue, or none of it *)
LEMMA QueueStep ==
  ASSUME [Next]_vars
  PROVE  [ConsentNext]_consentVars
<1>1. CASE CallStep
  BY <1>1 DEF CallStep, BeginAborted, Begin, Conclude, TimeOut, Abort, DriverTimeOut,
              ConsentNext, consentVars
<1>2. CASE UserStep
  BY <1>2 DEF UserStep, Approve, Deny, Unmount, Mount, UnmountBeforeSession, ConsentNext
<1>3. ASSUME NEW c \in Calls, CommandStep(c)
      PROVE  UNCHANGED consentVars
  BY <1>3 DEF CommandStep, Spawn, Register, Exit, CommandTimeOut, Report, Reply, consentVars
<1>4. CASE CancelStep
  BY <1>4 DEF CancelStep, CancelLookUp, CancelMark, CancelKill, ForceKill, consentVars
<1>5. CASE UNCHANGED vars
  BY <1>5 DEF vars
<1> QED
  BY <1>1, <1>2, <1>3, <1>4, <1>5 DEF Next

(* The calls use the consent queue as its specification says *)
THEOREM UsesQueue == Spec => UsesConsentQueue
<1>1. Init => ConsentInit
  BY DEF Init
<1> QED
  BY <1>1, QueueStep, PTL DEF Spec, UsesConsentQueue, ConsentSpec

(* In front of the calls too a dialog shows the oldest request of its tab *)
THEOREM DialogOfCalls == Spec => []DialogIsCurrent
  BY UsesQueue, DialogCurrent, PTL DEF UsesConsentQueue

-----------------------------------------------------------------------------
(* A step of the calls keeps the types *)
LEMMA TypeStep ==
  ASSUME TypeOK, [Next]_vars, DialogIsCurrent
  PROVE  TypeOK'
<1> USE ConsentAssumption, AbortableAssumption
<1>q. ConsentTypeOK'
  BY QueueStep, ConsentTypeStep DEF TypeOK
<1>d. \A s \in Sessions : dialog[s] # NoCall => dialog[s] \in Calls
  BY DEF TypeOK, ConsentTypeOK
<1> USE <1>q DEF TypeOK
<1>1. CASE CallStep
  <2>1. ASSUME NEW c \in Calls, BeginAborted(c)  PROVE TypeOK'
    BY <2>1 DEF BeginAborted, CancelDriver, nativeVars
  <2>2. ASSUME NEW c \in Calls, Begin(c)  PROVE TypeOK'
    BY <2>2 DEF Begin, Drive
  <2>3. ASSUME NEW c \in Calls, Conclude(c)  PROVE TypeOK'
    BY <2>3 DEF Conclude, nativeVars
  <2>4. ASSUME NEW c \in Calls, TimeOut(c)  PROVE TypeOK'
    BY <2>4 DEF TimeOut, CancelDriver, nativeVars
  <2>5. ASSUME NEW c \in Calls, Abort(c)  PROVE TypeOK'
    BY <2>5 DEF Abort, CancelDriver, nativeVars
  <2>6. ASSUME NEW c \in Calls, DriverTimeOut(c)  PROVE TypeOK'
    BY <2>6 DEF DriverTimeOut, CancelDriver, nativeVars
  <2> QED
    BY <1>1, <2>1, <2>2, <2>3, <2>4, <2>5, <2>6 DEF CallStep
<1>2. CASE UserStep
  <2>1. ASSUME NEW s \in Sessions, Approve(s)  PROVE TypeOK'
    BY <1>d, <2>1 DEF Approve, AnswerFromDialog, Drive
  <2>2. ASSUME NEW s \in Sessions, Deny(s) \/ Unmount(s) \/ Mount(s)  PROVE TypeOK'
    BY <2>2 DEF Deny, Unmount, Mount, Refuse, callVars, nativeVars
  <2>3. ASSUME UnmountBeforeSession  PROVE TypeOK'
    BY <2>3 DEF UnmountBeforeSession, Refuse, nativeVars
  <2> QED
    BY <1>2, <2>1, <2>2, <2>3 DEF UserStep
<1>3. ASSUME NEW c \in Calls, CommandStep(c)
      PROVE  TypeOK'
  <2>1. CASE Spawn(c) \/ Register(c) \/ Exit(c) \/ CommandTimeOut(c)
    BY <2>1 DEF Spawn, Register, Exit, CommandTimeOut, callVars
  <2>2. CASE Report(c) \/ Reply(c)
    BY <2>2 DEF Report, Reply, callVars
  <2> QED
    BY <1>3, <2>1, <2>2 DEF CommandStep
<1>4. CASE CancelStep
  BY <1>4 DEF CancelStep, CancelLookUp, CancelMark, CancelKill, ForceKill, callVars, nativeVars
<1>5. CASE UNCHANGED vars
  BY <1>5 DEF vars, callVars, nativeVars
<1> QED
  BY <1>1, <1>2, <1>3, <1>4, <1>5 DEF Next

(* Every variable of the calls keeps its type *)
THEOREM ToolTypeCorrect == Spec => []TypeOK
<1>1. Init => TypeOK
  BY ConsentAssumption DEF Init, TypeOK, ConsentInit, ConsentTypeOK
<1> QED
  BY <1>1, TypeStep, DialogOfCalls, PTL DEF Spec

-----------------------------------------------------------------------------
(* Where the execution of a call is and where its command is agree.  A     *)
(* call that was not begun, waits for the user or was refused has no       *)
(* command; while the driver works the command has not come back.          *)
StagesAgree ==
  \A c \in Calls :
    /\ outcome[c] \in {"new", "aborted"} => stage[c] = "idle"
    /\ stage[c] \in {"idle", "asking", "refused"} => proc[c] = "none"
    /\ stage[c] = "driving" => proc[c] \notin {"none", "done"}
    /\ stage[c] = "succeeded" => proc[c] = "done" /\ output[c] = "ok"
    /\ stage[c] = "failed" => proc[c] # "none"
    /\ outcome[c] = "success" => stage[c] = "over" /\ proc[c] = "done"
    /\ outcome[c] = "declined" => stage[c] = "over"

CallInv == StagesAgree /\ OutcomeIsHonest /\ RunToCancelIsPending

(* A request is pending as long as its execution waits *)
LEMMA AwaitedStep ==
  ASSUME TypeOK, DialogIsCurrent, PendingIsAwaited, StagesAgree, [Next]_vars
  PROVE  PendingIsAwaited'
<1>d. \A s \in Sessions : dialog[s] # NoCall => dialog[s] \in pendingRequests
  BY DEF DialogIsCurrent, Matching
<1> USE DEF TypeOK, ConsentTypeOK, PendingIsAwaited
<1>1. CASE CallStep
  <2>1. ASSUME NEW c \in Calls, Begin(c)  PROVE PendingIsAwaited'
    <3>1. c \notin pendingRequests
      BY <2>1 DEF Begin, StagesAgree
    <3> QED
      BY <2>1, <3>1 DEF Begin, Ask, Drive, consentVars
  <2>2. ASSUME NEW c \in Calls, Conclude(c)  PROVE PendingIsAwaited'
    BY <2>2 DEF Conclude, consentVars
  <2>3. ASSUME NEW c \in Calls, DriverTimeOut(c)  PROVE PendingIsAwaited'
    BY <2>3 DEF DriverTimeOut, consentVars
  <2>4. ASSUME NEW c \in Calls, BeginAborted(c) \/ TimeOut(c) \/ Abort(c)
        PROVE  PendingIsAwaited'
    BY <2>4 DEF BeginAborted, TimeOut, Abort, consentVars
  <2> QED
    BY <1>1, <2>1, <2>2, <2>3, <2>4 DEF CallStep
<1>2. CASE UserStep
  <2>1. ASSUME NEW s \in Sessions, Approve(s)  PROVE PendingIsAwaited'
    BY <1>d, <2>1 DEF Approve, AnswerFromDialog, Drive
  <2>2. ASSUME NEW s \in Sessions, Deny(s)  PROVE PendingIsAwaited'
    BY <1>d, <2>2 DEF Deny, AnswerFromDialog, Refuse
  <2>3. ASSUME NEW s \in Sessions, Unmount(s)  PROVE PendingIsAwaited'
    BY <2>3 DEF Unmount, Unsubscribe, OfTab, Refuse
  <2>4. ASSUME NEW s \in Sessions, Mount(s)  PROVE PendingIsAwaited'
    BY <2>4 DEF Mount, Subscribe, callVars
  <2>5. ASSUME UnmountBeforeSession  PROVE PendingIsAwaited'
    BY <2>5 DEF UnmountBeforeSession, ClearAll, Refuse
  <2> QED
    BY <1>2, <2>1, <2>2, <2>3, <2>4, <2>5 DEF UserStep
<1>3. ASSUME NEW c \in Calls, CommandStep(c)
      PROVE  PendingIsAwaited'
  BY <1>3 DEF CommandStep, Spawn, Register, Exit, CommandTimeOut, Report, Reply,
              consentVars, callVars
<1>4. CASE CancelStep
  BY <1>4 DEF CancelStep, CancelLookUp, CancelMark, CancelKill, ForceKill,
              consentVars, callVars
<1>5. CASE UNCHANGED vars
  BY <1>5 DEF vars, consentVars, callVars
<1> QED
  BY <1>1, <1>2, <1>3, <1>4, <1>5 DEF Next

-----------------------------------------------------------------------------
(* A step of the calls keeps stages, commands and outcomes in agreement *)
LEMMA CallInvStep ==
  ASSUME TypeOK, DialogIsCurrent, PendingIsAwaited, CallInv, [Next]_vars
  PROVE  CallInv'
<1> USE ConsentAssumption
<1>d. \A s \in Sessions : dialog[s] # NoCall => dialog[s] \in Calls /\ stage[dialog[s]] = "asking"
  BY DEF DialogIsCurrent, Matching, PendingIsAwaited
<1>p. \A c \in pendingRequests : c \in Calls /\ stage[c] = "asking"
  BY DEF PendingIsAwaited
<1> USE DEF TypeOK, CallInv, StagesAgree, OutcomeIsHonest, RunToCancelIsPending
<1>1. CASE CallStep
  <2>1. ASSUME NEW c \in Calls, BeginAborted(c)  PROVE CallInv'
    BY <2>1 DEF BeginAborted, nativeVars
  <2>2. ASSUME NEW c \in Calls, Begin(c)  PROVE CallInv'
    BY <2>2 DEF Begin, Drive
  <2>3. ASSUME NEW c \in Calls, Conclude(c)  PROVE CallInv'
    BY <2>3 DEF Conclude, nativeVars
  <2>4. ASSUME NEW c \in Calls, TimeOut(c)  PROVE CallInv'
    BY <2>4 DEF TimeOut, nativeVars
  <2>5. ASSUME NEW c \in Calls, Abort(c)  PROVE CallInv'
    BY <2>5 DEF Abort, nativeVars
  <2>6. ASSUME NEW c \in Calls, DriverTimeOut(c)  PROVE CallInv'
    BY <2>6 DEF DriverTimeOut, nativeVars
  <2> QED
    BY <1>1, <2>1, <2>2, <2>3, <2>4, <2>5, <2>6 DEF CallStep
<1>2. CASE UserStep
  <2>1. ASSUME NEW s \in Sessions, Approve(s)  PROVE CallInv'
    BY <1>d, <2>1 DEF Approve, AnswerFromDialog, Drive
  <2>2. ASSUME NEW s \in Sessions, Deny(s)  PROVE CallInv'
    BY <1>d, <2>2 DEF Deny, AnswerFromDialog, Refuse, nativeVars
  <2>3. ASSUME NEW s \in Sessions, Unmount(s)  PROVE CallInv'
    BY <1>p, <2>3 DEF Unmount, OfTab, Refuse, nativeVars
  <2>4. ASSUME NEW s \in Sessions, Mount(s)  PROVE CallInv'
    BY <2>4 DEF Mount, callVars, nativeVars
  <2>5. ASSUME UnmountBeforeSession  PROVE CallInv'
    BY <1>p, <2>5 DEF UnmountBeforeSession, Refuse, nativeVars
  <2> QED
    BY <1>2, <2>1, <2>2, <2>3, <2>4, <2>5 DEF UserStep
<1>3. ASSUME NEW c \in Calls, CommandStep(c)
      PROVE  CallInv'
  <2>1. CASE Spawn(c)
    BY <2>1 DEF Spawn, callVars
  <2>2. CASE Register(c) \/ Exit(c) \/ CommandTimeOut(c)
    BY <2>2 DEF Register, Exit, CommandTimeOut, callVars
  <2>3. CASE Report(c)
    BY <2>3 DEF Report, callVars
  <2>4. CASE Reply(c)
    BY <2>4 DEF Reply
  <2> QED
    BY <1>3, <2>1, <2>2, <2>3, <2>4 DEF CommandStep
<1>4. CASE CancelStep
  BY <1>4 DEF CancelStep, CancelLookUp, CancelMark, CancelKill, ForceKill, callVars, nativeVars
<1>5. CASE UNCHANGED vars
  BY <1>5 DEF vars, callVars, nativeVars
<1> QED
  BY <1>1, <1>2, <1>3, <1>4, <1>5 DEF Next

(* Stages, commands and outcomes always agree *)
LEMMA CallsAgree == Spec => [](PendingIsAwaited /\ CallInv)
<1>1. Init => PendingIsAwaited /\ CallInv
  BY DEF Init, ConsentInit, PendingIsAwaited, CallInv, StagesAgree, OutcomeIsHonest,
         RunToCancelIsPending
<1>2. TypeOK /\ DialogIsCurrent /\ PendingIsAwaited /\ CallInv /\ [Next]_vars
        => PendingIsAwaited' /\ CallInv'
  BY AwaitedStep, CallInvStep DEF CallInv
<1> QED
  BY <1>1, <1>2, ToolTypeCorrect, DialogOfCalls, PTL DEF Spec

(* The pending requests are exactly those an execution waits for *)
THEOREM PendingAwaited == Spec => []PendingIsAwaited
  BY CallsAgree, PTL

(* What the caller is told of its command is true *)
THEOREM HonestOutcome == Spec => []OutcomeIsHonest
<1>1. CallInv => OutcomeIsHonest
  BY DEF CallInv
<1> QED
  BY <1>1, CallsAgree, PTL

(* The run the driver would cancel has not come back *)
THEOREM PendingRun == Spec => []RunToCancelIsPending
<1>1. CallInv => RunToCancelIsPending
  BY DEF CallInv
<1> QED
  BY <1>1, CallsAgree, PTL

-----------------------------------------------------------------------------
(* A cancel marks a run before it kills its process, and only finds a run  *)
(* that is registered: a process that was sent the signal is marked.       *)
MarksAgree ==
  \A c \in Calls :
    /\ cancels[c] \in {"found", "marked"} => proc[c] \notin {"none", "requested", "started"}
    /\ cancels[c] = "marked" /\ proc[c] \in {"registered", "exited"} => c \in marked
    /\ c \in doomed => c \in marked /\ proc[c] = "registered"
    /\ exit[c] # "none" => proc[c] = "exited"
    /\ exit[c] = "killed" => c \in marked

(* A step of the calls kills no process before it is marked *)
LEMMA MarksStep ==
  ASSUME TypeOK, DialogIsCurrent, PendingIsAwaited, CallInv, MarksAgree, [Next]_vars
  PROVE  MarksAgree'
<1>d. \A s \in Sessions : dialog[s] # NoCall => dialog[s] \in Calls /\ proc[dialog[s]] = "none"
  BY DEF DialogIsCurrent, Matching, PendingIsAwaited, CallInv, StagesAgree
<1>n. \A c \in Calls : outcome[c] = "new" => proc[c] = "none"
  BY DEF CallInv, StagesAgree
<1> USE DEF TypeOK, MarksAgree
<1>1. CASE CallStep
  <2>1. ASSUME NEW c \in Calls, Begin(c)  PROVE MarksAgree'
    BY <1>n, <2>1 DEF Begin, Drive
  <2>2. ASSUME NEW c \in Calls, Conclude(c)  PROVE MarksAgree'
    BY <2>2 DEF Conclude, nativeVars
  <2>3. ASSUME UNCHANGED nativeVars, CancelDriver \/ UNCHANGED cancels
        PROVE  MarksAgree'
    BY <2>3 DEF CancelDriver, nativeVars
  <2> QED
    BY <1>1, <2>1, <2>2, <2>3 DEF CallStep, BeginAborted, TimeOut, Abort, DriverTimeOut
<1>2. CASE UserStep
  <2>1. ASSUME NEW s \in Sessions, Approve(s)  PROVE MarksAgree'
    BY <1>d, <2>1 DEF Approve, AnswerFromDialog, Drive
  <2>2. ASSUME UNCHANGED <<nativeVars, cancels>>
        PROVE  MarksAgree'
    BY <2>2 DEF nativeVars
  <2> QED
    BY <1>2, <2>1, <2>2 DEF UserStep, Deny, Unmount, Mount, UnmountBeforeSession
<1>3. ASSUME NEW c \in Calls, CommandStep(c)
      PROVE  MarksAgree'
  <2>1. CASE Spawn(c) \/ Register(c)
    BY <2>1 DEF Spawn, Register
  <2>2. CASE Exit(c)
    BY <2>2 DEF Exit
  <2>3. CASE CommandTimeOut(c)
    BY <2>3 DEF CommandTimeOut
  <2>4. CASE Report(c) \/ Reply(c)
    BY <2>4 DEF Report, Reply
  <2> QED
    BY <1>3, <2>1, <2>2, <2>3, <2>4 DEF CommandStep
<1>4. CASE CancelStep
  <2>1. ASSUME NEW c \in Calls, CancelLookUp(c)  PROVE MarksAgree'
    BY <2>1 DEF CancelLookUp, InRegistry, nativeVars
  <2>2. ASSUME NEW c \in Calls, CancelMark(c)  PROVE MarksAgree'
    BY <2>2 DEF CancelMark
  <2>3. ASSUME NEW c \in Calls, CancelKill(c)  PROVE MarksAgree'
    BY <2>3 DEF CancelKill
  <2>4. ASSUME ForceKill  PROVE MarksAgree'
    BY <2>4 DEF ForceKill, InRegistry, nativeVars
  <2> QED
    BY <1>4, <2>1, <2>2, <2>3, <2>4 DEF CancelStep
<1>5. CASE UNCHANGED vars
  BY <1>5 DEF vars, nativeVars
<1> QED
  BY <1>1, <1>2, <1>3, <1>4, <1>5 DEF Next

(* Marks, cancels and processes always agree *)
LEMMA MarksAlwaysAgree == Spec => []MarksAgree
<1>1. Init => MarksAgree
  BY DEF Init, MarksAgree
<1> QED
  BY <1>1, MarksStep, CallsAgree, ToolTypeCorrect, DialogOfCalls, PTL DEF Spec

(* Only the step that makes up the output forgets how the process ended *)
LEMMA ReportStep ==
  ASSUME TypeOK, MarksAgree, [Next]_vars, NEW c \in Calls,
         exit[c] # "none", exit'[c] = "none"
  PROVE  /\ exit[c] = "killed" => output'[c] = "cancelled"
         /\ output'[c] = "ok" => exit[c] = "ok"
<1>1. ~ UNCHANGED exit
  OBVIOUS
<1>2. ASSUME NEW d \in Calls, Exit(d) \/ CommandTimeOut(d)
      PROVE  FALSE
  BY <1>2 DEF Exit, CommandTimeOut, TypeOK
<1>3. PICK d \in Calls : Report(d)
  BY <1>1, <1>2 DEF Next, CallStep, BeginAborted, Begin, Conclude, TimeOut, Abort, DriverTimeOut,
     UserStep, Approve, Deny, Unmount, Mount, UnmountBeforeSession,
     CommandStep, Spawn, Register, Reply,
     CancelStep, CancelLookUp, CancelMark, CancelKill, ForceKill, nativeVars, vars
<1> QED
  BY <1>3 DEF Report, TypeOK, MarksAgree

(* A process that died of a cancel is reported as cancelled, and only one  *)
(* that ended by itself with code 0 as a success.                          *)
THEOREM TrueReport == Spec => ReportIsTrue
<1>1. TypeOK /\ MarksAgree /\ [Next]_vars =>
        [\A c \in Calls : exit[c] # "none" /\ exit'[c] = "none" =>
           /\ exit[c] = "killed" => output'[c] = "cancelled"
           /\ output'[c] = "ok" => exit[c] = "ok"]_vars
  BY ReportStep
<1> QED
  BY <1>1, MarksAlwaysAgree, ToolTypeCorrect, PTL DEF Spec, ReportIsTrue

-----------------------------------------------------------------------------
(* The calls implement the gate *)

status == [c \in Calls |-> StatusOf(c)]

(* A step in which only the status of one call changes, or none *)
LEMMA OneStatus ==
  ASSUME NEW c \in Calls,
         \A d \in Calls \ {c} : stage'[d] = stage[d] /\ proc'[d] = proc[d]
  PROVE  status' = [status EXCEPT ![c] = StatusOf(c)']
BY DEF status, StatusOf

(* A step of the calls is a step of the gate, or leaves it alone *)
LEMMA GateStep ==
  ASSUME TypeOK, DialogIsCurrent, PendingIsAwaited, CallInv, [Next]_vars
  PROVE  [Gate!Next]_status
<1>d. \A s \in Sessions : dialog[s] # NoCall => dialog[s] \in Calls /\ stage[dialog[s]] = "asking"
  BY DEF DialogIsCurrent, Matching, PendingIsAwaited
<1>p. \A c \in pendingRequests : c \in Calls /\ stage[c] = "asking"
  BY DEF PendingIsAwaited
<1>s. \A c \in Calls : status[c] = StatusOf(c)
  BY DEF status
<1> USE DEF TypeOK, CallInv, StagesAgree
<1>1. CASE CallStep
  <2>1. ASSUME NEW c \in Calls, Begin(c)  PROVE [Gate!Next]_status
    <3>1. \A d \in Calls \ {c} : stage'[d] = stage[d] /\ proc'[d] = proc[d]
      BY <2>1 DEF Begin, Drive
    <3>2. StatusOf(c) = "open" /\ StatusOf(c)' \in {"asked", "refused", "running"}
      BY <2>1 DEF Begin, Drive, StatusOf
    <3>3. Gate!Decide(c)
      BY <1>s, <3>1, <3>2, OneStatus DEF Gate!Decide, status
    <3> QED
      BY <3>3 DEF Gate!Next
  <2>2. ASSUME NEW c \in Calls, Conclude(c)  PROVE UNCHANGED status
    BY <2>2 DEF Conclude, nativeVars, status, StatusOf
  <2>3. ASSUME NEW c \in Calls, DriverTimeOut(c)  PROVE UNCHANGED status
    BY <2>3 DEF DriverTimeOut, nativeVars, status, StatusOf
  <2>4. ASSUME NEW c \in Calls, BeginAborted(c) \/ TimeOut(c) \/ Abort(c)
        PROVE  UNCHANGED status
    BY <2>4 DEF BeginAborted, TimeOut, Abort, nativeVars, status, StatusOf
  <2> QED
    BY <1>1, <2>1, <2>2, <2>3, <2>4 DEF CallStep
<1>2. CASE UserStep
  <2>1. ASSUME NEW s \in Sessions, Approve(s)  PROVE [Gate!Next]_status
    <3> DEFINE c == dialog[s]
    <3>1. c \in Calls /\ stage[c] = "asking"
      BY <1>d, <2>1 DEF Approve, AnswerFromDialog
    <3>2. \A d \in Calls \ {c} : stage'[d] = stage[d] /\ proc'[d] = proc[d]
      BY <2>1 DEF Approve, Drive
    <3>3. StatusOf(c) = "asked" /\ stage'[c] = "driving" /\ proc'[c] = "requested"
      BY <2>1, <3>1 DEF Approve, Drive, StatusOf
    <3> HIDE DEF c
    <3>4. Gate!Approve(c)
      BY <1>s, <3>1, <3>2, <3>3, OneStatus DEF Gate!Approve, status, StatusOf
    <3> QED
      BY <3>1, <3>4 DEF Gate!Next
  <2>2. ASSUME NEW refused \in SUBSET Calls, \A c \in refused : stage[c] = "asking",
               Refuse(refused), UNCHANGED proc
        PROVE  [Gate!Next]_status
    <3>1. \A c \in refused : status[c] = "asked"
      BY <1>s, <2>2 DEF StatusOf
    <3>2. status' = [c \in Calls |-> IF c \in refused THEN "refused" ELSE status[c]]
      BY <2>2 DEF status, StatusOf, Refuse
    <3>3. CASE refused = {}
      BY <3>2, <3>3 DEF status
    <3>4. CASE refused # {}
      BY <3>1, <3>2, <3>4 DEF Gate!Next, Gate!Refuse, status
    <3> QED
      BY <3>3, <3>4
  <2>3. ASSUME NEW s \in Sessions, Deny(s)  PROVE [Gate!Next]_status
    BY <1>d, <2>2, <2>3 DEF Deny, AnswerFromDialog, nativeVars
  <2>4. ASSUME NEW s \in Sessions, Unmount(s)  PROVE [Gate!Next]_status
    BY <1>p, <2>2, <2>4 DEF Unmount, OfTab, nativeVars
  <2>5. ASSUME NEW s \in Sessions, Mount(s)  PROVE UNCHANGED status
    BY <2>5 DEF Mount, callVars, nativeVars, status, StatusOf
  <2>6. ASSUME UnmountBeforeSession  PROVE [Gate!Next]_status
    BY <1>p, <2>2, <2>6 DEF UnmountBeforeSession, nativeVars
  <2> QED
    BY <1>2, <2>1, <2>3, <2>4, <2>5, <2>6 DEF UserStep
<1>3. ASSUME NEW c \in Calls, CommandStep(c)
      PROVE  [Gate!Next]_status
  <2>1. \A d \in Calls \ {c} : stage'[d] = stage[d] /\ proc'[d] = proc[d]
    BY <1>3 DEF CommandStep, Spawn, Register, Exit, CommandTimeOut, Report, Reply, callVars
  <2>2. \/ StatusOf(c)' = StatusOf(c)
        \/ StatusOf(c) = "running" /\ StatusOf(c)' = "ended"
    BY <1>3 DEF CommandStep, Spawn, Register, Exit, CommandTimeOut, Report, Reply, callVars,
       StatusOf
  <2>3. status' = [status EXCEPT ![c] = StatusOf(c)']
    BY <2>1, OneStatus
  <2>4. CASE StatusOf(c)' = StatusOf(c)
    <3>1. status' = status
      BY <1>s, <2>3, <2>4 DEF status
    <3> QED
      BY <3>1
  <2>5. CASE StatusOf(c) = "running" /\ StatusOf(c)' = "ended"
    <3>1. Gate!End(c)
      BY <1>s, <2>3, <2>5 DEF Gate!End, status
    <3> QED
      BY <3>1 DEF Gate!Next
  <2> QED
    BY <2>2, <2>4, <2>5
<1>4. CASE CancelStep
  BY <1>4 DEF CancelStep, CancelLookUp, CancelMark, CancelKill, ForceKill,
              callVars, nativeVars, status, StatusOf
<1>5. CASE UNCHANGED vars
  BY <1>5 DEF vars, callVars, nativeVars, status, StatusOf
<1> QED
  BY <1>1, <1>2, <1>3, <1>4, <1>5 DEF Next

(* A command runs at most once, only when the policy or the user allowed   *)
(* it, and never after it was refused.                                     *)
THEOREM ImplementsGate == Spec => GateSpec
<1>1. Init => Gate!Init
  BY DEF Init, Gate!Init, StatusOf
<1>2. TypeOK /\ DialogIsCurrent /\ PendingIsAwaited /\ CallInv /\ [Next]_vars
        => [Gate!Next]_status
  BY GateStep
<1> QED
  BY <1>1, <1>2, CallsAgree, ToolTypeCorrect, DialogOfCalls, PTL
  DEF Spec, GateSpec, Gate!Spec, status

-----------------------------------------------------------------------------
(* Nothing is taken back *)

(* The three parts of one call only go forward *)
GoesForward(c) ==
  /\ outcome'[c] # outcome[c] => OutcomeLeft[outcome'[c]] < OutcomeLeft[outcome[c]]
  /\ stage'[c] # stage[c] => StageLeft[stage'[c]] < StageLeft[stage[c]]
  /\ proc'[c] # proc[c] => ProcLeft[proc'[c]] < ProcLeft[proc[c]]

(* The ranks of the places, as numbers *)
LEMMA Ranks ==
  /\ OutcomeLeft["new"] = 2 /\ OutcomeLeft["aborted"] = 1 /\ OutcomeLeft["pending"] = 1
  /\ \A o \in {"success", "failed", "declined", "cancelled", "timedout"} : OutcomeLeft[o] = 0
  /\ StageLeft["idle"] = 4 /\ StageLeft["asking"] = 3
  /\ StageLeft["refused"] = 2 /\ StageLeft["driving"] = 2
  /\ StageLeft["succeeded"] = 1 /\ StageLeft["failed"] = 1 /\ StageLeft["over"] = 0
  /\ ProcLeft["none"] = 6 /\ ProcLeft["requested"] = 5 /\ ProcLeft["started"] = 4
  /\ ProcLeft["registered"] = 3 /\ ProcLeft["exited"] = 2 /\ ProcLeft["answered"] = 1
  /\ ProcLeft["done"] = 0
BY DEF OutcomeLeft, StageLeft, ProcLeft

(* A step takes nothing of a call back *)
LEMMA ForwardStep ==
  ASSUME TypeOK, DialogIsCurrent, PendingIsAwaited, StagesAgree, [Next]_vars,
         NEW b \in Calls
  PROVE  GoesForward(b)
<1>d. \A s \in Sessions : dialog[s] # NoCall => dialog[s] \in Calls /\ stage[dialog[s]] = "asking"
                                                /\ proc[dialog[s]] = "none"
  BY DEF DialogIsCurrent, Matching, PendingIsAwaited, StagesAgree
<1>p. \A c \in pendingRequests : c \in Calls /\ stage[c] = "asking"
  BY DEF PendingIsAwaited
<1>n. \A c \in Calls : outcome[c] = "new" => stage[c] = "idle" /\ proc[c] = "none"
  BY DEF StagesAgree
<1> USE Ranks DEF TypeOK, GoesForward
<1>1. CASE CallStep
  <2>1. ASSUME NEW c \in Calls, Begin(c)  PROVE GoesForward(b)
    BY <1>n, <2>1 DEF Begin, Drive
  <2>2. ASSUME NEW c \in Calls, Conclude(c)  PROVE GoesForward(b)
    BY <2>2 DEF Conclude, nativeVars
  <2>3. ASSUME NEW c \in Calls, DriverTimeOut(c)  PROVE GoesForward(b)
    BY <2>3 DEF DriverTimeOut, nativeVars
  <2>4. ASSUME NEW c \in Calls, BeginAborted(c) \/ TimeOut(c) \/ Abort(c)
        PROVE  GoesForward(b)
    BY <2>4 DEF BeginAborted, TimeOut, Abort, nativeVars
  <2> QED
    BY <1>1, <2>1, <2>2, <2>3, <2>4 DEF CallStep
<1>2. CASE UserStep
  <2>1. ASSUME NEW s \in Sessions, Approve(s)  PROVE GoesForward(b)
    BY <1>d, <2>1 DEF Approve, AnswerFromDialog, Drive
  <2>2. ASSUME NEW s \in Sessions, Deny(s)  PROVE GoesForward(b)
    BY <1>d, <2>2 DEF Deny, AnswerFromDialog, Refuse, nativeVars
  <2>3. ASSUME NEW s \in Sessions, Unmount(s)  PROVE GoesForward(b)
    BY <1>p, <2>3 DEF Unmount, OfTab, Refuse, nativeVars
  <2>4. ASSUME NEW s \in Sessions, Mount(s)  PROVE GoesForward(b)
    BY <2>4 DEF Mount, callVars, nativeVars
  <2>5. ASSUME UnmountBeforeSession  PROVE GoesForward(b)
    BY <1>p, <2>5 DEF UnmountBeforeSession, Refuse, nativeVars
  <2> QED
    BY <1>2, <2>1, <2>2, <2>3, <2>4, <2>5 DEF UserStep
<1>3. ASSUME NEW c \in Calls, CommandStep(c)
      PROVE  GoesForward(b)
  <2>1. CASE Spawn(c) \/ Register(c) \/ Exit(c) \/ CommandTimeOut(c) \/ Report(c)
    BY <2>1 DEF Spawn, Register, Exit, CommandTimeOut, Report, callVars
  <2>2. CASE Reply(c)
    BY <2>2 DEF Reply
  <2> QED
    BY <1>3, <2>1, <2>2 DEF CommandStep
<1>4. CASE CancelStep
  BY <1>4 DEF CancelStep, CancelLookUp, CancelMark, CancelKill, ForceKill, callVars, nativeVars
<1>5. CASE UNCHANGED vars
  BY <1>5 DEF vars, callVars, nativeVars
<1> QED
  BY <1>1, <1>2, <1>3, <1>4, <1>5 DEF Next

(* Whatever time-outs, aborts, answers and ends race, the caller of a call *)
(* is told one outcome and no second one, and its execution and its        *)
(* command only go forward.                                                *)
THEOREM NothingTakenBack == Spec => NothingIsTakenBack
<1>1. CallInv => StagesAgree
  BY DEF CallInv
<1>2. TypeOK /\ DialogIsCurrent /\ PendingIsAwaited /\ StagesAgree /\ [Next]_vars =>
        [\A c \in Calls : GoesForward(c)]_vars
  BY ForwardStep
<1>3. [\A c \in Calls : GoesForward(c)]_vars =>
        [\A c \in Calls :
           /\ outcome'[c] # outcome[c] => OutcomeLeft[outcome'[c]] < OutcomeLeft[outcome[c]]
           /\ stage'[c] # stage[c] => StageLeft[stage'[c]] < StageLeft[stage[c]]
           /\ proc'[c] # proc[c] => ProcLeft[proc'[c]] < ProcLeft[proc[c]]]_vars
  BY DEF GoesForward
<1> QED
  BY <1>1, <1>2, <1>3, CallsAgree, ToolTypeCorrect, DialogOfCalls, PTL
     DEF Spec, NothingIsTakenBack

-----------------------------------------------------------------------------
(* A call whose caller waits has been begun and has not returned *)
BegunAndNotOver == \A c \in Calls : outcome[c] = "pending" => stage[c] \notin {"idle", "over"}

(* An execution returns in the step that tells its caller *)
LEMMA BegunStep ==
  ASSUME TypeOK, DialogIsCurrent, PendingIsAwaited, StagesAgree, BegunAndNotOver, [Next]_vars
  PROVE  BegunAndNotOver'
<1> USE DEF TypeOK, BegunAndNotOver
<1>1. CASE CallStep
  <2>1. ASSUME NEW c \in Calls, Begin(c)  PROVE BegunAndNotOver'
    BY <2>1 DEF Begin, Drive
  <2>2. ASSUME NEW c \in Calls, Conclude(c)  PROVE BegunAndNotOver'
    BY <2>2 DEF Conclude
  <2>3. ASSUME NEW c \in Calls, DriverTimeOut(c)  PROVE BegunAndNotOver'
    BY <2>3 DEF DriverTimeOut
  <2>4. ASSUME NEW c \in Calls, BeginAborted(c) \/ TimeOut(c) \/ Abort(c)
        PROVE  BegunAndNotOver'
    BY <2>4 DEF BeginAborted, TimeOut, Abort
  <2> QED
    BY <1>1, <2>1, <2>2, <2>3, <2>4 DEF CallStep
<1>2. CASE UserStep
  BY <1>2 DEF UserStep, Approve, Drive, Deny, Unmount, Mount, UnmountBeforeSession, Refuse, callVars
<1>3. ASSUME NEW c \in Calls, CommandStep(c)
      PROVE  BegunAndNotOver'
  BY <1>3 DEF CommandStep, Spawn, Register, Exit, CommandTimeOut, Report, Reply, callVars
<1>4. CASE CancelStep
  BY <1>4 DEF CancelStep, CancelLookUp, CancelMark, CancelKill, ForceKill, callVars
<1>5. CASE UNCHANGED vars
  BY <1>5 DEF vars, callVars
<1> QED
  BY <1>1, <1>2, <1>3, <1>4, <1>5 DEF Next

(* A caller that waits waits for an answer that is still asked for, for    *)
(* the entry in the audit log or for a command that is under way.          *)
THEOREM CallersAreServed == Spec => []CallersWaitForSomething
<1>1. Init => BegunAndNotOver
  BY DEF Init, BegunAndNotOver
<1>2. CallInv => StagesAgree
  BY DEF CallInv
<1>3. Spec => []BegunAndNotOver
  BY <1>1, <1>2, BegunStep, CallsAgree, ToolTypeCorrect, DialogOfCalls, PTL DEF Spec
<1>4. TypeOK /\ PendingIsAwaited /\ StagesAgree /\ BegunAndNotOver => CallersWaitForSomething
  BY DEF TypeOK, PendingIsAwaited, StagesAgree, BegunAndNotOver, CallersWaitForSomething
<1> QED
  BY <1>2, <1>3, <1>4, CallsAgree, ToolTypeCorrect, PTL
=============================================================================
