----------------------------- MODULE ToolCalls -----------------------------
(***************************************************************************)
(* A tool call of the agent from ToolExecutor.execute to the process it    *)
(* starts: the policy and the consent of the user                          *)
(* (src/domain/security/ExecutionEngine.ts), the time-out and the abort    *)
(* that race with it (src/ai/agent/ToolExecutor.ts), the one shell driver  *)
(* all calls share (src/sdk/capabilities/drivers/ShellSDKCapability.ts)    *)
(* and the commands of the native part, which run on threads of their own  *)
(* (src-tauri/src/process_cmds.rs).                                        *)
(*                                                                         *)
(* The caller of a call waits for the first of three: its execution, its   *)
(* time-out, its abort.  The execution goes on whichever comes first:      *)
(* "outcome" is what the caller got, "stage" where the execution is.       *)
(***************************************************************************)
EXTENDS ConsentQueue

CONSTANT Abortable  \* calls made with the abort signal of their request

ASSUME AbortableAssumption == Abortable \subseteq Calls

VARIABLES
  outcome,       \* what ToolExecutor.execute returned; before that "new", "aborted"
                 \* (its signal fired before it was called), or "pending"
  stage,         \* of ExecutionEngine.execute
  runningRunId,  \* of the shell driver: the run a cancel is sent for
  proc,          \* the native command of a call
  exit,          \* how its process ended, until the output is made up
  output,        \* the CommandOutput made of it
  cancels,       \* cancel_command for a run: "none", "sent", "found", "marked"
  marked,        \* CANCELLED
  doomed         \* running processes that were sent SIGTERM (SIGKILL follows in 800 ms)

callVars == <<outcome, stage>>
nativeVars == <<proc, exit, output, marked, doomed>>
vars == <<consentVars, callVars, runningRunId, nativeVars, cancels>>

TypeOK ==
  /\ ConsentTypeOK
  /\ outcome \in [Calls -> {"new", "aborted", "pending", "success", "failed", "declined",
                            "cancelled", "timedout"}]
  /\ stage \in [Calls -> {"idle", "asking", "refused", "driving", "succeeded", "failed", "over"}]
  /\ runningRunId \in Calls \cup {NoCall}
  /\ proc \in [Calls -> {"none", "requested", "started", "registered", "exited",
                         "answered", "done"}]
  /\ exit \in [Calls -> {"none", "ok", "error", "killed", "timeout"}]
  /\ output \in [Calls -> {"none", "ok", "error", "cancelled"}]
  /\ cancels \in [Calls -> {"none", "sent", "found", "marked"}]
  /\ marked \subseteq Calls
  /\ doomed \subseteq Calls

Init ==
  /\ ConsentInit
  /\ outcome = [c \in Calls |-> "new"]
  /\ stage = [c \in Calls |-> "idle"]
  /\ runningRunId = NoCall
  /\ proc = [c \in Calls |-> "none"]
  /\ exit = [c \in Calls |-> "none"]
  /\ output = [c \in Calls |-> "none"]
  /\ cancels = [c \in Calls |-> "none"]
  /\ marked = {}
  /\ doomed = {}

-----------------------------------------------------------------------------
(* The call                                                                *)

(* The driver takes the call: it notes the run and asks the native part    *)
(* for its process.                                                        *)
Drive(c) ==
  /\ stage' = [stage EXCEPT ![c] = "driving"]
  /\ runningRunId' = c
  /\ proc' = [proc EXCEPT ![c] = "requested"]

(* driver.cancel(): cancel_command is sent for the run noted last          *)
CancelDriver ==
  cancels' = [c \in Calls |-> IF c = runningRunId /\ cancels[c] = "none"
                                THEN "sent" ELSE cancels[c]]

(* A call whose signal has fired cancels what the driver is doing.  Else   *)
(* the policy refuses the call, allows it, or has the user asked.          *)
BeginAborted(c) ==
  /\ outcome[c] = "aborted"
  /\ outcome' = [outcome EXCEPT ![c] = "cancelled"]
  /\ CancelDriver
  /\ UNCHANGED <<consentVars, stage, runningRunId, nativeVars>>

Begin(c) ==
  /\ outcome[c] = "new"
  /\ outcome' = [outcome EXCEPT ![c] = "pending"]
  /\ \/ /\ stage' = [stage EXCEPT ![c] = "refused"]
        /\ UNCHANGED <<consentVars, runningRunId, proc>>
     \/ /\ Ask(c)
        /\ stage' = [stage EXCEPT ![c] = "asking"]
        /\ UNCHANGED <<runningRunId, proc>>
     \/ /\ Drive(c)
        /\ UNCHANGED consentVars
  /\ UNCHANGED <<exit, output, marked, doomed, cancels>>

(* The audit entry is written and the execution returns; the caller gets   *)
(* the result if it still waits.                                           *)
ConcludeWithoutReturn(c) ==  \* mutant: a refused call goes on to the driver
  /\ stage[c] \in {"refused", "succeeded", "failed"}
  /\ IF stage[c] = "refused" THEN Drive(c) /\ UNCHANGED outcome
     ELSE /\ stage' = [stage EXCEPT ![c] = "over"]
          /\ outcome' = [outcome EXCEPT ![c] =
               IF @ # "pending" THEN @ ELSE IF stage[c] = "succeeded" THEN "success" ELSE "failed"]
          /\ UNCHANGED <<runningRunId, proc>>
  /\ UNCHANGED <<consentVars, exit, output, marked, doomed, cancels>>
Conclude(c) ==
  /\ stage[c] \in {"refused", "succeeded", "failed"}
  /\ stage' = [stage EXCEPT ![c] = "over"]
  /\ outcome' = [outcome EXCEPT ![c] =
       IF @ # "pending" THEN @
       ELSE IF stage[c] = "refused" THEN "declined"
       ELSE IF stage[c] = "succeeded" THEN "success" ELSE "failed"]
  /\ UNCHANGED <<consentVars, runningRunId, nativeVars, cancels>>

(* The time-out of the call, which also runs while the user is asked       *)
TimeOutOfTheDriver(c) ==  \* mutant: it only starts with the command
  /\ outcome[c] = "pending" /\ stage[c] = "driving"
  /\ outcome' = [outcome EXCEPT ![c] = "timedout"]
  /\ CancelDriver
  /\ UNCHANGED <<consentVars, stage, runningRunId, nativeVars>>
TimeOut(c) ==
  /\ outcome[c] = "pending"
  /\ outcome' = [outcome EXCEPT ![c] = "timedout"]
  /\ CancelDriver
  /\ UNCHANGED <<consentVars, stage, runningRunId, nativeVars>>

(* The request of the call is stopped, before the call or during it *)
Abort(c) ==
  /\ c \in Abortable
  /\ \/ /\ outcome[c] = "new"
        /\ outcome' = [outcome EXCEPT ![c] = "aborted"]
        /\ UNCHANGED cancels
     \/ /\ outcome[c] = "pending"
        /\ outcome' = [outcome EXCEPT ![c] = "cancelled"]
        /\ CancelDriver
  /\ UNCHANGED <<consentVars, stage, runningRunId, nativeVars>>

(* The driver's own time-out.  It is set after that of the call and has    *)
(* the same length: it finds a call that has already ended.                *)
DriverTimeOut(c) ==
  /\ stage[c] = "driving"
  /\ outcome[c] # "pending"
  /\ stage' = [stage EXCEPT ![c] = "failed"]
  /\ CancelDriver
  /\ UNCHANGED <<consentVars, outcome, runningRunId, nativeVars>>

-----------------------------------------------------------------------------
(* The user and the views                                                  *)

Approve(s) ==
  /\ AnswerFromDialog(s)
  /\ Drive(dialog[s])
  /\ UNCHANGED <<outcome, exit, output, marked, doomed, cancels>>

(* The requests are refused: their executions go on to return USER_CANCELLED *)
RefuseOnlyTheFirst(refused) ==  \* mutant: the promise of a cleared request is not resolved
  \E c \in refused : stage' = [stage EXCEPT ![c] = "refused"]
Refuse(refused) ==
  stage' = [c \in Calls |-> IF c \in refused THEN "refused" ELSE stage[c]]

Deny(s) ==
  /\ AnswerFromDialog(s)
  /\ Refuse({dialog[s]})
  /\ UNCHANGED <<outcome, runningRunId, nativeVars, cancels>>

Unmount(s) ==
  /\ Unsubscribe(s)
  /\ Refuse(OfTab(s))
  /\ UNCHANGED <<outcome, runningRunId, nativeVars, cancels>>

Mount(s) ==
  /\ Subscribe(s)
  /\ UNCHANGED <<callVars, runningRunId, nativeVars, cancels>>

UnmountBeforeSession ==
  /\ ClearAll
  /\ Refuse(pendingRequests)
  /\ UNCHANGED <<outcome, runningRunId, nativeVars, cancels>>

-----------------------------------------------------------------------------
(* The native part                                                         *)

(* RUNNING: a run is registered after its process started and leaves when  *)
(* its command returns.                                                    *)
InRegistry == {c \in Calls : proc[c] \in {"registered", "exited"}}

Spawn(c) ==
  /\ proc[c] = "requested"
  /\ \/ /\ proc' = [proc EXCEPT ![c] = "started"]
        /\ UNCHANGED output
     \/ /\ proc' = [proc EXCEPT ![c] = "answered"]
        /\ output' = [output EXCEPT ![c] = "error"]
  /\ UNCHANGED <<consentVars, callVars, runningRunId, exit, marked, doomed, cancels>>

Register(c) ==
  /\ proc[c] = "started"
  /\ proc' = [proc EXCEPT ![c] = "registered"]
  /\ UNCHANGED <<consentVars, callVars, runningRunId, exit, output, marked, doomed,
                 cancels>>

(* The process ends by itself, or of the signal it was sent *)
Exit(c) ==
  /\ proc[c] = "registered"
  /\ proc' = [proc EXCEPT ![c] = "exited"]
  /\ \E how \in {"ok", "error"} \cup (IF c \in doomed THEN {"killed"} ELSE {}) :
       exit' = [exit EXCEPT ![c] = how]
  /\ doomed' = doomed \ {c}
  /\ UNCHANGED <<consentVars, callVars, runningRunId, output, marked, cancels>>

(* timeout_ms: the process group is killed *)
CommandTimeOutIfAwaited(c) ==  \* mutant: it is dropped when the caller has gone
  /\ proc[c] = "registered" /\ outcome[c] = "pending"
  /\ proc' = [proc EXCEPT ![c] = "exited"]
  /\ exit' = [exit EXCEPT ![c] = "timeout"]
  /\ doomed' = doomed \ {c}
  /\ UNCHANGED <<consentVars, callVars, runningRunId, output, marked, cancels>>
CommandTimeOut(c) ==
  /\ proc[c] = "registered"
  /\ proc' = [proc EXCEPT ![c] = "exited"]
  /\ exit' = [exit EXCEPT ![c] = "timeout"]
  /\ doomed' = doomed \ {c}
  /\ UNCHANGED <<consentVars, callVars, runningRunId, output, marked, cancels>>

(* After the pipes are drained (250 ms at most) the exit code is made up,  *)
(* and the run leaves both tables as its guard goes out of scope: a mark   *)
(* set between the two is removed unseen.                                  *)
ReportTheExit(c) ==  \* mutant: how the process ended is passed on as it is
  /\ proc[c] = "exited"
  /\ proc' = [proc EXCEPT ![c] = "answered"]
  /\ output' = [output EXCEPT ![c] = IF c \in marked THEN "cancelled" ELSE exit[c]]
  /\ exit' = [exit EXCEPT ![c] = "none"]
  /\ marked' = marked \ {c}
  /\ UNCHANGED <<consentVars, callVars, runningRunId, doomed, cancels>>
ReportIgnoringTimeOut(c) ==  \* mutant: the missing code of a killed command counts as 0
  /\ proc[c] = "exited"
  /\ proc' = [proc EXCEPT ![c] = "answered"]
  /\ output' = [output EXCEPT ![c] =
       IF c \in marked THEN "cancelled" ELSE IF exit[c] = "error" THEN "error" ELSE "ok"]
  /\ exit' = [exit EXCEPT ![c] = "none"]
  /\ marked' = marked \ {c}
  /\ UNCHANGED <<consentVars, callVars, runningRunId, doomed, cancels>>
Report(c) ==
  /\ proc[c] = "exited"
  /\ proc' = [proc EXCEPT ![c] = "answered"]
  /\ output' = [output EXCEPT ![c] =
       IF c \in marked THEN "cancelled" ELSE IF exit[c] = "ok" THEN "ok" ELSE "error"]
  /\ exit' = [exit EXCEPT ![c] = "none"]
  /\ marked' = marked \ {c}
  /\ UNCHANGED <<consentVars, callVars, runningRunId, doomed, cancels>>

(* The result reaches the driver *)
ReplyKeepingTheRun(c) ==  \* mutant: the driver keeps the run that has ended
  /\ proc[c] = "answered"
  /\ proc' = [proc EXCEPT ![c] = "done"]
  /\ stage' = [stage EXCEPT ![c] =
       IF @ # "driving" THEN @ ELSE IF output[c] = "ok" THEN "succeeded" ELSE "failed"]
  /\ UNCHANGED <<consentVars, outcome, runningRunId, exit, output, marked, doomed,
                 cancels>>
ReplyTakingCancelledForDone(c) ==  \* mutant: only an error counts as a failure
  /\ proc[c] = "answered"
  /\ proc' = [proc EXCEPT ![c] = "done"]
  /\ runningRunId' = IF runningRunId = c THEN NoCall ELSE runningRunId
  /\ stage' = [stage EXCEPT ![c] =
       IF @ # "driving" THEN @ ELSE IF output[c] = "error" THEN "failed" ELSE "succeeded"]
  /\ UNCHANGED <<consentVars, outcome, exit, output, marked, doomed, cancels>>
Reply(c) ==
  /\ proc[c] = "answered"
  /\ proc' = [proc EXCEPT ![c] = "done"]
  /\ runningRunId' = IF runningRunId = c THEN NoCall ELSE runningRunId
  /\ stage' = [stage EXCEPT ![c] =
       IF @ # "driving" THEN @ ELSE IF output[c] = "ok" THEN "succeeded" ELSE "failed"]
  /\ UNCHANGED <<consentVars, outcome, exit, output, marked, doomed, cancels>>

(* cancel_command: the process is looked up, the run is marked, the group  *)
(* is killed; the tables are unlocked in between.                          *)
CancelLookUp(c) ==
  /\ cancels[c] = "sent"
  /\ cancels' = [cancels EXCEPT ![c] = IF c \in InRegistry THEN "found" ELSE "none"]
  /\ UNCHANGED <<consentVars, callVars, runningRunId, nativeVars>>

CancelMarkLate(c) ==  \* mutant: the run is marked after its process was killed
  /\ cancels[c] = "found"
  /\ cancels' = [cancels EXCEPT ![c] = "marked"]
  /\ doomed' = IF proc[c] = "registered" THEN doomed \cup {c} ELSE doomed
  /\ UNCHANGED <<consentVars, callVars, runningRunId, proc, exit, output, marked>>
CancelMark(c) ==
  /\ cancels[c] = "found"
  /\ cancels' = [cancels EXCEPT ![c] = "marked"]
  /\ marked' = marked \cup {c}
  /\ UNCHANGED <<consentVars, callVars, runningRunId, proc, exit, output, doomed>>

CancelKill(c) ==
  /\ cancels[c] = "marked"
  /\ cancels' = [cancels EXCEPT ![c] = "none"]
  /\ doomed' = IF proc[c] = "registered" THEN doomed \cup {c} ELSE doomed
  /\ UNCHANGED <<consentVars, callVars, runningRunId, proc, exit, output, marked>>

(* cancel_command("*"), which the second Ctrl+C sends and which has no     *)
(* other effect than on arrival: it finds every registered run.            *)
ForceKill ==
  /\ \E c \in InRegistry : cancels[c] \in {"none", "sent"}
  /\ cancels' = [c \in Calls |-> IF c \in InRegistry /\ cancels[c] \in {"none", "sent"}
                                   THEN "found" ELSE cancels[c]]
  /\ UNCHANGED <<consentVars, callVars, runningRunId, nativeVars>>

-----------------------------------------------------------------------------
CallStep == \E c \in Calls : \/ BeginAborted(c) \/ Begin(c) \/ Conclude(c)
                             \/ TimeOut(c) \/ Abort(c) \/ DriverTimeOut(c)

UserStep == \/ \E s \in Sessions : Approve(s) \/ Deny(s) \/ Unmount(s) \/ Mount(s)
            \/ UnmountBeforeSession

CommandStep(c) == \/ Spawn(c) \/ Register(c) \/ Exit(c) \/ CommandTimeOut(c)
                  \/ Report(c) \/ Reply(c)

CancelStep == \/ \E c \in Calls : CancelLookUp(c) \/ CancelMark(c) \/ CancelKill(c)
              \/ ForceKill

Next == CallStep \/ UserStep \/ (\E c \in Calls : CommandStep(c)) \/ CancelStep

Spec == Init /\ [][Next]_vars

(* Timers fire, messages to and from the native part arrive, its threads   *)
(* run, an audit entry is written.  A process may run for ever: only its   *)
(* time limit ends it.  Of the user nothing is assumed.                    *)
Fairness ==
  \A c \in Calls :
    /\ WF_vars(TimeOut(c)) /\ WF_vars(Conclude(c))
    /\ WF_vars(Spawn(c)) /\ WF_vars(Register(c)) /\ WF_vars(CommandTimeOut(c))
    /\ WF_vars(Report(c)) /\ WF_vars(Reply(c))

FairSpec == Spec /\ Fairness
-----------------------------------------------------------------------------
(* Properties                                                              *)

(* The requests that are pending are exactly those an execution waits for: *)
(* none is forgotten when views go, none is answered twice.                *)
PendingIsAwaited == pendingRequests = {c \in Calls : stage[c] = "asking"}

(* The calls use the consent queue as its specification says. *)
UsesConsentQueue == ConsentSpec

(* The run the driver would cancel has been asked for and has not yet come *)
(* back: a cancel is never sent for a run of the past.                     *)
RunToCancelIsPending ==
  runningRunId # NoCall => proc[runningRunId] \notin {"none", "done"}

(* A process that died of a cancel is reported as cancelled, not as a      *)
(* command that failed (which the agent would try to repair), and only a   *)
(* process that ended by itself with code 0 as a success.                  *)
ReportIsTrue ==
  [][\A c \in Calls : exit[c] # "none" /\ exit'[c] = "none" =>
       /\ exit[c] = "killed" => output'[c] = "cancelled"
       /\ output'[c] = "ok" => exit[c] = "ok"]_vars

(* What the caller is told is true: the command of a call that succeeded   *)
(* succeeded, a call that was declined never had a command.                *)
OutcomeIsHonest ==
  \A c \in Calls :
    /\ outcome[c] = "success" => output[c] = "ok"
    /\ outcome[c] = "declined" => proc[c] = "none"

(* How much is left of a call in each of the places its three parts can be *)
(* in: what its caller was told, its execution, its command                *)
OutcomeLeft == [o \in {"new", "aborted", "pending", "success", "failed", "declined",
                       "cancelled", "timedout"} |->
  CASE o = "new" -> 2 [] o \in {"aborted", "pending"} -> 1 [] OTHER -> 0]
StageLeft == [g \in {"idle", "asking", "refused", "driving", "succeeded", "failed", "over"} |->
  CASE g = "idle" -> 4 [] g = "asking" -> 3 [] g \in {"refused", "driving"} -> 2
    [] g \in {"succeeded", "failed"} -> 1 [] g = "over" -> 0]
ProcLeft == [p \in {"none", "requested", "started", "registered", "exited", "answered",
                    "done"} |->
  CASE p = "none" -> 6 [] p = "requested" -> 5 [] p = "started" -> 4 [] p = "registered" -> 3
    [] p = "exited" -> 2 [] p = "answered" -> 1 [] p = "done" -> 0]

(* Nothing is taken back: whatever time-outs, aborts, answers and ends     *)
(* race, the caller of a call is told one outcome and no second one, and   *)
(* its execution and its command only go forward.                          *)
NothingIsTakenBack ==
  [][\A c \in Calls :
       /\ outcome'[c] # outcome[c] => OutcomeLeft[outcome'[c]] < OutcomeLeft[outcome[c]]
       /\ stage'[c] # stage[c] => StageLeft[stage'[c]] < StageLeft[stage[c]]
       /\ proc'[c] # proc[c] => ProcLeft[proc'[c]] < ProcLeft[proc[c]]]_vars

(* A caller that waits waits for something that is still to come: the      *)
(* answer to a request that is pending, the entry in the audit log, or a   *)
(* command the native part has and has not answered.                       *)
CallersWaitForSomething ==
  \A c \in Calls : outcome[c] = "pending" =>
    \/ stage[c] = "asking" /\ c \in pendingRequests
    \/ stage[c] \in {"refused", "succeeded", "failed"}
    \/ stage[c] = "driving"
         /\ proc[c] \in {"requested", "started", "registered", "exited", "answered"}

(* The life of a call's command                                            *)
StatusOf(c) ==
  IF proc[c] \in {"requested", "started", "registered"} THEN "running"
  ELSE IF proc[c] # "none" THEN "ended"
  ELSE IF stage[c] = "asking" THEN "asked"
  ELSE IF stage[c] = "idle" THEN "open" ELSE "refused"

(* The calls implement the gate: a command runs at most once, only when    *)
(* the policy or the user allowed it, never after it was refused.          *)
Gate == INSTANCE CommandGate WITH status <- [c \in Calls |-> StatusOf(c)]

GateSpec == Gate!Spec

(* Every call returns, whether or not the user answers, *)
CallsEnd == \A c \in Calls : (outcome[c] = "pending") ~> (outcome[c] \notin {"new", "pending"})

(* ... and every command that was asked for comes to its end. *)
CommandsEnd == \A c \in Calls : (proc[c] = "requested") ~> (proc[c] = "done")
=============================================================================
