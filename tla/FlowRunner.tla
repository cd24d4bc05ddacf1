----------------------------- MODULE FlowRunner -----------------------------
(***************************************************************************)
(* Flows typed into a pane step by step                                    *)
(* (src/workflows/flow/FlowRunner.ts, runFlow of                           *)
(* src/presentation/TerminalView.tsx).  The end of a step is an escape     *)
(* sequence in the output of the shell, which carries an exit code and     *)
(* nothing else; a step without one is given up once the shell seems to be *)
(* back at its prompt, which is guessed from its output                    *)
(* (src/domain/terminal/PtyStateTracker.ts).                               *)
(*                                                                         *)
(* Flows may overlap in one view: the timer that starts a queued one does  *)
(* not look whether the view is busy.  The layout may rebuild the pane as  *)
(* a new view at any time: the shell goes on, its output reaches the new   *)
(* view, and the flows of the old one go on waiting there.                 *)
(***************************************************************************)
EXTENDS Naturals, Sequences

CONSTANTS
  Flows,  \* how many flows are run
  Steps,  \* how many steps each has
  Views   \* how many views the pane has, one after the other

ASSUME FlowsAssumption ==
  Flows \in Nat /\ Steps \in Nat \ {0} /\ Views \in Nat \ {0}

FlowIds == 1 .. Flows
ViewIds == 1 .. Views
AllSteps == FlowIds \X (1 .. Steps)
NoStep == <<0, 0>>

VARIABLES
  \* the flows
  pc,         \* what each waits for
  view,       \* the view that started it
  step,       \* its step
  defined,    \* definedMarker
  stopped,    \* flows whose abort signal has fired
  \* the views
  shown,      \* the view that is mounted; those before it are gone
  controller, \* activeRunAbortControllerRef of the one shown: the flow it aborts, or 0
  tracker,    \* the state that the PtyStateTracker of each view guesses
  before,     \* previousStateBeforeAlt of the one shown
  \* the waiters
  result,     \* what the step of each flow was settled with, "open" before
  waiter,     \* flowStepWaiter of the view shown: the step that the next report settles
  watches,    \* steps whose interval runs
  \* the shell
  input,      \* lines typed that nothing has read: the command of a step each
  running,    \* the command the shell runs
  signalled,  \* it was sent SIGINT
  reports,    \* exit codes on their way to the window
  exits,      \* how the commands ended
  \* history
  alone,      \* the last flow, if nothing has disturbed it so far, or 0
  lastTyped   \* the flow of the view shown whose step was typed last, or 0

flowVars == <<pc, view, step, defined, stopped>>
viewVars == <<shown, controller>>
waitVars == <<result, waiter, watches>>
guessVars == <<tracker, before>>
shellVars == <<input, running, signalled, reports, exits>>
history == <<alone, lastTyped>>
vars == <<flowVars, viewVars, waitVars, guessVars, shellVars, history>>

Current(f) == <<f, step[f]>>

TypeOK ==
  /\ pc \in [FlowIds -> {"new", "preparing", "asking", "defining", "desktop",
                         "waiting", "ended"}]
  /\ view \in [FlowIds -> ViewIds]
  /\ step \in [FlowIds -> 1 .. Steps]
  /\ defined \in [FlowIds -> BOOLEAN]
  /\ stopped \subseteq FlowIds
  /\ shown \in ViewIds
  /\ controller \in 0 .. Flows
  /\ result \in [FlowIds -> {"open", "ok", "failed", "none"}]
  /\ waiter \in AllSteps \cup {NoStep}
  /\ watches \subseteq AllSteps
  /\ tracker \in [ViewIds -> {"idle", "running", "alternate"}]
  /\ before \in {"idle", "running"}
  /\ input \in Seq(AllSteps)
  /\ running \in AllSteps \cup {NoStep}
  /\ signalled \in BOOLEAN
  /\ reports \in Seq({"ok", "failed"})
  /\ exits \in [AllSteps -> {"none", "ok", "failed"}]
  /\ alone \in 0 .. Flows
  /\ lastTyped \in 0 .. Flows

Init ==
  /\ pc = [f \in FlowIds |-> "new"] /\ view = [f \in FlowIds |-> 1]
  /\ step = [f \in FlowIds |-> 1] /\ defined = [f \in FlowIds |-> FALSE]
  /\ stopped = {}
  /\ shown = 1 /\ controller = 0
  /\ result = [f \in FlowIds |-> "open"] /\ waiter = NoStep /\ watches = {}
  /\ tracker = [v \in ViewIds |-> "idle"] /\ before = "idle"
  /\ input = <<>> /\ running = NoStep /\ signalled = FALSE /\ reports = <<>>
  /\ exits = [s \in AllSteps |-> "none"]
  /\ alone = 0 /\ lastTyped = 0

-----------------------------------------------------------------------------
(* The flow                                                                *)

(* Its variables die with it. *)
End(f) ==
  /\ pc' = [pc EXCEPT ![f] = "ended"]
  /\ defined' = [defined EXCEPT ![f] = FALSE]
  /\ result' = [result EXCEPT ![f] = "open"]
  /\ controller' = IF controller = f THEN 0 ELSE controller
  /\ UNCHANGED step

(* notifyCommandStarted *)
Notify(v) ==
  /\ tracker' = [tracker EXCEPT ![v] = IF @ = "alternate" THEN @ ELSE "running"]
  /\ UNCHANGED before

(* Ctrl+C reaches the terminal, which discards what was not read, unless   *)
(* its mode says otherwise, and signals the command in front.              *)
Interrupt ==
  /\ input' \in {<<>>, input}
  /\ signalled' = (running # NoStep)

(* The waiter of the view is set, also over that of another flow, then the *)
(* step is typed.  A flow that was stopped while the report function was   *)
(* defined types it too, after a Ctrl+C.                                   *)
TypeStep(f, s) ==
  /\ IF view[f] = shown
       THEN waiter' = s /\ lastTyped' = f
       ELSE UNCHANGED <<waiter, lastTyped>>
  /\ watches' = watches \cup {s}
  /\ Notify(view[f])
  /\ IF f \in stopped
       THEN /\ result' = [result EXCEPT ![f] = "none"]
            /\ \E left \in {<<>>, input} : input' = Append(left, s)
            /\ signalled' = (running # NoStep)
       ELSE /\ result' = [result EXCEPT ![f] = "open"]
            /\ input' = Append(input, s)
            /\ UNCHANGED signalled

StepsLeftAtLength(i) == i <= Steps + 1  \* mutant: one step too many
StepsLeft(i) == i <= Steps

(* The head of the loop for step i: the end, the stop, a desktop step, or  *)
(* a step of the terminal, for the first of which the report function is   *)
(* defined.                                                                *)
Loop(f, i) ==
  \/ /\ ~StepsLeft(i)
     /\ End(f)
     /\ UNCHANGED <<waiter, watches, guessVars, input, signalled, lastTyped>>
  \/ /\ StepsLeft(i) /\ f \in stopped
     /\ End(f)
     /\ Interrupt /\ Notify(view[f])
     /\ UNCHANGED <<waiter, watches, lastTyped>>
  \/ /\ StepsLeft(i) /\ f \notin stopped
     /\ step' = [step EXCEPT ![f] = i]
     /\ UNCHANGED controller
     /\ \/ /\ pc' = [pc EXCEPT ![f] = "desktop"]
           /\ UNCHANGED <<defined, waitVars, guessVars, input, signalled, lastTyped>>
        \/ /\ ~defined[f]
           /\ defined' = [defined EXCEPT ![f] = TRUE]
           /\ pc' = [pc EXCEPT ![f] = "defining"]
           /\ UNCHANGED <<waitVars, guessVars, input, signalled, lastTyped>>
        \/ /\ defined[f]
           /\ pc' = [pc EXCEPT ![f] = "waiting"]
           /\ TypeStep(f, <<f, i>>)
           /\ UNCHANGED defined

(* It types nothing by itself: it has not begun or has ended, or it waits  *)
(* in a view that is gone for a report that cannot come.                   *)
Silent(f) ==
  \/ pc[f] \in {"new", "ended"}
  \/ pc[f] = "waiting" /\ view[f] # shown /\ result[f] # "ok"

(* The flows are numbered as they start.  A view that is gone may start    *)
(* one too: a request that was running in it takes the next item.          *)
Start(f, v) ==
  /\ pc[f] = "new" /\ \A g \in 1 .. f - 1 : pc[g] # "new"
  /\ v <= shown
  /\ pc' = [pc EXCEPT ![f] = "preparing"]
  /\ view' = [view EXCEPT ![f] = v]
  /\ controller' = IF v = shown THEN f ELSE controller
  /\ alone' = IF /\ v = shown
                 /\ input = <<>> /\ running = NoStep /\ reports = <<>>
                 /\ \A g \in FlowIds \ {f} : Silent(g)
                THEN f ELSE 0
  /\ UNCHANGED <<step, defined, stopped, shown, waitVars, guessVars, shellVars,
                 lastTyped>>

(* The prompt is awaited, for 15 s at most; then the user is asked *)
Prepared(f) ==
  /\ pc[f] = "preparing"
  /\ IF f \in stopped
       THEN End(f)
       ELSE /\ pc' = [pc EXCEPT ![f] = "asking"]
            /\ UNCHANGED <<controller, step, defined, result>>
  /\ UNCHANGED <<view, stopped, shown, waiter, watches, guessVars, shellVars, history>>

Answered(f) ==
  /\ pc[f] = "asking"
  /\ \/ /\ End(f)
        /\ UNCHANGED <<waiter, watches, guessVars, input, signalled, lastTyped>>
     \/ /\ f \notin stopped
        /\ Loop(f, 1)
  /\ UNCHANGED <<view, stopped, shown, running, reports, exits, alone>>

Defined(f) ==
  /\ pc[f] = "defining"
  /\ pc' = [pc EXCEPT ![f] = "waiting"]
  /\ TypeStep(f, Current(f))
  /\ UNCHANGED <<view, step, defined, stopped, viewVars, running, reports, exits, alone>>

DesktopDone(f) ==
  /\ pc[f] = "desktop"
  /\ \/ /\ exits' = [exits EXCEPT ![Current(f)] = "ok"]
        /\ Loop(f, step[f] + 1)
     \/ /\ exits' = [exits EXCEPT ![Current(f)] = "failed"]
        /\ End(f)
        /\ UNCHANGED <<waiter, watches, guessVars, input, signalled, lastTyped>>
  /\ UNCHANGED <<view, stopped, shown, running, reports, alone>>

(* The step is settled by its waiter or by the stop: only the code 0 goes  *)
(* on.                                                                     *)
GoesOnWhateverTheCode(f) ==  \* mutant: only a step that was given up ends the flow
  f \notin stopped /\ result[f] # "none"
GoesOn(f) == f \notin stopped /\ result[f] = "ok"

Settled(f) ==
  /\ pc[f] = "waiting" /\ result[f] # "open"
  /\ \/ /\ ~GoesOn(f)
        /\ End(f)
        /\ UNCHANGED <<waiter, watches, guessVars, input, signalled, lastTyped>>
     \/ /\ GoesOn(f)
        /\ Loop(f, step[f] + 1)
  /\ UNCHANGED <<view, stopped, shown, running, reports, exits, alone>>

-----------------------------------------------------------------------------
(* The user                                                                *)

(* Ctrl+C, or the stop of the panel, which types nothing by itself; the    *)
(* listener of a step that is waited for types Ctrl+C in either case.      *)
Abort ==
  /\ controller # 0
  /\ LET f == controller IN
       /\ stopped' = stopped \cup {f}
       /\ IF pc[f] = "waiting"
            THEN Interrupt /\ Notify(view[f])
            ELSE /\ Interrupt \/ UNCHANGED <<input, signalled>>
                 /\ UNCHANGED guessVars
       /\ result' = [result EXCEPT
            ![f] = IF pc[f] = "waiting" /\ @ = "open" THEN "none" ELSE @]
  /\ controller' = 0
  /\ alone' = 0
  /\ UNCHANGED <<pc, view, step, defined, shown, waiter, watches, running, reports,
                 exits, lastTyped>>

(* Ctrl+C in a view that does not count as busy goes to the shell, and so  *)
(* does the one that clears a request typed at what seems to be a prompt.  *)
TypeCtrlC ==
  /\ Interrupt
  /\ UNCHANGED <<flowVars, viewVars, waitVars, guessVars, running, reports, exits, history>>

(* The pane is unmounted and mounted as a new view of the same session.    *)
(* The dialogs are declined, the output goes to the new view, and nothing  *)
(* calls the controller, the waiter and the tracker of the old one, but    *)
(* the flows and the intervals it started.                                 *)
Rebuild ==
  /\ shown < Views
  /\ shown' = shown + 1
  /\ pc' = [f \in FlowIds |-> IF pc[f] = "asking" THEN "ended" ELSE pc[f]]
  /\ controller' = 0 /\ before' = "idle" /\ waiter' = NoStep /\ lastTyped' = 0
  /\ alone' = 0
  /\ UNCHANGED <<view, step, defined, stopped, result, watches, tracker, shellVars>>

-----------------------------------------------------------------------------
(* The waiters                                                             *)

(* Step s is settled, once.                                                *)
Settle(s, code) ==
  result' = [result EXCEPT
    ![s[1]] = IF s = Current(s[1]) /\ pc[s[1]] = "waiting" /\ @ = "open" THEN code ELSE @]

(* finish, of step s.  A waiter of another step stays. *)
FinishAny(s, code) ==  \* mutant: whoever waits is no longer told
  /\ watches' = watches \ {s}
  /\ waiter' = IF view[s[1]] = shown THEN NoStep ELSE waiter
  /\ Settle(s, code)
Finish(s, code) ==
  /\ watches' = watches \ {s}
  /\ waiter' = IF waiter = s THEN NoStep ELSE waiter
  /\ Settle(s, code)

(* The handler of the escape sequence, in the view that is shown.  A view  *)
(* drops what comes in the 400 ms after a request was typed at the prompt; *)
(* whether one was is not kept: any report may be dropped.                 *)
Report ==
  /\ reports # <<>>
  /\ reports' = Tail(reports)
  /\ \/ UNCHANGED waitVars
     \/ waiter # NoStep /\ Finish(waiter, Head(reports))
  /\ UNCHANGED <<flowVars, viewVars, guessVars, input, running, signalled, exits, history>>

(* The interval of a step: its flow was stopped, or the prompt seems to    *)
(* have been back for 8 s                                                  *)
GivesUpIfStopped(s) == s[1] \in stopped  \* mutant: an interrupted step is not noticed
GivesUp(s) == s[1] \in stopped \/ tracker[view[s[1]]] = "idle"

Watch(s) ==
  /\ s \in watches
  /\ GivesUp(s)
  /\ Finish(s, "none")
  /\ alone' = IF alone = s[1] THEN 0 ELSE alone
  /\ UNCHANGED <<flowVars, viewVars, guessVars, shellVars, lastTyped>>

(* feedOutput: the prompt of the shell, or output that looks like one *)
SeemsAtPrompt ==
  /\ tracker[shown] = "running"
  /\ tracker' = [tracker EXCEPT ![shown] = "idle"]
  /\ UNCHANGED <<before, flowVars, viewVars, waitVars, shellVars, history>>

(* feedOutput: a command draws on the full screen, or leaves it *)
FullScreen ==
  /\ running # NoStep
  /\ \/ /\ before' = IF tracker[shown] = "alternate" THEN before ELSE tracker[shown]
        /\ tracker' = [tracker EXCEPT ![shown] = "alternate"]
     \/ /\ tracker' = [tracker EXCEPT ![shown] = before]
        /\ UNCHANGED before
  /\ UNCHANGED <<flowVars, viewVars, waitVars, shellVars, history>>

-----------------------------------------------------------------------------
(* The shell                                                               *)

ShellReads ==
  /\ running = NoStep /\ input # <<>>
  /\ running' = Head(input)
  /\ input' = Tail(input)
  /\ signalled' = FALSE
  /\ UNCHANGED <<flowVars, viewVars, waitVars, guessVars, reports, exits, history>>

(* A command reads what was typed for the shell *)
CommandReads ==
  /\ running # NoStep /\ input # <<>>
  /\ input' = Tail(input)
  /\ UNCHANGED <<flowVars, viewVars, waitVars, guessVars, running, signalled, reports, exits,
                 history>>

(* A command leaves the full screen and ends, and its report is printed;   *)
(* the tracker misses the sequence that leaves it when one that enters it  *)
(* came in the same output.  A signal may end it at once, without a        *)
(* report.                                                                 *)
CommandEnds ==
  /\ running # NoStep
  /\ \/ /\ \E code \in {"ok", "failed"} :
             /\ exits' = [exits EXCEPT ![running] = code]
             /\ reports' = Append(reports, code)
        /\ \/ /\ tracker[shown] = "alternate"
              /\ tracker' = [tracker EXCEPT ![shown] = before]
           \/ UNCHANGED tracker
     \/ /\ signalled
        /\ exits' = [exits EXCEPT ![running] = "failed"]
        /\ UNCHANGED <<reports, tracker>>
  /\ running' = NoStep
  /\ signalled' = FALSE
  /\ UNCHANGED <<before, flowVars, viewVars, waitVars, input, history>>

-----------------------------------------------------------------------------
FlowStep(f) ==
  \/ \E v \in ViewIds : Start(f, v)
  \/ Prepared(f) \/ Answered(f) \/ Defined(f) \/ DesktopDone(f) \/ Settled(f)

UserStep == Abort \/ TypeCtrlC \/ Rebuild

WaitStep == Report \/ SeemsAtPrompt \/ FullScreen \/ (\E s \in AllSteps : Watch(s))

ShellStep == ShellReads \/ CommandReads \/ CommandEnds

Next == (\E f \in FlowIds : FlowStep(f)) \/ UserStep \/ WaitStep \/ ShellStep

Spec == Init /\ [][Next]_vars

(* Intervals tick, output reaches the window, an idle shell shows its      *)
(* prompt and reads what was typed.  The commands of flows come to an end. *)
Fairness ==
  /\ \A s \in AllSteps : WF_vars(Watch(s))
  /\ WF_vars(Report) /\ \A f \in FlowIds : WF_vars(Settled(f))
  /\ WF_vars(ShellReads) /\ WF_vars(CommandEnds)
  /\ WF_vars(running = NoStep /\ input = <<>> /\ SeemsAtPrompt)

FairSpec == Spec /\ Fairness
-----------------------------------------------------------------------------
(* Properties                                                              *)

(* A step that is waited for is watched by its interval, and if its view   *)
(* is shown, it is the one the next report settles, unless another flow    *)
(* has typed a step there since: what was set up for earlier steps, of     *)
(* this flow and of others, which may still tick, takes neither from it.   *)
WaiterIsCurrent ==
  \A f \in FlowIds :
    pc[f] = "waiting" /\ result[f] = "open" =>
      /\ Current(f) \in watches
      /\ lastTyped = f => waiter = Current(f)

(* A flow that starts in the view that is shown, when the shell has        *)
(* nothing to do and no other flow types, keeps its reports apart, until   *)
(* another starts, the view is rebuilt, or a step of it is given up or     *)
(* stopped: a step is only begun when every step before it ended with code *)
(* 0, and the flow is told how the step ended that it waits for.  Flows    *)
(* that still wait in views that are gone, and their intervals, whatever   *)
(* they waited for, do not disturb it, nor does a Ctrl+C typed or a report *)
(* dropped.                                                                *)
StepsFollowSuccess(f) ==
  \A i \in 1 .. step[f] - 1 : exits[<<f, i>>] = "ok"

ToldTheTruth(f) ==
  pc[f] = "waiting" /\ result[f] # "open" => exits[Current(f)] = result[f]

OrderlyWhenAlone == alone # 0 => StepsFollowSuccess(alone) /\ ToldTheTruth(alone)

(* The shell gets the steps of a flow in their order, and no step twice,   *)
(* whatever was given up, stopped, interrupted or settled by the report of *)
(* another step, however flows overlap and views are rebuilt: what is      *)
(* typed and not read comes after the command that runs, and has not run.  *)
Before(s, t) == s[1] = t[1] => s[2] < t[2]

RunsInOrder ==
  /\ \A i, j \in 1 .. Len(input) : i < j => Before(input[i], input[j])
  /\ running # NoStep =>
       exits[running] = "none" /\ \A i \in 1 .. Len(input) : Before(running, input[i])
  /\ \A i \in 1 .. Len(input) : exits[input[i]] = "none"

(* How a step ended is never overwritten by a second run of it. *)
NoStepRunsTwice == [][\A s \in AllSteps : exits[s] # "none" => exits'[s] = exits[s]]_vars

(* How much is left of a flow at most: a step is first defined for or      *)
(* waited for, and the next one begins further down                        *)
PlaceLeft(f) ==
  CASE pc[f] = "new" -> 4 * Steps + 3
    [] pc[f] = "preparing" -> 4 * Steps + 2
    [] pc[f] = "asking" -> 4 * Steps + 1
    [] pc[f] = "defining" -> 4 * (Steps - step[f]) + 2
    [] pc[f] \in {"desktop", "waiting"} -> 4 * (Steps - step[f]) + 1
    [] pc[f] = "ended" -> 0

(* A flow never goes back to a step it has left, and a flow that has ended *)
(* does not run on: no late report, interval, stop, other flow or rebuilt  *)
(* view revives it.                                                        *)
FlowsRunOut ==
  [][\A f \in FlowIds :
       (pc[f] = pc'[f] /\ step[f] = step'[f]) \/ PlaceLeft(f)' < PlaceLeft(f)]_vars

(* A step does not wait for ever, even if its command never ran, was       *)
(* killed, or its report was dropped or went to another step; unless its   *)
(* view is gone, whose tracker sees no prompt any more, or the tracker is  *)
(* left on the full screen, where no prompt is looked for.                 *)
LeftOnFullScreen == tracker[shown] = "alternate" /\ running = NoStep

StepsEnd ==
  \A f \in FlowIds :
    (pc[f] = "waiting") ~> (pc[f] # "waiting" \/ view[f] # shown \/ LeftOnFullScreen)
-----------------------------------------------------------------------------
(* What a comment says, and the code does not keep: FlowRunner.ts, "step   *)
(* by step, stopping at the first failure".  StepsFollowSuccess, of every  *)
(* flow and always: the report of a step of another flow, which was given  *)
(* up, stopped or overlaps, settles a step.                                *)
StopsAtTheFirstFailure == \A f \in FlowIds : StepsFollowSuccess(f)
=============================================================================
