# Formal models of Cero (Sentinel Terminal)

TLA+ models of the parts of this repository where callbacks, timers, threads and
processes interleave, the TLC configurations that check them on small instances,
and proofs that TLAPS checks for instances of any size.

Cero is a Tauri desktop terminal.  The window (TypeScript, `src/src`) shows
terminal views, takes requests to an AI agent and runs them; the native part
(Rust, `src/src-tauri/src`) owns pseudo terminals, processes, downloads and the
local inference server.  JavaScript runs one callback at a time, so in the models
of the window an action is one callback: from an event, a timer or a resolved
promise up to the next `await`.  The Rust commands run beside it and beside each
other.

## 1. Inventory

| Part | State | Operations | Interacts with |
| --- | --- | --- | --- |
| Request runner (`presentation/TerminalView.tsx`, `stopKeys.ts`) | per view: busy flag, abort controller of the current run, pending runs, time of the last stop key, reference to `runQueuedItem` | type a goal, accept, run, settle, stop key, forced stop, stop event, resume event, mount, unmount | prompt queue (shared object, window events), hand-over (callback), agent loop (promise), consent queue, shell |
| Prompt queue (`presentation/PromptQueue.ts`) | items, running item, paused | enqueue, takeNext, remove, move, clear, setPaused, setRunningItem | every view, the queue panel, the status bar, the agent's queue tools |
| Hand-over (`presentation/TerminalRequests.ts`) | the handler of the focused view, waiting requests | submit, claim, release | app menus, flow files, workflows; the focused view |
| Choice requests (`presentation/ChoiceRequests.ts`) | handler of the focused view, dialog of each view | ask, answer, claim, release | agent loop, the view's dialog |
| Agent loop (`ai/agent/AgentLoop.ts`, `AdaptivePlanEngine.ts`) | per view: depth of its runs, consent to another provider, pending questions; per run: stage, round, failures, phase, prerequisites | run, stages, chain, rounds with the model, plan, repair, fallback, stop | request runner, choice and consent dialogs, tool execution, inference |
| Consent queue and dialog (`domain/security/ConsentQueue.ts`, TerminalView) | pending requests, the request the dialog of a view shows | enqueue, approve, deny, clear | tool execution, flow runner, views |
| Tool execution (`ai/agent/ToolExecutor.ts`, `domain/security/ExecutionEngine.ts`, `sdk/.../ShellSDKCapability.ts`, `process_cmds.rs`) | time-out and abort of a call, the run to cancel, registered and cancelled processes | execute, cancel, time out, exit | consent queue, agent loop, operating system |
| Flow runner (`workflows/flow/FlowRunner.ts`) | step, waiter for its report | type a step, report, give up, abort | shell, consent queue |
| Inference queue and engine (`ai/models/EmbeddedEngineManager.ts`, `embedded_server.rs`) | queue, active request, native slot, server process | enqueue, acquire, release, cancel a session, start, stop, warm up | agent loop, native part |
| Downloads (`downloads.rs`) | status and cancel flag per file, partial file | download, resume, cancel, remove | engine manager |
| Terminals (`pty.rs`, `domain/SessionManager.ts`, `domain/terminal/PtyStateTracker.ts`) | native sessions, listeners, kept output, guess of the shell's state | spawn, output, exit, kill, write, notify | views, flow runner |
| Action runtime (`runtime/`) | node states, queue, locks, session status | schedule, execute, retry, cancel, pause, resume, recover | (not reached from the application) |
| Watchers (`watcher.rs`) | offset, file identity | tail, stop | error watch service |

What is hard in it:

* one queue, one running item and one hand-over for all views, but a busy flag, a
  controller and an agent loop per view;
* gaps between a decision and its effect: the 150 ms timer between taking an item
  and starting it, the awaited write in the Ctrl+C handler, the awaited clearing of
  the line in the Enter handler;
* a pane is rebuilt as a new view whenever the layout changes, while what it started
  goes on in the old, unmounted one;
* a tool call that was reported as over while its dialog is open or its process runs;
* reports, markers and events that do not say what they belong to.

`PROJECT.json` lists the hazards at their lines, each with the properties that
watch it or the module of the plan that will.

## 2. Request runner

`RequestRunner` (over `PromptQueue`) is the core: a request is typed into a view, or
submitted from outside; it runs, waits in the queue, is moved or removed there, is
stopped, and ends.

| Model | Code |
| --- | --- |
| `items`, `runningItem`, `paused` | the fields of the `PromptQueue` singleton |
| `phase[v]` | a mounted view whose shell is not up (`starting`), is (`ready`), or that is unmounted (`gone`) |
| `queuedRef[v]` | `runQueuedItemRef`: unset until `initSession` assigned it, cleared by the unmount |
| `busy[v]`, `controller[v]` | `aiBusyRef`, `activeRunAbortControllerRef`; a controller is named by the request it aborts |
| `runs[v]` | requests whose promise in view `v` is pending: the code keeps no such set, it is the control state of the calls |
| `typing[v]` | Enter handlers that await the clearing of the shell line |
| `stops[v]`, `recent[v]` | Ctrl+C handlers that await their write; `lastInterruptTimeRef` less than 500 ms old |
| `timers` | the 150 ms timers, which fire in the order they were set |
| `owner`, `pending` | the handler and the queue of `TerminalRequests.ts` |
| `unsent`, `over`, `dropped`, `lost`, `starts` | history |

Actions follow the callbacks: `TypeGoal`/`FinishEnter` (the Enter key, around its
await), `Submit`, `Claim`, `Release`, `Settle` (the `finally` of a request),
`StartQueued`/`LoseQueued` (the timer), `StopKey`, `ForceKey`, `StopDone` (Ctrl+C,
around its await), `InterruptWindowEnds`, `AbortActiveRun` (the panel's stop event,
one callback for all views), `RemoveItem`, `MoveItem`, `ClearQueue`, `Pause`,
`Resume`, `Mount`, `SessionUp`, `Close`.

Abstractions: a request stands for its label, kind and runner; what the agent does
between the start and the end of a request is left out, its end may come at any time;
the order in which the views' listeners see the resume event is left open; the time
between a mount and the end of `initSession` is arbitrary.

`RequestService` is what all this promises: one line of requests, served from its
head, each served at most once, none seen again after it was served or withdrawn.
`RequestRunner!ServiceSpec` is its specification under the mapping *line = requests
behind a timer, then the queue*; TLC checks it as a property of `Spec`, and `ServesOneLine` proves it.

### Runs

| Run | Shows |
| --- | --- |
| `runner_views` | two panes, one of which is rebuilt once, three requests: types, `BusyIsJustified`, `ShownRequestIsPending`, `EachRequestInOnePlace`, `HandoverIsLive`, `PausedQueueIsHeld` and the refinement `ServiceSpec` |
| `runner_steady` | two panes that stay up, three requests: `QueueIsDriven`, and the liveness properties `QueueMoves` and `RequestsEnd` |
| `claim_no_loss` | a resume hands an item to a view whose shell is not up, or that is unmounted within 150 ms, and the item vanishes |

Two more disagreements are steps of the model, and no property denies them.  The comment
"One request at a time" at TerminalView.tsx:1470 does not hold: a request that comes in the
150 ms after the end of another starts, and so does the item taken before (`StartQueued`
looks at no busy flag).  Ctrl+C in a rebuilt pane does not reach the request still running
in the view that the pane had before (`StopKey` aborts the controller of its own view).

**Bounds.** Two panes are the least at which one pane's end, stop or resume meets
another's run; three views let a pane be rebuilt while the other one is used.  With
three requests the queue holds two while one runs, so that order, `move` and the line
of `RequestService` matter.  `MaxStops` bounds the stop handlers of one view that await
their write at the same time (the code allows any number): one in the passing runs,
where it already overlaps settles, starts, the stop event and the handlers of the other
pane; two in the claim; any number in the proofs.  The views run uses symmetry of the
requests; the liveness run uses none.

**Fairness** (`SteadySpec`).  Timers fire and awaited writes to the shell return, so
`StartQueued`, `FinishEnter` and `StopDone` are weakly fair.  `Settle` is weakly fair
because every request ends: the tools it calls run under a time-out
(`ToolExecutor.resolveAdaptiveTimeout`), which also covers a consent that nobody gives,
and the number of its steps is bounded (`RequestsEnd` of section 7).  A choice dialog
has no time-out: for those the fairness assumes an answer.  Nothing else is assumed of the user: no stop, resume or
edit needs to happen.  The steady run has no `ViewStep`, because an item handed to
a view that is unmounted in the next 150 ms is lost (`claim_no_loss`).

### Proofs

`PromptQueue_proofs` holds lemmas on what removing, moving, taking and adding do to a
sequence without duplicates, of any length.  `RequestRunner_proofs` proves, for any
number of views, panes and requests:

| Theorem | Argument |
| --- | --- |
| `TypeCorrect` | `TypeOK` is inductive; the queue operations need the lemmas on `RemoveAt` and `Moved` |
| `BusyJustified` | `TypeOK /\ BusyIsJustified` is inductive: whatever ends, `Settle` clears the busy flag, so the only way to be busy is a start after it |
| `ShownPending` | `TypeOK /\ ShownRequestIsPending` is inductive: every end clears the one running item |
| `HandoverLive` | `TypeOK /\ HandoverIsLive` is inductive; a rebuilt pane gives up the hand-over in the step that unmounts its old view |
| `PausedHeld` | an action property, from `TypeOK` alone |
| `QueueDriven` | of `SteadySpec`: `QueueIsDriven` together with `SteadyInv`, which says that the views stay as they are, that requests come in through a view only (with no view nothing is queued), and that a timer set by a resume finds the runner of its view, so that no item is lost. A resume that leaves items behind left them because every view is busy, and `BusyJustified` then gives the pending request |
| `OnePlace` | `PlacesInv` is inductive: a function `at` gives each request the number of its place in `Places`, and each step changes it for the requests it moves. The lemmas `FamilyAdd` and `FamilyRemove` treat the sets of the views, `AcceptPlaces`, `OneTaken` and `TakenFromQueue` the steps that move requests between queue, timers and views |
| `ServesOneLine` | the refinement `ServiceSpec`, for a finite set of requests, from `TypeOK` and `PlacesInv`: a timer that fires serves the head (`LineServes`), taking items from the queue leaves the line as it is (`LineStays`), a batch joins its end (`LineJoins`, `ServiceArrives`), and what is removed leaves the others in order (`OrderBehindTimers`) |

| `StopsHit` | `TypeOK /\ StopsHitThePending` is inductive: every controller a view holds and every signal that has fired belong to a request whose promise is pending, and `Settle` forgets both. `NoneStartsStopped` follows: no request starts with its signal fired |
| `LostInOneWay` | an action property, from `ReadyHasRunner` (a view whose shell is up has its runner): only a timer set by a resume loses a request, and only when its view is unmounted or has no shell yet. `NoneLostWhileViewsStay` proves of `SteadySpec`, with `SteadyInv`, the claim that `claim_no_loss` refutes: as long as the views stay, no request is lost |

`RunSteps` collects the steps that touch the runs of the views, so that each
invariant is proved action by action for those and once for all others.

The assumptions are those the modules state: null values are not members of the sets
they extend, every view belongs to a pane, and no two initial views share one.

Only model-checked: `QueueMoves` and `RequestsEnd` (liveness is outside the reach of the
prover), which `QueueDriven` supports: no request waits without something to wait for.

`StopsHitThePending`, `NothingStartsStopped` and `OneWayToLose` are proved and in no run;
to repeat their check on an instance, add them to `runner_views.cfg`, in which TLC found no
violation of them.  The same goes for such properties of the next sections and the runs
named there.

## 3. Consent and tool execution

`ConsentQueue` models the requests for the user's consent, one queue for all views,
and the dialog in which each view shows one of them.  `ToolCalls` extends it with the
calls that wait for the answers, the shell driver they share and the native commands
it starts.

| Model | Code |
| --- | --- |
| `pendingRequests`, `since` | the map of `ConsentQueue.ts`; `since` is its order of insertion, in which it is read |
| `subscribed`, `dialog[s]` | the listener and the `securityModalPlan` of the view of session `s` |
| `outcome[c]` | what `ToolExecutor.execute` returned to its caller: the first of execution, time-out and abort |
| `stage[c]` | where `ExecutionEngine.execute` is; it goes on whoever won that race |
| `runningRunId` | of `ShellSDKCapability`: one field for all calls |
| `proc`, `exit`, `output` | a command of `process_cmds.rs`: asked for, started, in `RUNNING`, its process gone (`exited`, until pipes are drained), answered, received |
| `cancels[c]` | a `cancel_command` for the run: sent, process found, run marked |
| `marked`, `doomed` | `CANCELLED`; the processes that were sent SIGTERM |

A notification and the handler that caused it are one callback, so `AnswerFromDialog`
applies `Notify` and then closes the dialog: the code calls `setSecurityModalPlan` with
the next request from the listener and with `null` from the handler, and React keeps
the last.  The native actions run on their own threads: the look-up, mark and kill of
`cancel_command` are three actions, since it releases its lock after each.

Abstractions: the policy's answer is a choice; a call refused by
`CommandSafetyGuardian`, which returns before anything else, is a policy refusal.  The
driver's `isExecuting` and cancel token are left out, because the shell driver only
reads the token before its first await.  The audit entry is part of `Conclude`.  The
`cancel()` that the time-out of a call awaits is sent in the step that settles the
call.  The driver's time-out has the length of the call's and starts later, so it fires
only after the call is over; its cancel and the end of its execution are one step.
`cancel_command("*")` acts in the step in which it arrives and finds the registered
runs.  `Report` is the end of `run_command` with its guard: a mark set between the two
is removed unseen.  A mark set after the guard is gone stays in the table, unused,
because no later run has its id.

`CommandGate` is what both promise together: a command runs at most once, only when
the policy or the user allowed it, never after it was refused.  `GateSpec` is its
specification under the mapping `StatusOf`.

### Runs

| Run | Shows |
| --- | --- |
| `consents` | four requests (two of one tab, one of another, one of no tab), two views that come and go: `DialogIsCurrent`, `OneViewHidesAtMost` |
| `tools` | two calls in one view, one of which can be aborted: types, `PendingIsAwaited`, `RunToCancelIsPending`, `OutcomeIsHonest`, `ReportIsTrue`, and the refinement `GateSpec` |
| `tools_end` | one call with fairness: `CallsEnd`, `CommandsEnd` |

Five more steps are in the model as they are in the code, and no property denies them:
stopping one call cancels the command of another, when the other was started later
(`runningRunId` is one field); a
call that was aborted or timed out leaves its request open, and approving it runs the
command (`Approve`); a cancel that comes before the process is registered is dropped (`CancelLookUp`), a view
that goes before its shell was created refuses the requests of all tabs
(`UnmountBeforeSession`), and the forced stop of one pane kills the commands of all
(`ForceKill`).

**Bounds.** The four requests are the least with two in one tab, so that an answer has
a next request to hide, one in another tab and one that both views show.  Two calls are
the least at which the shared `runningRunId` names the wrong one; the rest of a call's
state is its own, so that a third adds no new interaction.  The consent queue is
finite-state without further bounds: a call asks once.  `tools_end` has a single call:
no fair action of a call waits for another call.

**Fairness** (`FairSpec`).  Timers fire (`TimeOut`, `CommandTimeOut`: the driver always
sends a `timeoutMs`), messages between window and native part arrive and native tasks
run (`Spawn`, `Register`, `Report`, `Reply`), the audit entry is written (`Conclude`).
A process need not end by itself, and nothing is assumed of the user.

### Proofs

For any number of calls, sessions and views:

| Theorem | Argument |
| --- | --- |
| `ConsentTypeCorrect`, `DialogCurrent` | inductive with the types; after any step a dialog is closed, or was just set to the first request of the new queue, or belongs to a step that changed no request (`DialogAfterStep`).  `FirstExists`: a map has a first entry, from the well-foundedness of the naturals |
| `HiddenOnce` | inductive with the types: every change of the queue shows every view its request, an answer closes one dialog |
| `UsesQueue`, `DialogOfCalls` | every step of `ToolCalls` is one of `ConsentQueue` or leaves it alone, so its theorems hold here |
| `ToolTypeCorrect` | inductive, with `DialogIsCurrent` for what an approval starts |
| `PendingAwaited`, `HonestOutcome`, `PendingRun` | inductive together with `StagesAgree`, which relates the stage of an execution, the outcome and the command: without it a call could begin twice, or a refused one could have a command |
| `TrueReport` | `MarksAgree` is inductive: a cancel finds only registered runs and marks before it kills, so a process that was sent a signal is marked until its report |
| `ImplementsGate` | step by step, from the invariants above |
| `NothingTakenBack` | an action property, from the types: `outcome`, `stage` and `proc` each have an order (`OutcomeLeft`, `StageLeft`, `ProcLeft`), and every race of time-out, abort, answer and exit is decided by a guard that keeps to it |
| `CallersAreServed` | `BegunAndNotOver` (the stages of an execution whose caller still waits) is inductive with the invariants above: a caller without an outcome waits for a request that is pending, for the audit entry, or for a command that the native part has |

The assumptions are that null values are not calls or sessions and that a request's tab
is a session or none.  The liveness properties are only model-checked; the last two
theorems are the parts of them that can be proved: nothing goes back, and nobody waits for
nothing.  They are in no run (`tools.cfg` is the instance to check them on).

## 4. Flows

`FlowRunner` models flows typed into a terminal: `runFlowInTerminal`, the waiter and the
interval that the view gives it for every step, the handler of the end-of-step reports,
and the guess of `PtyStateTracker` whether the shell is at its prompt.  The shell and the
commands are external: a line typed, a command that runs, a report on its way.

Flows may overlap.  `runQueuedItem` does not look whether the view is busy
(TerminalView.tsx:1049-1051), and Ctrl+C (1133), or the end of a flow (1043), frees a view
while another flow of it still waits; both then share one `flowStepWaiter`, and the step
typed last has it (994).  When starts overlap is a matter of the request runner (section
2); here the next flow may start at any time (`Start`).  The layout may also rebuild the
pane as a new view of the same shell (1596-1617, `Rebuild`): the flows of the old view go
on, but its output handler, and with it its waiter and its tracker, hear nothing any more.

| Model | Code |
| --- | --- |
| `pc`, `step`, `defined` of a flow | the `await` it is at, `i` and `definedMarker` of its loop |
| `view` of a flow, `shown` | the view in whose closures it runs; the view that is mounted |
| `stopped` | flows whose abort signal has fired |
| `controller` | `activeRunAbortControllerRef` of the view shown: the flow Ctrl+C stops |
| `result` of a flow | the race of `nextStepResult()` and the abort: open, an exit code (`ok`, `failed`) or `null` (`none`) |
| `waiter` | `flowStepWaiter` of the view shown, one variable for all its flows |
| `watches` | the intervals of 500 ms that have not been cleared, of all views |
| `tracker` of a view, `before` | `state` and `previousStateBeforeAlt` of its `PtyStateTracker` |
| `input`, `running`, `signalled`, `reports` | the terminal: lines not read, the command in front and whether Ctrl+C reached it, reports printed and not yet parsed |
| `exits`, `alone`, `lastTyped` | history: how commands ended; the last flow, as long as nothing has disturbed it; the flow of the view shown that typed last |

A report is an exit code and nothing else (`cero-step;<code>`), so `Report` settles
whichever step has the waiter of the view shown, or nobody; and it may be dropped, by a
view that hides the redraw of its shell after a request was typed at the prompt
(TerminalView.tsx:661, for 400 ms).  The interval gives a step up when its flow was
stopped or the shell seems idle for 8 s (`GivesUp`): the prompt is guessed from the end
of the output, so any program whose output ends like a prompt can be taken for it
(`SeemsAtPrompt` may happen at any time), and on the full screen no prompt is looked for
(`FullScreen`).  The tracker does not see a full screen left in the same chunk of output
that entered it (PtyStateTracker.ts:85-91): it may stay there after any command.
A flow that is stopped while the report function is typed has passed the check of its
loop: it types its step all the same, after a Ctrl+C (`TypeStep`).

Abstractions: the line that defines the report function and the Enter after a flow are
not in `input`; a line is in `input` in the step that writes it; writes do not fail
(the shell lives); of what the user types only Ctrl+C is there (`Abort`, `TypeCtrlC`).
Ctrl+C may or may not discard what was typed ahead, which is a setting of the terminal.
A command that dies of SIGINT ends its line without a report, as in `sh`; one that
handles it reports.  A request that is no flow and takes the controller of the view is
left out, and so are the reports in the output a new view replays, which find no waiter.

### Runs

| Run | Shows |
| --- | --- |
| `flows` | two flows of two steps, which may overlap, in a pane rebuilt once: types, `WaiterIsCurrent` (a step that is waited for is watched, and has the waiter of the view shown unless another flow typed there since, whatever older intervals do), `OrderlyWhenAlone` (a step is only begun when all before it ended with 0, and the flow is told how its step ended, as long as the flow is alone), and `StepsEnd` (no step is waited for for ever) |
| `claim_first_failure` | FlowRunner.ts:101, "stopping at the first failure", does not hold: of two flows that overlap in one view, the report of the one settles the step of the other |

`OrderlyWhenAlone` needs what its name says: the flow starts when the shell has nothing
to do and no other flow types, and then no other starts, the view is not rebuilt, and no
step of it is given up or stopped.  Flows that still wait in views that are gone, and
their intervals, do not disturb it, nor does a report dropped or a Ctrl+C typed.

`StepsEnd` has two exceptions, which the run needs: a flow whose view is gone is not
given up by its interval unless the old tracker was left idle, and nothing stops it; and
a tracker left on the full screen sees no prompt (`LeftOnFullScreen`), so that a step
that never reports is waited for until it is stopped.

**Bounds.** Two flows are the least that can overlap, and at which a report or an
interval can outlive its flow; two steps the least at which a flow goes on; two views the
least for a rebuild.  The properties of the last theorems below hold on the instance too.

**Fairness** (`FairSpec`).  Intervals tick, output is parsed, a settled promise
continues, an idle shell reads what was typed and, when there is nothing, shows its
prompt.  Commands end: a flow may wait for a command as long as it runs.

### Proofs

For any number of flows, steps and views:

| Theorem | Argument |
| --- | --- |
| `FlowTypeCorrect` | inductive as it stands; the steps a flow types are its own (`NextStep`) |
| `WaiterCurrent` | inductive with `Beginnings`: the flow that typed last in the view shown was started there.  A step that is typed takes the waiter, `finish` clears it only if it is its own, and a rebuild leaves no flow that typed there last |
| `OrderWhenAlone` | `OrderInv`: while a flow is alone, the others cannot type (`Silent`), the terminal holds nothing between two steps, and while a step is waited for at most one of its line, its command and its report, whose code is how the command ended |
| `InOrderAlways`, `RunsOnce` | `RunsInOrder` needs `ShellInv`: what was typed for a flow comes before the step it is at, also after steps were given up, flows stopped and reports taken for those of other steps, however flows overlap.  What is lost by these is the truth about how a step ended, never the order of the steps of one flow, and no step runs twice |
| `FlowsRunOutProved` | `PlaceLeft` counts what a flow has left to do, and every step of it leaves less, from the types alone |

The assumptions are a number of flows, at least one step and at least one view.
`StepsEnd` is only model-checked; the last theorem says that a flow has finitely many
steps to take, so that what is left to TLC is that a step is not waited for for ever.
The last three properties are in no run (`flows.cfg` is the instance to check them on).

## 5. Downloads

`Downloads` models the download of one file of `~/.cero`: `download_to` and the
commands around it in `downloads.rs`, and the calls of `nativeDownload`, `cancelDownload`
and `deleteModel` in `EmbeddedEngineManager.ts`.  The table of downloads has one entry per
file, and the files do not interact, so one file is enough.

| Model | Code |
| --- | --- |
| `dest`, `part` | the file and `<file>.part`: length in chunks, and whether it is the beginning of the right file |
| `phase`, `served` | where `download_to` is, and whose call it is; `idle` is an entry that is not `active` |
| `have`, `at`, `attached` | the length read before the request, the position in the stream, and whether the open file is still the one at the path |
| `cancel`, `removing` | the flag of the entry; a `remove_file` of the partial file that is under way |
| `pc`, `attempt`, `reply` | a call of `nativeDownload`: its loop, and the answer on its way to the window |

A removed file stays open: the writer goes on writing to a file without a name
(`attached`), and finds out at the check or the rename.  Every new entry has a flag of
its own, so a cancel that comes while an attempt fails is lost on the retry, and one
that comes after the last chunk is not looked at; a discard in the check makes it fail,
which the window tries again from the start.  These steps are in the model; no property
denies them.  `Crash` ends the window and the native part together and keeps the files.

Abstractions: a chunk is all right or wrong; an error of the network, the server, the
disk or the operating system is `Fail`, at every step; the status shown as progress is
left out; checksums are always given, as both callers do.  The window disables its
buttons while a cancel or a deletion runs, so `removing` is one removal at a time.
The model of the window ends where the native command does not exist (`null`, then
`curl`).  The window tells that by the text of the error (EmbeddedEngineManager.ts:890,
`not found`), which an answer 404 of the server matches too: that call also goes on with
`curl`, outside the model, where a `Fail` stands for a try with another attempt after it.

`FileService` is what this promises its callers: one is served at a time and the others are
turned away, the file comes whole in the moment the one served is told so, each attempt is
answered once, and their number is fixed.  `ServiceSpec` is its specification under the
mapping `file <- dest`, `call <- CallOf`, `tries <- attempt`: positions, the partial file,
cancels and discards are not seen from there.

### Runs

| Run | Shows |
| --- | --- |
| `downloads` | two callers, three calls with one retry each, a file of three chunks: types, `FileIsWhole` (the file is absent or is what its checksum says), the refinement `ServiceSpec` (one download at a time, and each end answers its own caller), `ProgressIsKept` (no cancel, error, crash or resume shortens the partial file), `CallsEnd` |

**Bounds.** Three chunks give a stream a first, a middle and a last position to resume
from; two callers and a third call are the least at which a call meets the download of
another, and one starts over a file that is already there.  Cancels, discards,
deletions and crashes are not bounded.

**Fairness** (`FairSpec`).  A download makes progress or fails: a server that stays
silent for ever is outside the fairness, and in the code nothing ends such a wait
but the connection.  Calls and replies arrive.

### Proofs

For any number of callers, chunks, retries and calls, from one inductive invariant,
`DownloadsInv`:

| Theorem | Argument |
| --- | --- |
| `DownloadsTypeCorrect` | the types need `PositionsAgree`: what is written to is no longer than the position in the stream, also if the file was removed and created anew |
| `FileWhole`, `OkTrue` | `CheckedIsWhole`: between the check and the rename only a removal can touch the path, since the active entry keeps every other writer out.  So the rename that answers "ok" moves the whole file, to the caller it was fetched for, and nothing else puts a file there |
| `WaitingServed` | `WaitingIsServed` needs `NoStrayReply` |
| `ProgressKept` | an action property, from the invariant |
| `CallsRunOutProved` | `CallLeft` counts the steps a call has left over all its attempts; no caller, cancel, discard or deletion adds to another's, and each step of the native part takes one from the call it serves |
| `ImplementsService` | the refinement `ServiceSpec`, step by step, from the invariant and `ServesSomebody`: who is served is a caller.  Each end of a download is `Deliver` or `Disappoint` of the one it served (`FinishIsAnswer`), each step between leaves the service as it is |

The assumptions are natural numbers, at least one chunk, and a null value that is no
caller.  `CallsEnd` is only model-checked, supported by `CallsRunOutProved`.  `OkIsTrue`,
`CallsRunOut` and `WaitingIsServed` are in no run (`downloads.cfg`).

## 6. Inference

`InferenceEngine` models the embedded model that all tabs share: the queue of
`enqueueInference`, what happens to the request in progress (`EmbeddedProvider`), the
search for a provider that starts the server (`AgentLoop.resolveAvailableProvider`), and
the native side, which owns the server and mirrors the queue.

| Model | Code |
| --- | --- |
| `queue`, `enqueued` | `inferenceQueue`: the number with which each waiting request came |
| `active`, `ticks` | `activeInferenceRequest` (and `isProcessingQueue`); the timers that take the next |
| `pc[r]` | the `await` at which a request stands: the search, the queue, the slot, one of the two endpoints, the restart, the wait for the server, the release |
| `phase`, `grammar`, `retried`, `aborted` | the locals of its call |
| `cpuFallback` | `isCpuFallbackMode` |
| `calls` | native commands sent and not run: synchronous commands run on the main thread, in the order sent |
| `server`, `mode`, `served` | the child process, its `-ngl` argument, the requests it works on |
| `slot`, `nativeQueue` | `INFERENCE_STATE` of `embedded_server.rs` |
| `operator[o]` | a panel, a warm-up or an adapter reload that starts and stops the server |

`InferenceService` is what the queue promises: requests wait, one is served, first come
first served, each is answered once.  `InferenceEngine` implements it under the mapping
`place <- queue, joined <- enqueued, serving <- active`.

Some facts the model keeps and no property denies: a health check that runs into its 2 s
while the server works lets another tab's search start the server again, which kills it under
the request at work (`Detect`, `NativeStart`); `waitForReady` does not report whether the
server became ready (`Warmed`); the restart on the CPU happens only when the server answers
with an out-of-memory error, since the message of a server that died ("Failed to fetch") is
none of those `isVramExhaustionError` looks for (`OutOfMemory` needs a served request);
`resetCpuFallback` has no caller, so the fallback lasts.

Abstractions: prompts and answers; which endpoint words an error how; where binary and
models are found (a start may be refused); adapters; progress and metrics.  The queue of
the native side is only ever filled if an acquire finds the slot taken, which the proof
excludes, and it is in the model for that.  `cancelSessionRequests` is exercised by the
tests of the repository and by no view yet.

### Runs

| Run | Shows |
| --- | --- |
| `inference` | three requests of two tabs, one of which may be closed, one with a grammar, one that may be cancelled, one operator: types, `OnlyActiveIsServed`, `QueueIsDriven`, `FallbackSticks`, `SlotMirrorsActive`, the refinement `FirstComeFirstServed` and the liveness property `QueueDrains` |

**Bounds.** Three requests let two wait behind one, so that order matters and a close can
take one from between; two tabs, so that a close meets the request of the other.  The
request with a grammar and the one with a signal stand for the two retries and cancels; a
second of each only repeats them.  One operator is enough to race with a recovery, with
a search and, as a reload, with itself.  At most one close is on its way at a time.  The
proofs bound nothing but that.

**Fairness** (`FairSpec`).  The event loop runs what is due: timers, and continuations whose
promise is settled.  The main thread runs the native commands.  Every call of the server
ends; the code sets no time limit for it, so that a server that hangs holds the queue of
all tabs (a listed hazard).  The server need not become ready nor stay alive.

### Proofs

For any number of requests, tabs and operators, from one inductive invariant, `IInv`:

| Theorem | Argument |
| --- | --- |
| `EngineTypeCorrect`, `EngineInvariant` | `IInv` joins the types with: a request stands in the queue exactly when its number is not 0, only the active one holds the slot or calls the server, and its commands are the ones its place waits for |
| `OneServed` | every way out of the server hangs up, and only the active request is there |
| `QueueDriven` | `active` is cleared only together with a new timer, and a request that comes while none is active is served in that step |
| `SlotMirrors` | an acquire is sent only after the release of the one before it; commands are first in, first out |
| `FallbackKept` | `FallbackInv`: behind the last stop on its way, every start is on the CPU |
| `ServiceImplemented` | step by step, from `IInv` |
| `RetriesBounded` | `StepsLeft` counts what a request has left at its place, with its grammar and before the restart on the CPU: every step of it leaves less, and no other tab, panel or end of the server gives it more.  The bound does not rest on the flag `retried` but on `cpuFallback`, which nothing resets |
| `NobodyStranded` | `NobodyIsStranded` is inductive with `IInv`: commands are answered in the order sent, and a kill of the server takes none off the line |

`QueueDrains` is only model-checked.  The last two theorems are the parts of it that can be
proved; their properties are in no run (`inference.cfg`).

## 7. Agent loop

`AgentLoop` models how the requests of a view go from their text to commands
(`AgentLoop.ts`, `AdaptivePlanEngine.ts`); it extends `ChoiceRequests`, the dialogs in
which the loop asks.  Here requests may overlap, as remediations do, and what `RequestRunner`
and `ToolCalls` model in detail is one step: the start of a request, and the return of a
call with one of its results.

| Model | Code |
| --- | --- |
| `req[r].at` | the `await` at which a request stands, or the point between two where it looks at its signal |
| `mode` | how it is executed: in rounds with the model, as stages, as steps of the intent model, as a chain, or as the plan of an answered question |
| `round`, `strikes`, `stage`, `phase`, `subs` | loop variables of `runLLMLoop`, `executeMultistageWorkflow`, `executeIntentSteps`, `runChain`, `executePlan`; `subs` is the recursion of `executeSinglePhase`: sub-phases left, innermost first |
| `call` | the call under way: with the signal (`running`, or `cancelled` by it), without (`deaf`), or made after it fired (`barred`: `ToolExecutor.execute` returns at once) |
| `gated` | the repaired action was rejected too |
| `reads` | files or listings begun in the series under way (`readReferencedFiles`, `readErrorSources`, the lists of a look-up) |
| `runDepth`, `externalConsent`, `question` | the fields of the loop; of `externalConsent` whether it is set (one other provider) |
| `owner`, `dialog` | the handler of `ChoiceRequests.ts`, `choiceRequest` of each view |
| `late`, `looks`, `heedless`, `alone`, `yes` | history: commands and series of reads begun after the stop; whether code that looks at no signal began something; who was alone; who said yes |

Every step of a request is a set of states it can go to (`Step`): what the texts of the
person, the model and the commands decide is a choice between them.  Four kinds of call
differ in what a stop does to them.  `Call` is made with the signal.  `DeafCall` is made
without it within code that otherwise looks, `Read` too, but only reads, often several
times in a row.  `HeedlessCall` is made by code that looks at no signal at all: the stages
of a multi-stage request (2095, 2158), many shortcuts (1799, 1969), the plan of an answered
question (1538).  The places of `DeafCall` and
`Read` (lines of `AgentLoop.ts` unless another file is named):

| Place | Call | Line |
| --- | --- | --- |
| `"retry"` | a phase again, after its prerequisites or what was to be done at the computer | `AdaptivePlanEngine.ts` 458, 414 |
| `"reading"` | files a request names, before the first round: two at most | 4190, 2360-2387 |
| `"tried"` | a command and its rewrites for this platform, at once, read-only or as a dry run | 4729, `ShadowPtySimulator.ts` 94, 621 |
| `"listed"` | what runs, what is installed, what is on the path, one list after another | 3303, 3311, 3391 |
| `"sources"` | files an error names, and what they import: up to four that can be read | 5053, 2389-2403 |

Nothing looks at the signal between two reads of a series either, so a stop in the first
lets the rest begin.

Abstractions: a shortcut (a command that needs no model: open, list, navigate, undo, quit,
and so on) is one call or several, each with or without the signal; its own dialogs are
left out.  A requested replay of a workflow, and a request that runs another (`runTaskAndSave`),
are left out.  The retries for a reply that was cut off or unfounded are rounds like
others.  The commands of one trial on the side begin together and are one read; how it
scores them is left out, as are learning, transcripts and metrics.  That the sources of
errors are read for an inspection question only, and not again once they explained one
(`explainedFromSources`), is left open: the model may read them after any failure that is
followed by another round.

### Runs

| Run | Shows |
| --- | --- |
| `agent` | two requests of one view, which follow each other or overlap; the first can be stopped at any point, the second runs without a signal: types, `LittleAfterStop`, `AskedWhenAlone`, and the liveness property `RequestsEnd` |
| `claim_stop` | docs/releases/linux.md:24, "Ctrl+C stops the running request and its command", does not hold: a stopped request in stages goes on to begin commands |

`LittleAfterStop` says what does hold outside the code that looks at no signal.  Either a
stopped request begins at most one command, and one for each phase of its plan that still
waits for prerequisites, because each is called again when they are over (`late`).  Or it
begins no such command, and goes through at most three series of reads (`looks`): the stop
falls before a command is tried on the side, the command itself is then barred, what it
named is looked up, and the sources of its error are read; the next round notices the
signal.  A stage of a multi-stage request that ends with a look-up may also be followed by
the files the next stage names, when neither needs a call of its own.  A series counts once
it begins, or goes on, after the signal; how many reads it holds is bounded by the places
above and not by the property.

`AskedWhenAlone` is about `externalConsent`, which the outermost run resets: requests that overlap share it, and a
request that none overlapped never lives on the yes given to an earlier one.  A queued
request that is taken for the answer to a question of the one before is a step of the
model, and so is a plan that goes on after a failed phase; no property denies them.

**Bounds.** Two requests are the least at which the depth and the consent of a loop are
shared or outlive a request.  The code's 8 rounds (`MAX_STEPS`) are `MaxSteps`, given per
request: two for the one that is stopped, so that one round follows another, and one for the
other.  `MaxStrikes` is 2 instead of 3, so that failures in a row end the rounds within two
of them.  `MaxParts` bounds stages, phases, links and calls of a shortcut, all alike, and
`MaxReads` the reads of a series: both are two for the first request, so that one follows
another, and none for the second, which cannot be stopped.  `MaxDepth` = 2 lets a phase wait
for prerequisites of a prerequisite.  In the code a series on entry has two reads, and one of
sources as many as there are files to try, of which four are kept.  The proofs hold for any
values.

**Fairness.** The code goes on: calls return (the time-out of the tool executor), the model
replies.  Nothing is assumed of the person, so that `RequestsEnd` ends in a dialog or in the
end; a question that another one replaced, or whose view went, is never answered.

### Proofs

For any number of views, requests, rounds, parts and prerequisites, from one inductive
invariant `IInv`:

| Theorem | Argument |
| --- | --- |
| `AgentInvariant`, `AgentTypeCorrect` | `Sound` bounds each counter by the place at which the request stands, and `runDepth` counts the running requests of the loop, so that it never drops below zero |
| `LittleBegins` | `LateInv`: a request has begun nothing after its stop (`Clean`); or only series of reads, no more than its place allows (`Looking`, `LooksAt`: the place decides which series can lie behind it); or only commands, and then it stands where no call but the retry of a waiting phase can follow, and what was begun and the phases that still wait never exceed `MaxDepth + 1` together (`Retrying`).  Not inductive without the places: what keeps a fourth series from beginning is that the round, the plan and the last call look at the signal first |
| `ConsentIsOwn` | `ConsentInv`: while a request that is alone runs, its loop holds a consent only if its own dialog was answered with yes; `AloneInv`: it is the only one of its loop |
| `NoCirclesProved`, `WorkRunsOut`, `WorkIsFinite` | `WorkLeft` is what a request has left: stages, questions, rounds, phases, reads and prerequisites as a tuple, outermost loop first.  Every step of a request goes down in their lexicographic order (`Less`), the order is well-founded for all values of the bounds, and the tuple is always one of natural numbers: no request takes steps for ever |
| `DialogsAreAwaited` | `DialogIsAwaited` is inductive with `IInv`: what a view shows is the question its asker waits at, and it is shown in one view |

All steps of a running request are moves of that request alone, to a sound state (`Moves`),
so that each is proved once for all conjuncts of `IInv`.  `RequestsEnd` is only
model-checked: what is proved is that the steps run out, what is left to TLC is that a
running request always has one.  `NoCircles` and `DialogIsAwaited` are in no run
(`agent.cfg`).

## 8. Plan

Done, in the order of the sections: the request runner with its queue, consents and tool
calls, flows, downloads, inference with its native mirror, agent loop and choice dialogs.
What is left, most important first:

1. Flows in the queue of the request runner, whose start and end they share.
2. Terminals and sessions: early output, replay, exit, clearing of the line.
3. The engine archive that is unpacked after its download.
4. Agent loop: the replay of workflows and requests that run others.
5. Watchers, session persistence.

Proofs.  Every invariant and action property of the runs is proved for all values of the
constants, and so are the five refinements (`RequestService`, `CommandGate`, `FileService`,
`InferenceService`, and `ToolCalls` of `ConsentQueue`).  Liveness needs fairness and
ENABLED, which the prover does not treat, and stays with TLC.  Three kinds of theorem
carry its argument beyond the instances: that nothing goes back or round in circles
(`NothingTakenBack`, `FlowsRunOutProved`, `CallsRunOutProved`, `RetriesBounded`,
`NoCirclesProved` with `WorkRunsOut`), that who waits waits for something on its way
(`QueueDriven` of both queues, `CallersAreServed`, `NobodyStranded`), and that what is
asked is shown (`DialogsAreAwaited`, `DialogCurrent`).  What remains is that each step on
the way is enabled until it is taken.  Still to prove: the order of answers in
`ChoiceRequests` for itself, and, with the first points above, their invariants.

## 9. Not modelled

Text classification, prompts and the model's answers (no shared state; in the agent loop a
choice), operating system drivers (one-shot I/O), rules of the security engine (pure
functions on command strings, unit-tested), drawing, and the modules that
`docs/CODEBASE_MAP.md` lists as not reached from the application, among them the action
runtime with its scheduler and locks.  Remediations (`>fix`, Tab on an offered fix, the fix
button), which start the agent without the busy flag, are requests without a signal in
`AgentLoop` and not part of `RequestRunner`.  `PROJECT.json` lists every part with its
status.
