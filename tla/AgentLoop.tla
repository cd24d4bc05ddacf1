----------------------------- MODULE AgentLoop ------------------------------
(***************************************************************************)
(* The agent loops of the terminal views (src/ai/agent/AgentLoop.ts) and   *)
(* the plans they execute (src/ai/agent/AdaptivePlanEngine.ts): how a      *)
(* request goes from its text to commands, by a shortcut, in stages, as a  *)
(* chain, in rounds with the model or as a plan; what it asks the person   *)
(* on the way; and what becomes of it when it is stopped.                  *)
(*                                                                         *)
(* A request is in a queue and consents to commands are asked in modules   *)
(* of their own (RequestRunner, ToolCalls): here requests of one view may  *)
(* overlap, and a call of a tool returns "ok", "failed" (a time-out too),  *)
(* "declined" or, when the signal of the request fired, "cancelled".       *)
(***************************************************************************)
EXTENDS ChoiceRequests, Naturals, Sequences, FiniteSets

CONSTANTS
  ViewOf,      \* the view, and so the loop, of a request
  Stoppable,   \* requests run with a signal (a remediation has none)
  MaxSteps,    \* bound on the rounds of each request with the model: MAX_STEPS is 8
  MaxStrikes,  \* failures in a row that end the rounds: 3
  MaxParts,    \* bound on the stages, phases and links of each request
  MaxDepth,    \* bound on the phases waiting for prerequisites of each other
  MaxReads     \* bound, of each request, on the files or listings read one after another

ASSUME AgentAssumption ==
  /\ IsFiniteSet(Requests)
  /\ ViewOf \in [Requests -> Views]
  /\ Stoppable \subseteq Requests
  /\ MaxSteps \in [Requests -> Nat] /\ MaxStrikes \in Nat \ {0} /\ MaxDepth \in Nat
  /\ MaxParts \in [Requests -> Nat] /\ MaxReads \in [Requests -> Nat]

VARIABLES
  req,              \* the requests
  runDepth,         \* calls of run() that have not returned, of each loop
  externalConsent,  \* loops whose user said yes to the other provider
  question,         \* of each loop: questions the next request may answer
                    \* (pendingDirectoryAction, pendingClarification)
  alone,            \* history: requests no other request of their loop overlapped
  yes               \* history: requests whose own dialog was answered with yes

loopVars == <<runDepth, externalConsent, question>>
historyVars == <<alone, yes>>
vars == <<choiceVars, req, loopVars, historyVars>>

(* Where a request stands.  It waits for the person, for the model or the  *)
(* other provider, for a call, or for its own next step.                   *)
Asking == {"asked", "refused", "guess", "batch", "paneAsk"}
Thinking == {"routing", "planning", "model", "repair", "sent"}
Reading == {"reading", "tried", "listed", "sources"}
Calling == {"shortcut", "precheck", "direct", "running", "last", "main", "retry", "linking"}
           \cup Reading
Between == {"stage", "loop", "round", "offer", "checked", "smart", "phase",
            "sub", "link", "over"}
Running == Asking \cup Thinking \cup Calling \cup Between

MaxLate == MaxDepth + 2
MaxLooks == 4
Request ==
  [at : Running \cup {"new", "ended"},
   mode : {"single", "stages", "intents", "chain", "answer"},
   call : {"none", "running", "deaf", "cancelled", "barred"},  \* deaf: made without the signal
   round : Nat, strikes : 0..MaxStrikes,
   stage : Nat, phase : Nat,
   subs : Seq(0..2),     \* sub-phases left, of each phase waiting for its prerequisites
   gated : BOOLEAN,      \* the repaired action was rejected too
   stopped : BOOLEAN,    \* its signal has fired
   reads : Nat,          \* of the files or listings it reads one after another: begun
   late : 0..MaxLate,    \* history: commands begun since the signal (MaxLate: or more),
   looks : 0..MaxLooks,  \* series of reads begun or gone on with (MaxLooks: or more),
   heedless : BOOLEAN]   \* whether others began where nothing looks at the signal: then
                         \* nothing is counted any more

TypeOK ==
  /\ ChoiceTypeOK
  /\ req \in [Requests -> Request]
  /\ \A r \in Requests : /\ req[r].round <= MaxSteps[r] /\ Len(req[r].subs) <= MaxDepth
                         /\ req[r].stage <= MaxParts[r] /\ req[r].phase <= MaxParts[r]
                         /\ req[r].reads <= MaxReads[r]
  /\ runDepth \in [Views -> Nat]
  /\ externalConsent \subseteq Views
  /\ question \in [Views -> SUBSET {"directory", "plan"}]
  /\ alone \subseteq Requests
  /\ yes \subseteq Requests

New == [at |-> "new", mode |-> "single", call |-> "none", round |-> 0, strikes |-> 0, stage |-> 0,
        phase |-> 0, subs |-> <<>>, gated |-> FALSE, stopped |-> FALSE, reads |-> 0, late |-> 0,
        looks |-> 0, heedless |-> FALSE]

Init ==
  /\ ChoiceInit
  /\ req = [r \in Requests |-> New]
  /\ runDepth = [v \in Views |-> 0]
  /\ externalConsent = {}
  /\ question = [v \in Views |-> {}]
  /\ alone = {}
  /\ yes = {}

Active(v) == {r \in Requests : ViewOf[r] = v /\ req[r].at \in Running}

-----------------------------------------------------------------------------
(* Steps of one request, as the states s can go to                         *)

To(s, place) == [s EXCEPT !.at = place]
Counts(s) == s.stopped /\ ~s.heedless
Begun(s) == IF Counts(s) /\ s.late < MaxLate THEN s.late + 1 ELSE s.late

(* ToolExecutor.execute with the signal of the request begins nothing once *)
(* it has fired: the call is barred, its result "cancelled".               *)
CallUnchecked(s, place) == [s EXCEPT !.at = place, !.call = "running", !.late = Begun(s)]
Call(s, place) ==
  IF s.stopped THEN [s EXCEPT !.at = place, !.call = "barred"]
  ELSE [s EXCEPT !.at = place, !.call = "running"]
DeafCall(s, place) == [s EXCEPT !.at = place, !.call = "deaf", !.late = Begun(s)]
HeedlessCall(s, place) ==
  [s EXCEPT !.at = place, !.call = "deaf", !.heedless = @ \/ s.stopped]

(* A file or a listing is read without the signal, and then the next one;  *)
(* the series the signal falls into counts once it goes on.                *)
Looked(s, place) ==
  IF Counts(s) /\ s.looks < MaxLooks /\ (s.at # place \/ s.looks = 0) THEN s.looks + 1
  ELSE s.looks
Read(s, place) ==
  [s EXCEPT !.at = place, !.call = "deaf", !.reads = @ + 1, !.looks = Looked(s, place)]
Reads(r, s, place) == {t \in {Read(s, place)} : s.reads < MaxReads[r]}

Results(s) ==
  (IF s.call = "barred" THEN {} ELSE {"ok", "failed", "declined"})
  \cup (IF s.call \in {"barred", "cancelled"} THEN {"cancelled"} ELSE {})
Idle(s) == [s EXCEPT !.call = "none", !.reads = 0]

(* The request is over, or a stage of it; what a call kept goes with it.   *)
Over(s) ==
  [s EXCEPT !.at = "over", !.mode = "single", !.round = 0, !.strikes = 0, !.stage = 0,
            !.phase = 0, !.subs = <<>>, !.gated = FALSE]
NextStage(s) ==
  [s EXCEPT !.at = "stage", !.stage = @ + 1, !.round = 0, !.strikes = 0, !.phase = 0, !.gated = FALSE]

(* runLLMLoop returns: a stage or step that succeeded goes to the next one *)
LoopEnds(s, success) ==
  IF success /\ s.mode \in {"stages", "intents"} THEN NextStage(s) ELSE Over(s)
LoopEndsAnyhow(s) == {LoopEnds(s, TRUE), LoopEnds(s, FALSE)}

(* "continue" in the rounds                                                *)
ContinueUncounted(s) == [s EXCEPT !.at = "round"]
Continue(s) == [s EXCEPT !.at = "round", !.round = @ + 1]
Strike(s) == [s EXCEPT !.strikes = IF @ < MaxStrikes THEN @ + 1 ELSE @]

(* A command that failed and found no smart fallback: a fallback of the    *)
(* heuristics, the end, or, before the third failure, another round; when  *)
(* the goal is a question about it, after the sources its error names were *)
(* read (readErrorSources).                                                *)
Failed(r, s) ==
  LET t == Strike(s)
  IN {Over(t), Call(t, "last")}
     \cup IF t.strikes < MaxStrikes THEN {Continue(t)} \cup Reads(r, t, "sources") ELSE {}

(* runInPane: the command begins in a pane of its own, at once or after    *)
(* the person was asked, unless the signal has fired; the chain or the     *)
(* rounds go on.                                                           *)
Spawned(s) ==
  IF s.mode = "chain" THEN [s EXCEPT !.at = "link", !.phase = @ + 1, !.late = Begun(s)]
  ELSE [Continue(s) EXCEPT !.late = Begun(s)]
Spawn(s) == {Over(s), Spawned(s)}
RunInPane(s) ==
  IF s.stopped THEN {Over(s)} ELSE {To(s, "paneAsk")} \cup Spawn(s)

(* executeSinglePhase returns, to the plan or to the phase it prepares     *)
PhaseReturns(s) ==
  IF s.subs = <<>> THEN [s EXCEPT !.at = "phase", !.phase = @ + 1] ELSE To(s, "sub")

(* The plan of an answered question is executed without the signal.        *)
Stopped(s) == s.stopped /\ s.mode # "answer"
Retry(s) ==
  IF s.mode = "answer" THEN HeedlessCall(s, "retry") ELSE DeafCall(s, "retry")
PhaseCall(s) == IF s.mode = "answer" THEN HeedlessCall(s, "main") ELSE Call(s, "main")

Goes(r, states) ==
  /\ \E t \in states : req' = [req EXCEPT ![r] = t]
  /\ UNCHANGED <<loopVars, historyVars>>
Step(r, states) == Goes(r, states) /\ UNCHANGED choiceVars

-----------------------------------------------------------------------------
(* run() and runRequest()                                                  *)

(* Where a request goes before its first await, and the questions it       *)
(* leaves: to stages or a chain, whatever was asked; else it answers a     *)
(* pending question, or is none of the answers and a goal of its own.      *)
Entries(s, asked) ==
  {[to |-> t, left |-> asked] :
     t \in {[s EXCEPT !.mode = "stages", !.at = "stage"],
           [s EXCEPT !.mode = "chain", !.at = "batch"], [s EXCEPT !.mode = "chain", !.at = "link"]}}
  \cup {[to |-> t, left |-> asked \ {"directory"}] :
          t \in IF "directory" \in asked THEN {Over(s), HeedlessCall(s, "last")} ELSE {}}
  \cup {[to |-> t, left |-> {}] :
          t \in IF "plan" \in asked
                THEN {[s EXCEPT !.mode = "answer", !.at = "phase"], To(s, "routing")}
                ELSE {To(s, "routing")}}

(* run(): the first of overlapping requests resets what the user allowed.  *)
BeginTrusting(r) ==
  LET v == ViewOf[r]
  IN /\ req[r].at = "new"
     /\ \E e \in Entries(req[r], question[v]) :
          /\ req' = [req EXCEPT ![r] = e.to]
          /\ question' = [question EXCEPT ![v] = e.left]
     /\ runDepth' = [runDepth EXCEPT ![v] = @ + 1]
     /\ alone' = IF Active(v) = {} THEN alone \cup {r} ELSE alone \ Active(v)
     /\ UNCHANGED <<choiceVars, yes, externalConsent>>
Begin(r) ==
  LET v == ViewOf[r]
  IN /\ req[r].at = "new"
     /\ \E e \in Entries(req[r], question[v]) :
          /\ req' = [req EXCEPT ![r] = e.to]
          /\ question' = [question EXCEPT ![v] = e.left]
     /\ runDepth' = [runDepth EXCEPT ![v] = @ + 1]
     /\ externalConsent' = IF runDepth[v] = 0 THEN externalConsent \ {v} ELSE externalConsent
     /\ alone' = IF Active(v) = {} THEN alone \cup {r} ELSE alone \ Active(v)
     /\ UNCHANGED <<choiceVars, yes>>

CloseTwice(r) ==
  /\ req[r].at = "over"
  /\ req' = [req EXCEPT ![r] = [New EXCEPT !.at = "ended"]]
  /\ runDepth' = [runDepth EXCEPT ![ViewOf[r]] = @ - 2]
  /\ alone' = alone \ {r}
  /\ yes' = yes \ {r}
  /\ UNCHANGED <<choiceVars, externalConsent, question>>

Close(r) ==
  /\ req[r].at = "over"
  /\ req' = [req EXCEPT ![r] = [New EXCEPT !.at = "ended"]]
  /\ runDepth' = [runDepth EXCEPT ![ViewOf[r]] = @ - 1]
  /\ alone' = alone \ {r}
  /\ yes' = yes \ {r}
  /\ UNCHANGED <<choiceVars, externalConsent, question>>

(* The person stops a request: what it calls with its signal is cancelled. *)
Stop(r) ==
  /\ r \in Stoppable /\ req[r].at \in Running /\ ~req[r].stopped
  /\ LET s == req[r]
     IN Step(r, {[s EXCEPT !.stopped = TRUE,
                           !.call = IF @ = "running" THEN "cancelled" ELSE @]})

(* Routing asks which directory is meant, answers at once, takes a         *)
(* shortcut, or hands the request to a chain or to the model.              *)
Shortcuts(s) == {HeedlessCall(s, "shortcut"), Call(s, "shortcut")}
Route(r) ==
  LET s == req[r]
  IN /\ s.at = "routing"
     /\ \/ Step(r, {Over(s), To(s, "loop")}
                  \cup {[s EXCEPT !.mode = "chain", !.at = p] : p \in {"batch", "link"}}
                  \cup Shortcuts(s))
        \/ /\ req' = [req EXCEPT ![r] = Over(s)]
           /\ question' = [question EXCEPT ![ViewOf[r]] = @ \cup {"directory"}]
           /\ UNCHANGED <<choiceVars, runDepth, externalConsent, historyVars>>

(* A shortcut is one call or several; one that came to nothing leaves the  *)
(* request to the model.                                                   *)
ShortcutReturns(r) ==
  LET s == Idle(req[r])
  IN /\ req[r].at = "shortcut"
     /\ Step(r, {Over(s), To(s, "loop")}
                \cup IF s.stage < MaxParts[r] THEN Shortcuts([s EXCEPT !.stage = @ + 1]) ELSE {})

-----------------------------------------------------------------------------
(* executeMultistageWorkflow and executeIntentSteps                        *)

(* Steps of the intent model look at the signal and call with it; stages   *)
(* do neither.                                                             *)
StageCall(s, place) == IF s.mode = "stages" THEN HeedlessCall(s, place) ELSE Call(s, place)
Dispatched(s) ==
  {To(s, "loop")} \cup IF s.mode = "stages" THEN {HeedlessCall(s, "direct")} ELSE {}

Stage(r) ==
  LET s == req[r]
  IN /\ s.at = "stage"
     /\ Step(r, IF (s.mode = "intents" /\ s.stopped) \/ s.stage = MaxParts[r] THEN {Over(s)}
                ELSE {StageCall(s, "precheck")} \cup Dispatched(s))

(* The precondition lets the stage go on, skips it or ends the request.    *)
PrecheckReturns(r) ==
  LET s == Idle(req[r])
  IN /\ req[r].at = "precheck"
     /\ Step(r, {Over(s), NextStage(s)} \cup Dispatched(s))

DirectReturns(r) ==
  LET s == Idle(req[r])
  IN /\ req[r].at = "direct"
     /\ Step(r, {Over(s), NextStage(s)})

-----------------------------------------------------------------------------
(* runLLMLoop                                                              *)

(* The model is not there: the fallback of the heuristics, or an error.    *)
(* Else a plan, or rounds.                                                 *)
WithTheModel(s) == {Over(s), Call(s, "last"), To(s, "planning"), To(s, "round")}

(* The request splits into steps of the intent model (not within stages);  *)
(* or the files it names are read first (readReferencedFiles), without the *)
(* signal and without a look at it.                                        *)
EnterLoop(r) ==
  LET s == req[r]
  IN /\ s.at = "loop"
     /\ Step(r, Reads(r, s, "reading") \cup WithTheModel(s)
                \cup IF s.mode = "single" THEN {[s EXCEPT !.mode = "intents", !.at = "stage"]}
                     ELSE {})

FileRead(r) ==
  /\ req[r].at = "reading"
  /\ Step(r, Reads(r, req[r], "reading") \cup WithTheModel(Idle(req[r])))

Round(r) ==
  LET s == req[r]
  IN /\ s.at = "round"
     /\ Step(r, IF s.stopped THEN {Over(s)}
                ELSE IF s.round = MaxSteps[r] THEN LoopEndsAnyhow(s) ELSE {To(s, "model")})

(* The reply: cut off, a refusal or an unfounded claim, which the model is *)
(* asked again about; unusable, then the fallback; an answer or an error;  *)
(* an action that passes the gate, or one that does not.  A reply that is  *)
(* stopped ends the request.                                               *)
ModelReplies(r) ==
  LET s == req[r]
  IN /\ s.at = "model"
     /\ Step(r, LoopEndsAnyhow(s)
                \cup {Continue(s), Call(s, "last"), To(s, "checked"), To(s, "repair")})

(* The one repair: an action the gate takes, an answer, which is taken as  *)
(* it is, or another provider is tried.                                    *)
Repaired(r) ==
  LET s == req[r]
  IN /\ s.at = "repair"
     /\ Step(r, {Over(s), LoopEnds(s, TRUE), To(s, "checked")}
                \cup {[s EXCEPT !.at = "offer", !.gated = g] : g \in BOOLEAN})

(* offerExternalRetry came to nothing: the person is asked for a command   *)
(* if the repaired action was rejected, else the request ends.             *)
NoOffer(r, s) ==
  IF s.gated /\ CanAsk
    THEN Ask(r) /\ Goes(r, {To(s, "refused")})
    ELSE Step(r, {Over(s)})

(* The request goes to the other provider, whose call throws at once when  *)
(* the signal has fired.                                                   *)
Sent(s) == IF s.stopped THEN Over(s) ELSE To(s, "sent")

(* offerExternalRetry: no other provider (or one that is not the built-in  *)
(* is active), the user said yes before, or is asked.                      *)
Offer(r) ==
  LET s == req[r]
  IN /\ s.at = "offer"
     /\ \/ NoOffer(r, s)
        \/ /\ ViewOf[r] \in externalConsent
           /\ Step(r, {Sent(s)})
        \/ /\ ViewOf[r] \notin externalConsent /\ CanAsk
           /\ Ask(r)
           /\ Goes(r, {To(s, "asked")})

(* Its reply: an answer, an action that passes the gate, or nothing.       *)
ExternalReplies(r) ==
  LET s == req[r]
  IN /\ s.at = "sent"
     /\ \/ Step(r, {Over(s), LoopEnds(s, TRUE), To(s, "checked")})
        \/ NoOffer(r, s)

(* Checks before a command runs: corrected by another round, which counts  *)
(* as a failure (syntax, a placeholder, a command that failed before) or   *)
(* not (no such tool); refused; run in a pane of its own; or called.  One  *)
(* another platform writes differently is tried first, beside its          *)
(* rewrites: read-only or as a dry run, at once, without the signal        *)
(* (ShadowPtySimulator).                                                   *)
Decided(s) ==
  {Over(s), Continue(s), Continue(Strike(s)), Call(s, "running")} \cup RunInPane(s)
Checked(r) ==
  LET s == [req[r] EXCEPT !.gated = FALSE]
  IN /\ s.at = "checked"
     /\ Step(r, Reads(r, s, "tried") \cup Decided(s))

Tried(r) ==
  /\ req[r].at = "tried"
  /\ Step(r, Decided(Idle(req[r])))

(* A command that succeeds (also one that looked for something and found   *)
(* nothing) ends the request or takes another round; one the person        *)
(* declined ends it; else a smart fallback is looked for.                  *)
Succeeded(s) == {LoopEnds(s, TRUE), Continue([s EXCEPT !.strikes = 0])}
RunningReturns(r) ==
  LET s == Idle(req[r])
  IN /\ req[r].at = "running"
     /\ \E res \in Results(req[r]) :
          Step(r, CASE res = "ok" -> Succeeded(s)
                    [] res = "declined" -> {Over(s)}
                    [] OTHER -> {To(s, "smart")})

(* smartFallback: what runs or could be run is listed, without the signal  *)
(* (one listing after another); the command is run on the right name; the  *)
(* person is asked which; or there is nothing better.                      *)
SmartFallback(r) ==
  LET s == req[r]
  IN /\ s.at = "smart"
     /\ \/ Step(r, Failed(r, s) \cup Reads(r, s, "listed") \cup {Call(s, "last")})
        \/ CanAsk /\ Ask(r) /\ Goes(r, {To(s, "guess")})

ListingReturns(r) ==
  LET s == Idle(req[r])
  IN /\ req[r].at = "listed"
     /\ \/ Step(r, Reads(r, req[r], "listed") \cup Failed(r, s) \cup Succeeded(s))
        \/ CanAsk /\ Ask(r) /\ Goes(r, {To(s, "guess")})

SourceRead(r) ==
  /\ req[r].at = "sources"
  /\ Step(r, Reads(r, req[r], "sources") \cup {Continue(Idle(req[r]))})

(* The last call of the loop or of an answered question.                   *)
LastReturns(r) ==
  LET s == Idle(req[r])
  IN /\ req[r].at = "last"
     /\ \E res \in Results(req[r]) : Step(r, {LoopEnds(s, res = "ok")})

-----------------------------------------------------------------------------
(* Plans (AdaptivePlanEngine)                                              *)

Planned(r) ==
  LET s == req[r]
  IN /\ s.at = "planning"
     /\ \/ Step(r, {To(s, "phase")})
        \/ /\ req' = [req EXCEPT ![r] = Over(s)]
           /\ question' = [question EXCEPT ![ViewOf[r]] = @ \cup {"plan"}]
           /\ UNCHANGED <<choiceVars, runDepth, externalConsent, historyVars>>

(* executePlan: the next phase, or the end because all phases are over or  *)
(* the goal is reached.  A phase may need no call.                         *)
Phase(r) ==
  LET s == req[r]
  IN /\ s.at = "phase"
     /\ Step(r, IF Stopped(s) THEN {Over(s)}
                ELSE LoopEndsAnyhow(s)
                     \cup IF s.phase < MaxParts[r] THEN {PhaseReturns(s), PhaseCall(s)} ELSE {})

(* The call of a phase fails for want of something to do at the computer,  *)
(* and is made again at once; or of one or two prerequisites, which become *)
(* sub-phases; or for good.  No other result stops the plan either.        *)
Prepared(s) ==
  {t \in {Retry(s)} : s.mode # "answer"}
  \cup {[s EXCEPT !.at = "sub", !.subs = <<n>> \o @] : n \in IF Len(s.subs) < MaxDepth THEN 1..2 ELSE {}}
MainReturns(r) ==
  LET s == Idle(req[r])
  IN /\ req[r].at = "main"
     /\ \E res \in Results(req[r]) :
          Step(r, {PhaseReturns(s)} \cup IF res = "failed" THEN Prepared(s) ELSE {})

(* The next sub-phase, or the call of the phase again, without the signal. *)
(* A stop that is noticed at a sub-phase ends the phase that needs it.     *)
SubPhase(r) ==
  LET s == req[r]
      popped == [s EXCEPT !.subs = Tail(@)]
      next == [s EXCEPT !.subs = <<Head(@) - 1>> \o Tail(@)]
  IN /\ s.at = "sub"
     /\ Step(r, IF Head(s.subs) = 0 THEN {Retry(popped)}
                ELSE IF Stopped(s) THEN {PhaseReturns(popped)}
                ELSE {PhaseCall(next), To(next, "sub")})

RetryReturns(r) ==
  /\ req[r].at = "retry"
  /\ Step(r, {PhaseReturns(Idle(req[r]))})

-----------------------------------------------------------------------------
(* Chains (runChain)                                                       *)

(* The next step of the chain: none is left, no command is found for it,   *)
(* it runs in a pane of its own, or is called.                             *)
Link(r) ==
  LET s == req[r]
  IN /\ s.at = "link"
     /\ Step(r, IF s.stopped \/ s.phase = MaxParts[r] THEN {Over(s)}
                ELSE {Over(s), Call(s, "linking")} \cup RunInPane(s))

LinkReturns(r) ==
  LET s == Idle(req[r])
  IN /\ req[r].at = "linking"
     /\ \E res \in Results(req[r]) :
          Step(r, IF res = "ok" THEN {Over(s), [s EXCEPT !.at = "link", !.phase = @ + 1]}
                  ELSE {Over(s)})

-----------------------------------------------------------------------------
(* The person answers                                                      *)

(* "Yes, this time": the loop notes it and the request is sent.            *)
AnswerOffer(v, r) ==
  LET s == req[r]
  IN /\ s.at = "asked"
     /\ \/ /\ Answer(v, r)
           /\ req' = [req EXCEPT ![r] = Sent(s)]
           /\ externalConsent' = externalConsent \cup {ViewOf[r]}
           /\ yes' = yes \cup {r}
           /\ UNCHANGED <<runDepth, question, alone>>
        \/ /\ ~s.gated \/ ~CanAsk
           /\ Answer(v, r)
           /\ Goes(r, {Over(s)})
        \/ /\ s.gated /\ CanAsk /\ dialog[v] = r
           /\ dialog' = [dialog EXCEPT ![v] = NoRequest, ![owner] = r]
           /\ UNCHANGED owner
           /\ Goes(r, {To(s, "refused")})

(* A command typed instead of the rejected one is not put to the gate.     *)
AnswerRefused(v, r) ==
  /\ req[r].at = "refused"
  /\ Answer(v, r)
  /\ Goes(r, {Over(req[r]), To(req[r], "checked")})

AnswerGuess(v, r) ==
  /\ req[r].at = "guess"
  /\ Answer(v, r)
  /\ Goes(r, Failed(r, req[r]) \cup {Call(req[r], "last")})

(* The consent to a chain, and to a command in a pane of its own, which    *)
(* looks at the signal again.                                              *)
ConsentToBatch(r) ==
  /\ req[r].at = "batch"
  /\ Step(r, {Over(req[r]), To(req[r], "link")})

ConsentToPane(r) ==
  LET s == req[r]
  IN /\ s.at = "paneAsk"
     /\ Step(r, IF s.stopped THEN {Over(s)} ELSE {Over(s)} \cup Spawn(s))

-----------------------------------------------------------------------------
LoopStep(r) ==
  \/ Route(r) \/ ShortcutReturns(r) \/ Stage(r) \/ PrecheckReturns(r) \/ DirectReturns(r)
  \/ EnterLoop(r) \/ FileRead(r) \/ Round(r) \/ ModelReplies(r) \/ Repaired(r) \/ Offer(r)
  \/ ExternalReplies(r) \/ Checked(r) \/ Tried(r) \/ RunningReturns(r)
  \/ SmartFallback(r) \/ ListingReturns(r) \/ SourceRead(r) \/ LastReturns(r)
PlanStep(r) == Planned(r) \/ Phase(r) \/ MainReturns(r) \/ SubPhase(r) \/ RetryReturns(r)
ChainStep(r) == Link(r) \/ LinkReturns(r)
CodeStep(r) == LoopStep(r) \/ PlanStep(r) \/ ChainStep(r) \/ Close(r)

Consent(r) == ConsentToBatch(r) \/ ConsentToPane(r)
Answers(v, r) == AnswerOffer(v, r) \/ AnswerRefused(v, r) \/ AnswerGuess(v, r)
ViewStep(v) == ChoiceViewStep(v) /\ UNCHANGED <<req, loopVars, historyVars>>

Next ==
  \/ \E r \in Requests : Begin(r) \/ Stop(r) \/ CodeStep(r) \/ Consent(r)
  \/ \E v \in Views, r \in Requests : Answers(v, r)
  \/ \E v \in Views : ViewStep(v)

(* The code goes on: its calls return (ToolExecutor's time-out sees to     *)
(* that) and so does the model.  Nothing is assumed of the person.         *)
Spec == Init /\ [][Next]_vars /\ \A r \in Requests : WF_vars(CodeStep(r))

-----------------------------------------------------------------------------
(* Properties                                                              *)

(* After a stop a request begins little, however the stop falls between    *)
(* its steps, its dialogs and the results of its calls: of a plan one      *)
(* command, and one more for each phase that waited for prerequisites; or  *)
(* else, in three series at most, what only reads: it tries a command on   *)
(* the side, looks up a name that was not found, and reads the sources an  *)
(* error names or the files it names itself.                               *)
(* Excepted are what never looks at the signal: shortcuts, the stages of a *)
(* multi-stage request and the plan of an answered question (the checks    *)
(* throwIfAborted of AgentLoop.ts and AdaptivePlanEngine.ts).              *)
LittleAfterStop ==
  \A r \in Requests :
    ~req[r].heedless =>
      /\ req[r].late <= MaxDepth + 1
      /\ req[r].looks <= 3
      /\ req[r].late = 0 \/ req[r].looks = 0

(* A request no other of its view overlapped is sent to another provider   *)
(* only after a yes to its own dialog: consent given for a request ends    *)
(* with it ("Yes, this time", offerExternalRetry).                         *)
AskedWhenAlone ==
  [][\A r \in Requests :
       req[r].at # "sent" /\ req'[r].at = "sent" => r \in yes' \/ r \notin alone']_vars

(* How much a request has left to do, what counts most first: where it is  *)
(* at all, whether it can still be stopped, whether it may still split     *)
(* into steps, its stages, the stretch of the stage it is in, its rounds,  *)
(* its phases or links, its place in the round, what it reads there, and   *)
(* then, of each phase that waits for prerequisites, the outermost first,  *)
(* what it waits for.                                                      *)
Whole == [new |-> 3, over |-> 1, ended |-> 0]
Stretch == [routing |-> 7, batch |-> 7, shortcut |-> 6, stage |-> 6, precheck |-> 5, loop |-> 4,
            reading |-> 3, planning |-> 2, last |-> 0, direct |-> 0]
InRound == [round |-> 14, model |-> 13, repair |-> 12, offer |-> 11, asked |-> 10, sent |-> 9,
            refused |-> 8, checked |-> 7, link |-> 7, tried |-> 6, running |-> 5, paneAsk |-> 5, smart |-> 4,
            listed |-> 3, guess |-> 2, sources |-> 1, phase |-> 1]
InPhaseCall == [main |-> 5, retry |-> 1]
LeftOf(table, place, otherwise) == IF place \in DOMAIN table THEN table[place] ELSE otherwise

LevelLeft(s, d) ==
  IF d <= Len(s.subs) THEN s.subs[Len(s.subs) + 1 - d] + 2
  ELSE IF d = Len(s.subs) + 1 THEN LeftOf(InPhaseCall, s.at, 0) ELSE 0
WorkLeft(r, s) ==
  LET counts == <<LeftOf(Whole, s.at, 2), IF s.stopped THEN 0 ELSE 1, IF s.mode = "single" THEN 1 ELSE 0,
                  MaxParts[r] - s.stage, LeftOf(Stretch, s.at, 1), MaxSteps[r] - s.round,
                  MaxParts[r] - s.phase, LeftOf(InRound, s.at, 0),
                  IF s.at \in Reading THEN MaxReads[r] - s.reads ELSE 0>>
  IN [i \in 1..(9 + MaxDepth + 1) |-> IF i <= 9 THEN counts[i] ELSE LevelLeft(s, i - 9)]
Less(a, b) == \E j \in DOMAIN b : a[j] < b[j] /\ \A i \in 1..(j - 1) : a[i] = b[i]

(* No request goes round in circles: every step of it, also one the person *)
(* takes for it, leaves less to do, however rounds, repairs, questions,    *)
(* look-ups, retries and phases that wait for phases follow each other;    *)
(* and what another request does leaves it as it is (runLLMLoop, runChain, *)
(* executePlan, executeMultistageWorkflow).                                *)
NoCircles ==
  [][\A r \in Requests : req'[r] # req[r] => Less(WorkLeft(r, req'[r]), WorkLeft(r, req[r]))]_vars

(* A dialog is answered once and by the one who asked: what a view shows   *)
(* for a request is the question the request waits at, and no request is   *)
(* shown twice, also when the focus moved between two of its questions.    *)
DialogIsAwaited ==
  /\ \A v \in Views : dialog[v] # NoRequest => req[dialog[v]].at \in {"asked", "refused", "guess"}
  /\ \A v, w \in Views : dialog[v] = dialog[w] /\ dialog[v] # NoRequest => v = w

(* A request ends or comes to wait for the person; a dialog that was       *)
(* replaced or whose view went is the one place it stays for good.         *)
RequestsEnd ==
  \A r \in Requests : req[r].at \in Running ~> req[r].at \in Asking \cup {"ended"}

(* Ctrl+C stops the running request: no command begins after it            *)
(* (docs/releases/linux.md; what the code does is LittleAfterStop).        *)
NothingAfterStop ==
  \A r \in Requests : req[r].late = 0 /\ req[r].looks = 0 /\ ~req[r].heedless
=============================================================================
