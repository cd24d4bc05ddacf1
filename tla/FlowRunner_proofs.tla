-------------------------- MODULE FlowRunner_proofs --------------------------
(***************************************************************************)
(* Theorems about FlowRunner, for any number of flows, steps and views,    *)
(* however the flows overlap and the views follow each other.              *)
(***************************************************************************)
EXTENDS FlowRunner, SequenceTheorems, TLAPS

-----------------------------------------------------------------------------
(* Types                                                                   *)

Places == {"new", "preparing", "asking", "defining", "desktop", "waiting", "ended"}

LEMMA NotifyType ==
  ASSUME TypeOK, NEW v \in ViewIds, Notify(v)
  PROVE  /\ tracker' \in [ViewIds -> {"idle", "running", "alternate"}]
         /\ before' \in {"idle", "running"}
BY DEF TypeOK, Notify

(* What the step of a flow sets when it is typed *)
LEMMA TypeStepType ==
  ASSUME TypeOK, NEW f \in FlowIds, NEW s \in AllSteps, TypeStep(f, s)
  PROVE  /\ result' \in [FlowIds -> {"open", "ok", "failed", "none"}]
         /\ waiter' \in AllSteps \cup {NoStep} /\ lastTyped' \in 0 .. Flows
         /\ watches' \subseteq AllSteps
         /\ tracker' \in [ViewIds -> {"idle", "running", "alternate"}]
         /\ before' \in {"idle", "running"}
         /\ input' \in Seq(AllSteps)
         /\ signalled' \in BOOLEAN
<1>1. \A left \in {<<>>, input} : Append(left, s) \in Seq(AllSteps)
  <2>1. \A left \in {<<>>, input} : left \in Seq(AllSteps)
    BY EmptySeq DEF TypeOK
  <2>2. QED
    BY <2>1, AppendProperties
<1>2. input' \in Seq(AllSteps)
  BY <1>1 DEF TypeStep
<1>3. view[f] \in ViewIds /\ Notify(view[f])
  BY DEF TypeOK, TypeStep
<1>4. lastTyped' \in 0 .. Flows
  <2>1. f \in 0 .. Flows
    BY FlowsAssumption DEF FlowIds
  <2> QED
    BY <2>1 DEF TypeOK, TypeStep
<1>5. QED
  BY <1>2, <1>3, <1>4, NotifyType DEF TypeOK, TypeStep

(* What the end of a flow sets *)
LEMMA EndType ==
  ASSUME TypeOK, NEW f \in FlowIds, End(f)
  PROVE  /\ pc' \in [FlowIds -> Places]
         /\ step' \in [FlowIds -> 1 .. Steps]
         /\ defined' \in [FlowIds -> BOOLEAN]
         /\ controller' \in 0 .. Flows
         /\ result' \in [FlowIds -> {"open", "ok", "failed", "none"}]
BY FlowsAssumption DEF TypeOK, End, Places

(* What the head of the loop sets *)
LEMMA LoopType ==
  ASSUME TypeOK, NEW f \in FlowIds, NEW i \in 1 .. Steps + 1, Loop(f, i)
  PROVE  /\ pc' \in [FlowIds -> Places]
         /\ step' \in [FlowIds -> 1 .. Steps]
         /\ defined' \in [FlowIds -> BOOLEAN]
         /\ controller' \in 0 .. Flows
         /\ result' \in [FlowIds -> {"open", "ok", "failed", "none"}]
         /\ waiter' \in AllSteps \cup {NoStep} /\ lastTyped' \in 0 .. Flows
         /\ watches' \subseteq AllSteps
         /\ tracker' \in [ViewIds -> {"idle", "running", "alternate"}]
         /\ before' \in {"idle", "running"}
         /\ input' \in Seq(AllSteps)
         /\ signalled' \in BOOLEAN
<1>1. <<>> \in Seq(AllSteps) /\ view[f] \in ViewIds
  BY EmptySeq DEF TypeOK
<1>2. CASE ~StepsLeft(i)
  <2>1. End(f) /\ UNCHANGED <<waiter, watches, guessVars, input, signalled, lastTyped>>
    BY <1>2 DEF Loop
  <2> QED
    BY <2>1, EndType DEF TypeOK, guessVars
<1>3. CASE StepsLeft(i) /\ f \in stopped
  <2>1. End(f) /\ Interrupt /\ Notify(view[f]) /\ UNCHANGED <<waiter, watches, lastTyped>>
    BY <1>3 DEF Loop
  <2> QED
    BY <1>1, <2>1, EndType, NotifyType DEF TypeOK, Interrupt
<1>4. CASE StepsLeft(i) /\ f \notin stopped
  <2>1. i \in 1 .. Steps
    BY <1>4, FlowsAssumption DEF StepsLeft
  <2>2. step' = [step EXCEPT ![f] = i] /\ <<f, i>> \in AllSteps /\ UNCHANGED controller
    BY <1>4, <2>1 DEF Loop, AllSteps
  <2>3. pc' \in [FlowIds -> Places] /\ defined' \in [FlowIds -> BOOLEAN]
    BY <1>4 DEF Loop, TypeOK, Places
  <2>4. CASE TypeStep(f, <<f, i>>)
    BY <2>1, <2>2, <2>3, <2>4, TypeStepType DEF TypeOK
  <2>5. CASE UNCHANGED <<waitVars, guessVars, input, signalled, lastTyped>>
    BY <2>1, <2>2, <2>3, <2>5 DEF TypeOK, waitVars, guessVars
  <2>6. QED
    BY <1>4, <2>4, <2>5 DEF Loop
<1>5. QED
  BY <1>2, <1>3, <1>4

(* The steps of flows that may begin or go on *)
LEMMA NextStep ==
  ASSUME TypeOK, NEW f \in FlowIds
  PROVE  /\ 1 \in 1 .. Steps + 1 /\ step[f] + 1 \in 1 .. Steps + 1
         /\ Current(f) \in AllSteps
BY FlowsAssumption DEF TypeOK, Current, AllSteps

LEMMA TypesInit == Init => TypeOK
<1> SUFFICES ASSUME Init
             PROVE  TypeOK
  OBVIOUS
<1>1. input \in Seq(AllSteps) /\ reports \in Seq({"ok", "failed"})
  BY EmptySeq DEF Init
<1>2. 1 \in 1 .. Steps /\ 1 \in ViewIds /\ 0 \in 0 .. Flows
  BY FlowsAssumption DEF ViewIds
<1>3. QED
  BY <1>1, <1>2 DEF Init, TypeOK

LEMMA FlowStepType ==
  ASSUME TypeOK, NEW f \in FlowIds, FlowStep(f)
  PROVE  TypeOK'
<1>1. ASSUME NEW v \in ViewIds, Start(f, v)
      PROVE  TypeOK'
  <2>1. f \in 0 .. Flows /\ 0 \in 0 .. Flows
    BY FlowsAssumption DEF FlowIds
  <2>2. alone' \in 0 .. Flows /\ controller' \in 0 .. Flows
    BY <1>1, <2>1 DEF Start, TypeOK
  <2>3. pc' \in [FlowIds -> Places] /\ view' \in [FlowIds -> ViewIds]
    BY <1>1 DEF Start, TypeOK, Places
  <2>4. QED
    BY <1>1, <2>2, <2>3 DEF Start, TypeOK, Places, waitVars, guessVars, shellVars
<1>2. CASE Prepared(f)
  <2>1. pc' \in [FlowIds -> Places] /\ controller' \in 0 .. Flows
        /\ step' \in [FlowIds -> 1 .. Steps] /\ defined' \in [FlowIds -> BOOLEAN]
        /\ result' \in [FlowIds -> {"open", "ok", "failed", "none"}]
    BY <1>2, EndType DEF Prepared, TypeOK, Places
  <2>2. QED
    BY <1>2, <2>1 DEF Prepared, TypeOK, Places, guessVars, shellVars, history
<1>3. CASE Answered(f)
  <2>1. CASE Loop(f, 1)
    BY <1>3, <2>1, LoopType, NextStep DEF Answered, TypeOK, Places
  <2>2. CASE End(f) /\ UNCHANGED <<waiter, watches, guessVars, input, signalled, lastTyped>>
    BY <1>3, <2>2, EndType DEF Answered, TypeOK, Places, guessVars
  <2>3. QED
    BY <1>3, <2>1, <2>2 DEF Answered
<1>4. CASE Defined(f)
  <2>1. pc' \in [FlowIds -> Places]
    BY <1>4 DEF Defined, TypeOK, Places
  <2>2. QED
    BY <1>4, <2>1, TypeStepType, NextStep DEF Defined, TypeOK, Places, viewVars
<1>5. CASE DesktopDone(f)
  <2>1. exits' \in [AllSteps -> {"none", "ok", "failed"}]
    BY <1>5, NextStep DEF DesktopDone, TypeOK
  <2>2. CASE Loop(f, step[f] + 1)
    BY <1>5, <2>1, <2>2, LoopType, NextStep DEF DesktopDone, TypeOK, Places
  <2>3. CASE End(f) /\ UNCHANGED <<waiter, watches, guessVars, input, signalled, lastTyped>>
    BY <1>5, <2>1, <2>3, EndType DEF DesktopDone, TypeOK, Places, guessVars
  <2>4. QED
    BY <1>5, <2>2, <2>3 DEF DesktopDone
<1>6. CASE Settled(f)
  <2>1. CASE Loop(f, step[f] + 1)
    BY <1>6, <2>1, LoopType, NextStep DEF Settled, TypeOK, Places
  <2>2. CASE End(f) /\ UNCHANGED <<waiter, watches, guessVars, input, signalled, lastTyped>>
    BY <1>6, <2>2, EndType DEF Settled, TypeOK, Places, guessVars
  <2>3. QED
    BY <1>6, <2>1, <2>2 DEF Settled
<1>7. QED
  BY <1>1, <1>2, <1>3, <1>4, <1>5, <1>6 DEF FlowStep

(* What the settling of a step sets *)
LEMMA FinishType ==
  ASSUME TypeOK, NEW s \in AllSteps, NEW code \in {"ok", "failed", "none"}, Finish(s, code)
  PROVE  /\ result' \in [FlowIds -> {"open", "ok", "failed", "none"}]
         /\ waiter' \in AllSteps \cup {NoStep}
         /\ watches' \subseteq AllSteps
BY DEF TypeOK, Finish, Settle

LEMMA TypesNext == TypeOK /\ [Next]_vars => TypeOK'
<1> SUFFICES ASSUME TypeOK, [Next]_vars
             PROVE  TypeOK'
  OBVIOUS
<1>1. CASE \E f \in FlowIds : FlowStep(f)
  BY <1>1, FlowStepType
<1>2. CASE Abort
  <2>1. controller \in FlowIds /\ 0 \in 0 .. Flows
    BY <1>2, FlowsAssumption DEF Abort, TypeOK, FlowIds
  <2>2. input' \in Seq(AllSteps) /\ signalled' \in BOOLEAN
    BY <1>2, EmptySeq DEF Abort, Interrupt, TypeOK
  <2>3. /\ tracker' \in [ViewIds -> {"idle", "running", "alternate"}]
        /\ before' \in {"idle", "running"}
    BY <1>2, <2>1, NotifyType DEF Abort, TypeOK, guessVars
  <2>4. result' \in [FlowIds -> {"open", "ok", "failed", "none"}] /\ stopped' \subseteq FlowIds
    BY <1>2, <2>1 DEF Abort, TypeOK
  <2>5. QED
    BY <1>2, <2>1, <2>2, <2>3, <2>4 DEF Abort, TypeOK
<1>3. CASE TypeCtrlC
  <2>1. input' \in Seq(AllSteps) /\ signalled' \in BOOLEAN
    BY <1>3, EmptySeq DEF TypeCtrlC, Interrupt, TypeOK
  <2>2. QED
    BY <1>3, <2>1 DEF TypeCtrlC, TypeOK, flowVars, viewVars, waitVars, guessVars, history
<1>4. CASE Rebuild
  <2>1. shown' \in ViewIds /\ 0 \in 0 .. Flows
    BY <1>4, FlowsAssumption DEF Rebuild, TypeOK, ViewIds
  <2>2. pc' \in [FlowIds -> Places]
    BY <1>4 DEF Rebuild, TypeOK, Places
  <2>3. QED
    BY <1>4, <2>1, <2>2 DEF Rebuild, TypeOK, Places, shellVars
<1>5. CASE Report
  <2>1. Head(reports) \in {"ok", "failed"} /\ reports' \in Seq({"ok", "failed"})
    BY <1>5, HeadTailProperties DEF Report, TypeOK
  <2>2. /\ result' \in [FlowIds -> {"open", "ok", "failed", "none"}]
        /\ waiter' \in AllSteps \cup {NoStep}
        /\ watches' \subseteq AllSteps
    <3>1. CASE UNCHANGED waitVars
      BY <3>1 DEF waitVars, TypeOK
    <3>2. CASE waiter # NoStep /\ Finish(waiter, Head(reports))
      <4>1. waiter \in AllSteps
        BY <3>2 DEF TypeOK
      <4> QED
        BY <2>1, <3>2, <4>1, FinishType
    <3> QED
      BY <1>5, <3>1, <3>2 DEF Report
  <2>3. QED
    BY <1>5, <2>1, <2>2 DEF Report, TypeOK, flowVars, viewVars, guessVars, history
<1>6. CASE \E s \in AllSteps : Watch(s)
  <2>1. PICK s \in AllSteps : Watch(s)
    BY <1>6
  <2>2. /\ result' \in [FlowIds -> {"open", "ok", "failed", "none"}]
        /\ waiter' \in AllSteps \cup {NoStep}
        /\ watches' \subseteq AllSteps
    BY <2>1, FinishType DEF Watch
  <2>3. alone' \in 0 .. Flows
    BY <2>1, FlowsAssumption DEF Watch, TypeOK
  <2>4. QED
    BY <2>1, <2>2, <2>3 DEF Watch, TypeOK, flowVars, viewVars, guessVars, shellVars
<1>7. CASE SeemsAtPrompt \/ FullScreen
  BY <1>7
  DEF SeemsAtPrompt, FullScreen, TypeOK, flowVars, viewVars, waitVars, shellVars, history
<1>8. CASE ShellReads \/ CommandReads
  <2>1. Head(input) \in AllSteps /\ Tail(input) \in Seq(AllSteps)
    BY <1>8, HeadTailProperties DEF ShellReads, CommandReads, TypeOK
  <2>2. QED
    BY <1>8, <2>1
    DEF ShellReads, CommandReads, TypeOK, flowVars, viewVars, waitVars, guessVars, history
<1>9. CASE CommandEnds
  <2>1. running \in AllSteps
    BY <1>9 DEF CommandEnds, TypeOK
  <2>2. \A code \in {"ok", "failed"} : Append(reports, code) \in Seq({"ok", "failed"})
    BY AppendProperties DEF TypeOK
  <2>3. reports' \in Seq({"ok", "failed"})
    BY <1>9, <2>2 DEF CommandEnds, TypeOK
  <2>4. exits' \in [AllSteps -> {"none", "ok", "failed"}]
    BY <1>9, <2>1 DEF CommandEnds, TypeOK
  <2>5. tracker' \in [ViewIds -> {"idle", "running", "alternate"}]
    BY <1>9 DEF CommandEnds, TypeOK
  <2>6. QED
    BY <1>9, <2>3, <2>4, <2>5 DEF CommandEnds, TypeOK, flowVars, viewVars, waitVars, history
<1>10. CASE UNCHANGED vars
  BY <1>10 DEF TypeOK, vars, flowVars, viewVars, waitVars, guessVars, shellVars, history
<1>11. QED
  BY <1>1, <1>2, <1>3, <1>4, <1>5, <1>6, <1>7, <1>8, <1>9, <1>10
  DEF Next, UserStep, WaitStep, ShellStep

(* Every variable keeps its type: among others, a flow never waits for a   *)
(* step beyond its last, and only steps of flows are typed.                *)
THEOREM FlowTypeCorrect == Spec => []TypeOK
BY TypesInit, TypesNext, PTL DEF Spec

-----------------------------------------------------------------------------
(* What a step of a flow leaves alone                                      *)

(* What it types, it types with a step whose turn it is *)
Types(f) == pc'[f] = "waiting" /\ TypeStep(f, Current(f)')

LEMMA LoopFrame ==
  ASSUME TypeOK, NEW f \in FlowIds, NEW i, Loop(f, i)
  PROVE  /\ \A g \in FlowIds \ {f} : /\ pc'[g] = pc[g] /\ step'[g] = step[g]
                                     /\ result'[g] = result[g]
         /\ controller' \in {controller, 0}
         /\ pc'[f] \in {"ended", "desktop", "defining", "waiting"}
         /\ \/ UNCHANGED <<waiter, watches, lastTyped>> /\ pc'[f] # "waiting"
            \/ Types(f)
<1>1. CASE ~StepsLeft(i)
  BY <1>1 DEF Loop, End, TypeOK
<1>2. CASE StepsLeft(i) /\ f \in stopped
  BY <1>2 DEF Loop, End, TypeOK
<1>3. CASE StepsLeft(i) /\ f \notin stopped
  <2>1. /\ step' = [step EXCEPT ![f] = i] /\ UNCHANGED controller
        /\ \A g \in FlowIds \ {f} : pc'[g] = pc[g]
        /\ pc'[f] \in {"desktop", "defining", "waiting"}
    BY <1>3 DEF Loop, TypeOK
  <2>2. step'[f] = i /\ \A g \in FlowIds \ {f} : step'[g] = step[g]
    BY <2>1 DEF TypeOK
  <2>3. CASE pc'[f] = "waiting"
    <3>1. TypeStep(f, <<f, i>>)
      BY <1>3, <2>3 DEF Loop, TypeOK
    <3>2. <<f, i>> = Current(f)'
      BY <2>2 DEF Current
    <3>3. Types(f)
      BY <2>3, <3>1, <3>2 DEF Types
    <3>4. \A g \in FlowIds \ {f} : result'[g] = result[g]
      BY <3>1 DEF TypeStep, TypeOK
    <3> QED
      BY <2>1, <2>2, <3>3, <3>4
  <2>4. CASE pc'[f] # "waiting"
    <3>1. UNCHANGED waitVars /\ UNCHANGED lastTyped
      BY <1>3, <2>4 DEF Loop, TypeOK
    <3> QED
      BY <2>1, <2>2, <2>4, <3>1 DEF waitVars
  <2> QED
    BY <2>3, <2>4
<1>4. QED
  BY <1>1, <1>2, <1>3

LEMMA FlowFrame ==
  ASSUME TypeOK, NEW f \in FlowIds, FlowStep(f)
  PROVE  /\ UNCHANGED <<stopped, shown, running, reports>>
         /\ \A g \in FlowIds \ {f} : /\ pc'[g] = pc[g] /\ step'[g] = step[g]
                                     /\ result'[g] = result[g] /\ view'[g] = view[g]
         /\ controller' \in {controller, 0, f}
         /\ pc'[f] # "new"
         /\ pc[f] # "new" => view'[f] = view[f]
         /\ \/ UNCHANGED <<waiter, watches, lastTyped>> /\ pc'[f] # "waiting"
            \/ Types(f) /\ view'[f] = view[f]
<1>1. ASSUME NEW v \in ViewIds, Start(f, v)
      PROVE  /\ \A g \in FlowIds \ {f} : pc'[g] = pc[g] /\ view'[g] = view[g]
             /\ controller' \in {controller, f} /\ pc[f] = "new" /\ pc'[f] = "preparing"
             /\ UNCHANGED <<stopped, shown, running, reports, step, result, waiter, watches,
                            lastTyped>>
  BY <1>1 DEF Start, TypeOK, waitVars, shellVars
<1>2. CASE Prepared(f)
  BY <1>2 DEF Prepared, End, TypeOK, shellVars, history
<1>3. ASSUME End(f), UNCHANGED <<waiter, watches, lastTyped, view>>
      PROVE  /\ \A g \in FlowIds \ {f} : /\ pc'[g] = pc[g] /\ step'[g] = step[g]
                                         /\ result'[g] = result[g] /\ view'[g] = view[g]
             /\ controller' \in {controller, 0} /\ pc'[f] = "ended"
  BY <1>3 DEF End, TypeOK
<1>4. CASE Answered(f)
  <2>1. UNCHANGED <<view, stopped, shown, running, reports>>
    BY <1>4 DEF Answered
  <2> QED
    BY <1>3, <1>4, <2>1, LoopFrame DEF Answered
<1>5. CASE Defined(f)
  <2>1. /\ UNCHANGED <<view, step, stopped, shown, controller, running, reports>>
        /\ pc' = [pc EXCEPT ![f] = "waiting"] /\ TypeStep(f, Current(f))
    BY <1>5 DEF Defined, viewVars
  <2>2. Types(f) /\ \A g \in FlowIds \ {f} : result'[g] = result[g] /\ pc'[g] = pc[g]
    BY <2>1 DEF Types, Current, TypeStep, TypeOK
  <2> QED
    BY <2>1, <2>2 DEF Types
<1>6. CASE DesktopDone(f)
  <2>1. UNCHANGED <<view, stopped, shown, running, reports>>
    BY <1>6 DEF DesktopDone
  <2>2. Loop(f, step[f] + 1) \/ (End(f) /\ UNCHANGED <<waiter, watches, lastTyped>>)
    BY <1>6 DEF DesktopDone
  <2> QED
    BY <1>3, <2>1, <2>2, LoopFrame
<1>7. CASE Settled(f)
  <2>1. UNCHANGED <<view, stopped, shown, running, reports>>
    BY <1>7 DEF Settled
  <2>2. Loop(f, step[f] + 1) \/ (End(f) /\ UNCHANGED <<waiter, watches, lastTyped>>)
    BY <1>7 DEF Settled
  <2> QED
    BY <1>3, <2>1, <2>2, LoopFrame
<1>8. QED
  BY <1>1, <1>2, <1>4, <1>5, <1>6, <1>7 DEF FlowStep

(* A step that is settled changes the result of its flow only, if it is    *)
(* the one the flow waits for.                                             *)
LEMMA FinishIs ==
  ASSUME TypeOK, NEW s \in AllSteps, NEW code, Finish(s, code)
  PROVE  /\ \A g \in FlowIds :
              IF s = Current(g) /\ pc[g] = "waiting" /\ result[g] = "open"
                THEN result'[g] = code ELSE result'[g] = result[g]
         /\ watches' = watches \ {s}
         /\ waiter' = IF waiter = s THEN NoStep ELSE waiter
<1>1. s[1] \in FlowIds
  BY DEF AllSteps
<1>2. \A g \in FlowIds : s = Current(g) => s[1] = g
  BY DEF Current
<1> QED
  BY <1>1, <1>2 DEF Finish, Settle, TypeOK

-----------------------------------------------------------------------------
(* Beginnings: a flow that has not begun is at its first step, nothing was *)
(* typed for it and nothing has stopped it; the flow that typed last in    *)
(* the view that is shown was started there.                               *)
Beginnings ==
  /\ \A f \in FlowIds : pc[f] \in {"new", "preparing", "asking"} => step[f] = 1
  /\ \A f \in FlowIds : pc[f] = "new" =>
       f \notin stopped /\ controller # f /\ lastTyped # f
  /\ lastTyped # 0 => view[lastTyped] = shown

LEMMA BeginningsInit == Init => Beginnings
BY DEF Init, Beginnings, FlowIds

LEMMA BeginningsNext == TypeOK /\ Beginnings /\ [Next]_vars => Beginnings'
<1> SUFFICES ASSUME TypeOK, Beginnings, [Next]_vars
             PROVE  Beginnings'
  OBVIOUS
<1>1. ASSUME NEW f \in FlowIds, FlowStep(f)
      PROVE  Beginnings'
  <2>1. \A g \in FlowIds \ {f} : /\ pc'[g] = pc[g] /\ step'[g] = step[g] /\ view'[g] = view[g]
    BY <1>1, FlowFrame
  <2>2. /\ UNCHANGED <<stopped, shown>> /\ controller' \in {controller, 0, f}
        /\ pc'[f] # "new" /\ (pc[f] # "new" => view'[f] = view[f])
    BY <1>1, FlowFrame
  <2>3. pc'[f] \in {"preparing", "asking"} => step'[f] = 1
    <3>1. CASE \E v \in ViewIds : Start(f, v)
      BY <3>1 DEF Start, Beginnings, TypeOK
    <3>2. CASE Prepared(f)
      BY <3>2 DEF Prepared, End, Beginnings, TypeOK
    <3>3. CASE Defined(f)
      BY <3>3 DEF Defined, TypeOK
    <3>4. CASE Answered(f) \/ DesktopDone(f) \/ Settled(f)
      <4>1. (\E i : Loop(f, i)) \/ End(f)
        BY <3>4 DEF Answered, DesktopDone, Settled
      <4> QED
        BY <4>1, LoopFrame DEF End, TypeOK
    <3> QED
      BY <1>1, <3>1, <3>2, <3>3, <3>4 DEF FlowStep
  <2>4. \A g \in FlowIds : pc'[g] = "new" =>
          g # f /\ g \notin stopped' /\ controller' # g
    BY <2>1, <2>2 DEF Beginnings, FlowIds
  <2>5. CASE UNCHANGED lastTyped
    <3>1. lastTyped' # 0 => view'[lastTyped'] = shown'
      <4> SUFFICES ASSUME lastTyped # 0
                   PROVE  view'[lastTyped] = shown
        BY <2>2, <2>5
      <4>1. lastTyped \in FlowIds /\ view[lastTyped] = shown
        BY DEF Beginnings, TypeOK, FlowIds
      <4> QED
        BY <2>1, <2>2, <4>1 DEF Beginnings
    <3> QED
      BY <2>1, <2>3, <2>4, <2>5, <3>1 DEF Beginnings
  <2>6. CASE Types(f) /\ view'[f] = view[f]
    <3>1. lastTyped' = IF view[f] = shown THEN f ELSE lastTyped
      BY <2>6 DEF Types, TypeStep
    <3>2. lastTyped' # 0 => view'[lastTyped'] = shown'
      <4>1. CASE view[f] = shown
        BY <2>2, <2>6, <3>1, <4>1
      <4>2. CASE view[f] # shown
        <5> SUFFICES ASSUME lastTyped # 0
                     PROVE  view'[lastTyped] = shown
          BY <2>2, <3>1, <4>2
        <5>1. lastTyped \in FlowIds /\ view[lastTyped] = shown
          BY DEF Beginnings, TypeOK, FlowIds
        <5> QED
          BY <2>1, <2>2, <4>2, <5>1
      <4> QED
        BY <4>1, <4>2
    <3>3. \A g \in FlowIds : pc'[g] = "new" => lastTyped' # g
      BY <2>1, <2>4, <3>1 DEF Beginnings
    <3> QED
      BY <2>1, <2>3, <2>4, <3>2, <3>3 DEF Beginnings
  <2> QED
    BY <1>1, <2>5, <2>6, FlowFrame
<1>2. CASE Abort
  <2>1. controller \in FlowIds
    BY <1>2, FlowsAssumption DEF Abort, TypeOK, FlowIds
  <2> QED
    BY <1>2, <2>1 DEF Abort, Beginnings, FlowIds
<1>3. CASE Rebuild
  <2>1. \A f \in FlowIds : pc'[f] \in {pc[f], "ended"} /\ step'[f] = step[f]
    BY <1>3 DEF Rebuild
  <2>2. stopped' = stopped /\ controller' = 0 /\ lastTyped' = 0
    BY <1>3 DEF Rebuild
  <2> QED
    BY <2>1, <2>2 DEF Beginnings, FlowIds
<1>4. CASE TypeCtrlC \/ WaitStep \/ ShellStep \/ UNCHANGED vars
  BY <1>4
  DEF TypeCtrlC, WaitStep, ShellStep, Report, SeemsAtPrompt, FullScreen, Watch, ShellReads,
      CommandReads, CommandEnds, vars, flowVars, viewVars, history, Beginnings
<1>5. QED
  BY <1>1, <1>2, <1>3, <1>4 DEF Next, UserStep

LEMMA BeginningsAlways == Spec => []Beginnings
BY BeginningsInit, BeginningsNext, FlowTypeCorrect, PTL DEF Spec

-----------------------------------------------------------------------------
(* Waiters                                                                 *)

LEMMA WaiterInit == Init => WaiterIsCurrent
BY DEF Init, WaiterIsCurrent

LEMMA WaiterNext == TypeOK /\ Beginnings /\ WaiterIsCurrent /\ [Next]_vars => WaiterIsCurrent'
<1> SUFFICES ASSUME TypeOK, Beginnings, WaiterIsCurrent, [Next]_vars,
                    NEW g \in FlowIds, pc'[g] = "waiting", result'[g] = "open"
             PROVE  /\ Current(g)' \in watches'
                    /\ lastTyped' = g => waiter' = Current(g)'
  BY DEF WaiterIsCurrent
<1> DEFINE Waits == pc[g] = "waiting" /\ result[g] = "open"
<1>1. Waits => Current(g) \in watches /\ (lastTyped = g => waiter = Current(g))
  BY DEF WaiterIsCurrent
<1>2. ASSUME NEW f \in FlowIds, FlowStep(f)
      PROVE  /\ Current(g)' \in watches'
             /\ lastTyped' = g => waiter' = Current(g)'
  <2>1. CASE f = g
    <3>1. Types(g) /\ view'[g] = view[g]
      BY <1>2, <2>1, FlowFrame
    <3>2. Current(g)' \in watches'
      BY <3>1 DEF Types, TypeStep
    <3>3. ASSUME lastTyped' = g
          PROVE  view[g] = shown
      <4>1. CASE lastTyped = g
        <5>1. g # 0
          BY DEF FlowIds
        <5> QED
          BY <4>1, <5>1 DEF Beginnings
      <4>2. CASE lastTyped # g
        BY <3>1, <3>3, <4>2 DEF Types, TypeStep
      <4> QED
        BY <4>1, <4>2
    <3> QED
      BY <3>1, <3>2, <3>3 DEF Types, TypeStep
  <2>2. CASE f # g
    <3>1. Waits /\ Current(g)' = Current(g)
      BY <1>2, <2>2, FlowFrame DEF Current
    <3>2. CASE UNCHANGED <<waiter, watches, lastTyped>>
      BY <1>1, <3>1, <3>2
    <3>3. CASE Types(f)
      BY <1>1, <2>2, <3>1, <3>3 DEF Types, TypeStep
    <3> QED
      BY <1>2, <3>2, <3>3, FlowFrame
  <2> QED
    BY <2>1, <2>2
<1>3. CASE Abort
  <2>1. Waits /\ UNCHANGED <<waiter, watches, lastTyped, Current(g)>>
    BY <1>3 DEF Abort, Current, TypeOK
  <2> QED
    BY <1>1, <2>1
<1>4. CASE Rebuild
  <2>1. Waits /\ watches' = watches /\ Current(g)' = Current(g) /\ lastTyped' # g
    BY <1>4 DEF Rebuild, Current, FlowIds
  <2> QED
    BY <1>1, <2>1
<1>5. ASSUME NEW s \in AllSteps, NEW code \in {"ok", "failed", "none"}, Finish(s, code),
             UNCHANGED <<pc, step, lastTyped>>
      PROVE  /\ Current(g)' \in watches'
             /\ lastTyped' = g => waiter' = Current(g)'
  <2>1. s # Current(g) /\ Waits
    BY <1>5, FinishIs
  <2>2. Current(g)' = Current(g)
    BY <1>5 DEF Current
  <2> QED
    BY <1>1, <1>5, <2>1, <2>2, FinishIs
<1>6. CASE Report
  <2>1. UNCHANGED <<pc, step, lastTyped, Current(g)>>
    BY <1>6 DEF Report, Current, flowVars, history
  <2>2. CASE UNCHANGED waitVars
    BY <1>1, <2>1, <2>2 DEF waitVars
  <2>3. CASE waiter # NoStep /\ Finish(waiter, Head(reports))
    <3>1. waiter \in AllSteps /\ Head(reports) \in {"ok", "failed", "none"}
      BY <1>6, <2>3, HeadTailProperties DEF TypeOK, Report
    <3> QED
      BY <1>5, <2>1, <2>3, <3>1
  <2> QED
    BY <1>6, <2>2, <2>3 DEF Report
<1>7. CASE \E s \in AllSteps : Watch(s)
  BY <1>5, <1>7 DEF Watch, flowVars
<1>8. CASE TypeCtrlC \/ SeemsAtPrompt \/ FullScreen \/ ShellStep \/ UNCHANGED vars
  <2>1. UNCHANGED <<pc, step, lastTyped, result, waiter, watches, Current(g)>>
    BY <1>8
    DEF TypeCtrlC, SeemsAtPrompt, FullScreen, ShellStep, ShellReads, CommandReads, CommandEnds,
        vars, flowVars, waitVars, history, Current
  <2> QED
    BY <1>1, <2>1
<1>9. QED
  BY <1>2, <1>3, <1>4, <1>6, <1>7, <1>8 DEF Next, UserStep, WaitStep

(* A step that is waited for is watched, and in the view that is shown it  *)
(* is the one the next report settles, unless another flow typed there     *)
(* since: whatever flows overlap, views are rebuilt and old intervals do.  *)
THEOREM WaiterCurrent == Spec => []WaiterIsCurrent
BY WaiterInit, WaiterNext, FlowTypeCorrect, BeginningsAlways, PTL DEF Spec

-----------------------------------------------------------------------------
(* Order                                                                   *)

(* The shell has nothing of a flow *)
Quiet == input = <<>> /\ running = NoStep /\ reports = <<>>

(* A step is typed, then runs, then its report is on its way *)
UnderWay(f) ==
  \/ input = <<Current(f)>> /\ running = NoStep /\ reports = <<>>
  \/ input = <<>> /\ running = Current(f) /\ reports = <<>>
  \/ input = <<>> /\ running = NoStep /\ reports = <<exits[Current(f)]>>

AwaitsReport(f) == pc[f] = "waiting" /\ result[f] = "open"

OthersSilent(f) == \A g \in FlowIds \ {f} : Silent(g)

(* A flow that is alone has typed what the shell has, and nothing of it is *)
(* left when it goes on.  The step it waits for may have been discarded,   *)
(* killed, or its report dropped.                                          *)
InOrder(f) ==
  /\ pc[f] # "new" /\ view[f] = shown /\ f \notin stopped
  /\ OthersSilent(f)
  /\ IF AwaitsReport(f) THEN lastTyped = f /\ (UnderWay(f) \/ Quiet) ELSE Quiet
  /\ StepsFollowSuccess(f)
  /\ ToldTheTruth(f)

OrderInv == \A f \in FlowIds : alone = f => InOrder(f)

(* A flow of which the shell has nothing, and whose steps before i ended   *)
(* with code 0, is in order after the head of the loop for step i.         *)
LEMMA LoopInOrder ==
  ASSUME TypeOK, NEW f \in FlowIds, NEW i \in 1 .. Steps + 1, Loop(f, i),
         UNCHANGED <<view, stopped, shown, running, reports>>,
         view[f] = shown, f \notin stopped, OthersSilent(f), Quiet,
         \A j \in 1 .. step[f] - 1 : exits'[<<f, j>>] = "ok",
         \A j \in 1 .. i - 1 : exits'[<<f, j>>] = "ok"
  PROVE  InOrder(f)'
<1>1. /\ \A g \in FlowIds \ {f} : pc'[g] = pc[g] /\ result'[g] = result[g]
      /\ pc'[f] \in {"ended", "desktop", "defining", "waiting"}
  BY LoopFrame
<1>2. OthersSilent(f)'
  BY <1>1 DEF OthersSilent, Silent
<1>3. CASE ~StepsLeft(i)
  <2>1. pc'[f] = "ended" /\ step' = step /\ Quiet'
    BY <1>3 DEF Loop, End, Quiet, TypeOK
  <2> QED
    BY <1>2, <2>1 DEF InOrder, AwaitsReport, StepsFollowSuccess, ToldTheTruth
<1>4. CASE StepsLeft(i)
  <2>1. step'[f] = i
    BY <1>4 DEF Loop, TypeOK
  <2>2. StepsFollowSuccess(f)'
    BY <2>1 DEF StepsFollowSuccess
  <2>3. CASE pc'[f] # "waiting"
    <3>1. Quiet'
      BY <1>4, <2>3 DEF Loop, Quiet, TypeOK
    <3> QED
      BY <1>1, <1>2, <2>2, <2>3, <3>1 DEF InOrder, AwaitsReport, ToldTheTruth
  <2>4. CASE pc'[f] = "waiting"
    <3>1. Types(f)
      BY <2>4, LoopFrame
    <3>2. result'[f] = "open" /\ lastTyped' = f /\ input' = <<Current(f)'>>
      BY <3>1 DEF Types, TypeStep, Quiet, TypeOK
    <3>3. UnderWay(f)'
      BY <3>2 DEF UnderWay, Quiet, Current
    <3> QED
      BY <1>2, <2>2, <2>4, <3>2, <3>3 DEF InOrder, AwaitsReport, ToldTheTruth
  <2> QED
    BY <2>3, <2>4
<1> QED
  BY <1>3, <1>4

(* Nor does its end leave anything. *)
LEMMA EndInOrder ==
  ASSUME TypeOK, NEW f \in FlowIds, End(f),
         UNCHANGED <<view, stopped, shown, input, running, reports>>,
         view[f] = shown, f \notin stopped, OthersSilent(f), Quiet,
         \A j \in 1 .. step[f] - 1 : exits'[<<f, j>>] = "ok"
  PROVE  InOrder(f)'
<1>1. pc'[f] = "ended" /\ step' = step /\ Quiet'
  BY DEF End, Quiet, TypeOK
<1>2. OthersSilent(f)'
  BY DEF OthersSilent, Silent, End, TypeOK
<1> QED
  BY <1>1, <1>2 DEF InOrder, AwaitsReport, StepsFollowSuccess, ToldTheTruth

LEMMA OrderInit == Init => OrderInv
BY DEF Init, OrderInv, FlowIds

(* A step of the flow that is alone *)
LEMMA OwnStepInOrder ==
  ASSUME TypeOK, NEW f \in FlowIds, InOrder(f), FlowStep(f)
  PROVE  InOrder(f)'
<1>1. /\ pc[f] # "new" /\ view[f] = shown /\ f \notin stopped /\ OthersSilent(f)
      /\ ~AwaitsReport(f) => Quiet
      /\ \A j \in 1 .. step[f] - 1 : exits[<<f, j>>] = "ok"
  BY DEF InOrder, StepsFollowSuccess
<1>2. step[f] \in 1 .. Steps /\ step[f] \in Nat
  BY FlowsAssumption DEF TypeOK
<1>3. CASE Prepared(f)
  <2>1. UNCHANGED <<view, stopped, shown, input, running, reports, exits>> /\ Quiet
    BY <1>1, <1>3 DEF Prepared, AwaitsReport, shellVars
  <2>2. CASE pc' = [pc EXCEPT ![f] = "asking"] /\ UNCHANGED <<step, result>>
    <3>1. pc'[f] = "asking" /\ Quiet' /\ OthersSilent(f)'
      BY <1>1, <2>1, <2>2 DEF Quiet, OthersSilent, Silent, TypeOK
    <3> QED
      BY <1>1, <2>1, <2>2, <3>1
      DEF InOrder, AwaitsReport, StepsFollowSuccess, ToldTheTruth
  <2> QED
    BY <1>1, <1>3, <2>1, <2>2, EndInOrder DEF Prepared
<1>4. CASE Answered(f)
  <2>1. UNCHANGED <<view, stopped, shown, running, reports, exits>> /\ Quiet
    BY <1>1, <1>4 DEF Answered, AwaitsReport
  <2>2. CASE Loop(f, 1)
    <3>1. 1 \in 1 .. Steps + 1 /\ \A j \in 1 .. 1 - 1 : exits'[<<f, j>>] = "ok"
      BY NextStep
    <3> QED
      BY <1>1, <2>1, <2>2, <3>1, LoopInOrder
  <2> QED
    BY <1>1, <1>4, <2>1, <2>2, EndInOrder DEF Answered
<1>5. CASE Defined(f)
  <2>1. UNCHANGED <<view, step, stopped, shown, running, reports, exits>> /\ Quiet
    BY <1>1, <1>5 DEF Defined, AwaitsReport, viewVars
  <2>2. pc' = [pc EXCEPT ![f] = "waiting"] /\ TypeStep(f, Current(f)) /\ Current(f)' = Current(f)
    BY <1>5, <2>1 DEF Defined, Current
  <2>3. /\ pc'[f] = "waiting" /\ result'[f] = "open" /\ lastTyped' = f
        /\ input' = <<Current(f)>> /\ OthersSilent(f)'
    BY <1>1, <2>1, <2>2 DEF TypeStep, Quiet, OthersSilent, Silent, TypeOK
  <2>4. UnderWay(f)'
    BY <2>1, <2>2, <2>3 DEF UnderWay, Quiet
  <2> QED
    BY <1>1, <2>1, <2>3, <2>4 DEF InOrder, AwaitsReport, StepsFollowSuccess, ToldTheTruth
<1>6. CASE DesktopDone(f)
  <2>1. UNCHANGED <<view, stopped, shown, running, reports>> /\ Quiet
    BY <1>1, <1>6 DEF DesktopDone, AwaitsReport
  <2>2. Current(f) \in AllSteps /\ Current(f) = <<f, step[f]>>
    BY NextStep DEF Current
  <2>3. PICK code : exits' = [exits EXCEPT ![Current(f)] = code]
    BY <1>6 DEF DesktopDone
  <2>4. \A j \in 1 .. step[f] - 1 : exits'[<<f, j>>] = "ok"
    BY <1>1, <1>2, <2>2, <2>3 DEF TypeOK, AllSteps
  <2>5. CASE exits' = [exits EXCEPT ![Current(f)] = "ok"] /\ Loop(f, step[f] + 1)
    <3>1. exits'[<<f, step[f]>>] = "ok"
      BY <2>2, <2>5 DEF TypeOK
    <3>2. \A j \in 1 .. (step[f] + 1) - 1 : j = step[f] \/ j \in 1 .. step[f] - 1
      BY <1>2
    <3>3. \A j \in 1 .. (step[f] + 1) - 1 : exits'[<<f, j>>] = "ok"
      BY <2>4, <3>1, <3>2
    <3> QED
      BY <1>1, <2>1, <2>4, <2>5, <3>3, LoopInOrder, NextStep
  <2> QED
    BY <1>1, <1>6, <2>1, <2>4, <2>5, EndInOrder DEF DesktopDone
<1>7. CASE Settled(f)
  <2>1. UNCHANGED <<view, stopped, shown, running, reports, exits>> /\ Quiet
    BY <1>1, <1>7 DEF Settled, AwaitsReport
  <2>2. CASE GoesOn(f) /\ Loop(f, step[f] + 1)
    <3>1. exits[<<f, step[f]>>] = "ok"
      BY <1>7, <2>2 DEF InOrder, ToldTheTruth, GoesOn, Settled, Current
    <3>2. \A j \in 1 .. (step[f] + 1) - 1 : j = step[f] \/ j \in 1 .. step[f] - 1
      BY <1>2
    <3>3. \A j \in 1 .. (step[f] + 1) - 1 : exits'[<<f, j>>] = "ok"
      BY <1>1, <2>1, <3>1, <3>2
    <3> QED
      BY <1>1, <2>1, <2>2, <3>3, LoopInOrder, NextStep
  <2> QED
    BY <1>1, <1>7, <2>1, <2>2, EndInOrder DEF Settled
<1> QED
  BY <1>1, <1>3, <1>4, <1>5, <1>6, <1>7 DEF FlowStep, Start

(* A step of another, which starts and is alone from then on, or ends *)
LEMMA OtherStepInOrder ==
  ASSUME TypeOK, Beginnings, OrderInv, NEW f \in FlowIds, NEW g \in FlowIds, g # f,
         FlowStep(g), alone' = f
  PROVE  InOrder(f)'
<1>1. ~(\E v \in ViewIds : Start(g, v))
  BY DEF Start, FlowIds
<1>2. InOrder(f) /\ Silent(g)
  <2>1. alone = f
    BY <1>1 DEF FlowStep, Prepared, Answered, Defined, DesktopDone, Settled, history
  <2> QED
    BY <2>1 DEF OrderInv, InOrder, OthersSilent
<1>3. Settled(g) /\ ~GoesOn(g)
  BY <1>1, <1>2
  DEF FlowStep, Silent, Prepared, Answered, Defined, DesktopDone, Settled, GoesOn
<1>4. End(g) /\ UNCHANGED <<view, stopped, shown, input, running, reports, exits, lastTyped>>
  BY <1>3 DEF Settled
<1>5. pc'[f] = pc[f] /\ step'[f] = step[f] /\ result'[f] = result[f] /\ OthersSilent(f)'
  BY <1>2, <1>4 DEF End, InOrder, OthersSilent, Silent, TypeOK
<1> QED
  BY <1>2, <1>4, <1>5
  DEF InOrder, AwaitsReport, UnderWay, Quiet, Current, StepsFollowSuccess, ToldTheTruth

(* A flow that starts alone *)
LEMMA StartInOrder ==
  ASSUME TypeOK, Beginnings, NEW f \in FlowIds, NEW v \in ViewIds, Start(f, v), alone' = f
  PROVE  InOrder(f)'
<1>1. v = shown /\ Quiet /\ OthersSilent(f)
  BY DEF Start, Quiet, OthersSilent, FlowIds
<1>2. /\ pc'[f] = "preparing" /\ view'[f] = shown /\ f \notin stopped /\ step[f] = 1
      /\ UNCHANGED <<shown, stopped, step, result, input, running, reports>>
  BY <1>1 DEF Start, Beginnings, TypeOK, waitVars, shellVars
<1>3. OthersSilent(f)'
  BY <1>1, <1>2 DEF Start, OthersSilent, Silent, TypeOK
<1> QED
  BY <1>1, <1>2, <1>3
  DEF InOrder, AwaitsReport, Quiet, StepsFollowSuccess, ToldTheTruth

LEMMA OrderNext ==
  TypeOK /\ Beginnings /\ WaiterIsCurrent /\ OrderInv /\ [Next]_vars => OrderInv'
<1> SUFFICES ASSUME TypeOK, Beginnings, WaiterIsCurrent, OrderInv, [Next]_vars,
                    NEW f \in FlowIds, alone' = f
             PROVE  InOrder(f)'
  BY DEF OrderInv
<1>1. f # 0
  BY DEF FlowIds
<1>2. ASSUME alone = f
      PROVE  InOrder(f)
  BY <1>2 DEF OrderInv
<1>3. CASE \E g \in FlowIds : FlowStep(g)
  <2>1. PICK g \in FlowIds : FlowStep(g)
    BY <1>3
  <2>2. CASE g # f
    BY <2>1, <2>2, OtherStepInOrder
  <2>3. CASE g = f /\ \E v \in ViewIds : Start(f, v)
    BY <2>3, StartInOrder
  <2>4. CASE g = f /\ ~ \E v \in ViewIds : Start(f, v)
    <3>1. alone = f
      BY <2>1, <2>4 DEF FlowStep, Prepared, Answered, Defined, DesktopDone, Settled, history
    <3> QED
      BY <1>2, <2>1, <2>4, <3>1, OwnStepInOrder
  <2> QED
    BY <2>2, <2>3, <2>4
<1>4. CASE Abort \/ Rebuild
  BY <1>1, <1>4 DEF Abort, Rebuild
<1>5. CASE TypeCtrlC
  <2>1. /\ UNCHANGED <<pc, view, step, stopped, shown, result, running, reports, exits,
                       alone, lastTyped, Current(f)>>
        /\ input' \in {<<>>, input}
    BY <1>5 DEF TypeCtrlC, Interrupt, flowVars, viewVars, waitVars, history, Current
  <2>2. InOrder(f) /\ OthersSilent(f)'
    BY <1>2, <2>1 DEF InOrder, OthersSilent, Silent
  <2> QED
    BY <2>1, <2>2
    DEF InOrder, AwaitsReport, UnderWay, Quiet, StepsFollowSuccess, ToldTheTruth
<1>6. CASE Report
  <2>1. UNCHANGED <<pc, view, step, stopped, shown, input, running, exits, alone, lastTyped,
                    Current(f)>>
    BY <1>6 DEF Report, flowVars, viewVars, history, Current
  <2>2. /\ InOrder(f) /\ AwaitsReport(f) /\ lastTyped = f /\ UnderWay(f)
        /\ reports = <<exits[Current(f)]>> /\ input = <<>> /\ running = NoStep
    BY <1>2, <1>6, <2>1 DEF InOrder, Quiet, UnderWay, Report
  <2>3. Quiet'
    BY <1>6, <2>1, <2>2 DEF Report, Quiet
  <2>4. CASE UNCHANGED waitVars
    <3>1. UNCHANGED result /\ OthersSilent(f)'
      BY <2>1, <2>2, <2>4 DEF waitVars, InOrder, OthersSilent, Silent
    <3> QED
      BY <2>1, <2>2, <2>3, <3>1
      DEF InOrder, AwaitsReport, StepsFollowSuccess, ToldTheTruth
  <2>5. CASE Finish(waiter, Head(reports))
    <3>1. waiter = Current(f) /\ Current(f) \in AllSteps
      BY <2>2, NextStep DEF WaiterIsCurrent, AwaitsReport
    <3>2. Head(reports) = exits[Current(f)] /\ Head(reports) \in {"ok", "failed"}
      BY <1>6, <2>2, HeadTailProperties DEF Report, TypeOK
    <3>3. result'[f] = exits[Current(f)] /\ result'[f] # "open"
      BY <2>2, <2>5, <3>1, <3>2, FinishIs DEF AwaitsReport
    <3>4. \A g \in FlowIds \ {f} : result'[g] = result[g]
      <4>1. \A g \in FlowIds \ {f} : Current(f) # Current(g)
        BY DEF Current
      <4> QED
        BY <2>5, <3>1, <4>1, FinishIs
    <3>5. OthersSilent(f)'
      BY <2>1, <2>2, <3>4 DEF InOrder, OthersSilent, Silent
    <3> QED
      BY <2>1, <2>2, <2>3, <3>3, <3>5
      DEF InOrder, AwaitsReport, StepsFollowSuccess, ToldTheTruth
  <2> QED
    BY <1>6, <2>4, <2>5 DEF Report
<1>7. CASE \E s \in AllSteps : Watch(s)
  <2>1. PICK s \in AllSteps : Watch(s)
    BY <1>7
  <2>2. UNCHANGED <<pc, view, step, stopped, shown, input, running, reports, exits, lastTyped,
                    Current(f)>>
    BY <2>1 DEF Watch, flowVars, viewVars, shellVars, Current
  <2>3. alone = f /\ s # Current(f)
    BY <1>1, <2>1 DEF Watch, Current
  <2>4. /\ result'[f] = result[f]
        /\ \A g \in FlowIds \ {f} : result'[g] \in {result[g], "none"}
    BY <2>1, <2>3, FinishIs DEF Watch
  <2>5. InOrder(f) /\ OthersSilent(f)'
    BY <1>2, <2>2, <2>3, <2>4 DEF InOrder, OthersSilent, Silent
  <2> QED
    BY <2>2, <2>4, <2>5
    DEF InOrder, AwaitsReport, UnderWay, Quiet, StepsFollowSuccess, ToldTheTruth
<1>8. CASE SeemsAtPrompt \/ FullScreen \/ UNCHANGED vars
  <2>1. UNCHANGED <<pc, view, step, stopped, shown, result, input, running, reports, exits,
                    alone, lastTyped, Current(f)>>
    BY <1>8 DEF SeemsAtPrompt, FullScreen, vars, flowVars, viewVars, waitVars, shellVars,
                history, Current
  <2>2. InOrder(f) /\ OthersSilent(f)'
    BY <1>2, <2>1 DEF InOrder, OthersSilent, Silent
  <2> QED
    BY <2>1, <2>2
    DEF InOrder, AwaitsReport, UnderWay, Quiet, StepsFollowSuccess, ToldTheTruth
<1>9. CASE ShellStep
  <2>1. UNCHANGED <<pc, view, step, stopped, shown, result, alone, lastTyped, Current(f)>>
    BY <1>9 DEF ShellStep, ShellReads, CommandReads, CommandEnds, flowVars, viewVars, waitVars,
                history, Current
  <2>2. InOrder(f) /\ OthersSilent(f)'
    BY <1>2, <2>1 DEF InOrder, OthersSilent, Silent
  <2>3. AwaitsReport(f) /\ UnderWay(f) /\ lastTyped = f
    BY <1>9, <2>2 DEF InOrder, Quiet, ShellStep, ShellReads, CommandReads, CommandEnds
  <2>4. CASE ShellReads
    <3>1. input = <<Current(f)>> /\ reports = <<>> /\ UNCHANGED <<reports, exits>>
      BY <2>3, <2>4 DEF UnderWay, ShellReads
    <3>2. running' = Current(f) /\ input' = <<>>
      BY <2>4, <3>1 DEF ShellReads
    <3>3. UnderWay(f)'
      BY <2>1, <3>1, <3>2 DEF UnderWay
    <3> QED
      BY <2>1, <2>2, <2>3, <3>1, <3>3
      DEF InOrder, AwaitsReport, StepsFollowSuccess, ToldTheTruth
  <2>5. CASE CommandReads
    BY <2>3, <2>5 DEF CommandReads, UnderWay
  <2>6. CASE CommandEnds
    <3>1. running = Current(f) /\ input = <<>> /\ reports = <<>>
      BY <2>3, <2>6 DEF UnderWay, CommandEnds
    <3>2. Current(f) \in AllSteps /\ Current(f) = <<f, step[f]>> /\ step[f] \in 1 .. Steps
      BY NextStep DEF Current, TypeOK
    <3>3. PICK code : /\ exits' = [exits EXCEPT ![Current(f)] = code]
                      /\ reports' \in {<<code>>, <<>>}
      BY <2>6, <3>1 DEF CommandEnds
    <3>4. exits'[Current(f)] = code /\ running' = NoStep /\ input' = <<>>
      BY <2>6, <3>1, <3>2, <3>3 DEF CommandEnds, TypeOK
    <3>5. UnderWay(f)' \/ Quiet'
      BY <2>1, <3>3, <3>4 DEF UnderWay, Quiet
    <3>6. StepsFollowSuccess(f)'
      BY <2>1, <2>2, <3>2, <3>3, FlowsAssumption
      DEF InOrder, StepsFollowSuccess, TypeOK, AllSteps
    <3> QED
      BY <2>1, <2>2, <2>3, <3>5, <3>6 DEF InOrder, AwaitsReport, ToldTheTruth
  <2> QED
    BY <1>9, <2>4, <2>5, <2>6 DEF ShellStep
<1> QED
  BY <1>3, <1>4, <1>5, <1>6, <1>7, <1>8, <1>9 DEF Next, UserStep, WaitStep

(* A flow that starts alone only begins a step when every step before it   *)
(* ended with code 0, and is told how its step ended, until another flow   *)
(* starts, the view is rebuilt, or a step of it is given up or stopped.    *)
THEOREM OrderWhenAlone == Spec => []OrderlyWhenAlone
<1>1. TypeOK /\ OrderInv => OrderlyWhenAlone
  BY DEF TypeOK, OrderInv, InOrder, OrderlyWhenAlone, FlowIds
<1>2. Spec => []OrderInv
  BY OrderInit, OrderNext, FlowTypeCorrect, BeginningsAlways, WaiterCurrent, PTL DEF Spec
<1> QED
  BY <1>1, <1>2, FlowTypeCorrect, PTL

-----------------------------------------------------------------------------
(* The shell gets the steps of a flow in order and none twice *)

Results == {"none", "ok", "failed"}

(* What is typed, the command that runs and the commands that have run     *)
Ordered(in, run, ex) ==
  /\ \A i, j \in 1 .. Len(in) : i < j => Before(in[i], in[j])
  /\ run # NoStep => ex[run] = "none" /\ \A i \in 1 .. Len(in) : Before(run, in[i])
  /\ \A i \in 1 .. Len(in) : ex[in[i]] = "none"

(* A step that was given to the shell, or has run *)
Given(in, run, ex, t) == run = t \/ ex[t] # "none" \/ \E i \in 1 .. Len(in) : in[i] = t

(* No step is given to the shell before its flow has reached it, nor the   *)
(* one whose turn it is before its report function is defined.             *)
Reached(t) ==
  \/ t[2] < step[t[1]]
  \/ pc[t[1]] \in {"waiting", "ended"} /\ t[2] = step[t[1]]

NothingAhead == \A t \in AllSteps : Given(input, running, exits, t) => Reached(t)

ShellInv == RunsInOrder /\ NothingAhead

(* A step that comes after all the others of its flow may be typed, after  *)
(* what is not read yet or when that was discarded.                        *)
LEMMA AppendOrdered ==
  ASSUME NEW in \in Seq(AllSteps), NEW run \in AllSteps \cup {NoStep},
         NEW ex \in [AllSteps -> Results], NEW s \in AllSteps, Ordered(in, run, ex),
         \A t \in AllSteps : Given(in, run, ex, t) => Before(t, s)
  PROVE  /\ Ordered(Append(in, s), run, ex)
         /\ \A t \in AllSteps : Given(Append(in, s), run, ex, t) =>
              Given(in, run, ex, t) \/ t = s
<1>1. /\ Len(in) \in Nat /\ Len(Append(in, s)) = Len(in) + 1
      /\ Append(in, s)[Len(in) + 1] = s
      /\ \A i \in 1 .. Len(in) : Append(in, s)[i] = in[i] /\ in[i] \in AllSteps
  BY AppendProperties, ElementOfSeq
<1>2. \A i \in 1 .. Len(in) + 1 : i = Len(in) + 1 \/ i \in 1 .. Len(in)
  BY <1>1
<1>3. \A i \in 1 .. Len(in) : Before(in[i], s)
  BY <1>1 DEF Given
<1>4. ex[s] = "none" /\ (run # NoStep => Before(run, s))
  <2>1. ~ Before(s, s)
    BY DEF Before, AllSteps
  <2> QED
    BY <2>1 DEF Given
<1>5. \A i, j \in 1 .. Len(in) + 1 : i < j => Before(Append(in, s)[i], Append(in, s)[j])
  <2> SUFFICES ASSUME NEW i \in 1 .. Len(in) + 1, NEW j \in 1 .. Len(in) + 1, i < j
               PROVE  Before(Append(in, s)[i], Append(in, s)[j])
    OBVIOUS
  <2>1. i \in 1 .. Len(in)
    BY <1>1
  <2>2. CASE j = Len(in) + 1
    BY <1>1, <1>3, <2>1, <2>2
  <2>3. CASE j \in 1 .. Len(in)
    BY <1>1, <2>1, <2>3 DEF Ordered
  <2> QED
    BY <1>2, <2>2, <2>3
<1>6. Ordered(Append(in, s), run, ex)
  BY <1>1, <1>2, <1>4, <1>5 DEF Ordered
<1>7. ASSUME NEW t \in AllSteps, Given(Append(in, s), run, ex, t)
      PROVE  Given(in, run, ex, t) \/ t = s
  BY <1>1, <1>2, <1>7 DEF Given
<1> QED
  BY <1>6, <1>7

(* What was typed may be discarded *)
LEMMA EmptyOrdered ==
  ASSUME NEW in, NEW run, NEW ex, Ordered(in, run, ex)
  PROVE  /\ Ordered(<<>>, run, ex)
         /\ \A t : Given(<<>>, run, ex, t) => Given(in, run, ex, t)
BY DEF Ordered, Given

(* The first of what was typed may be read *)
LEMMA TailOrdered ==
  ASSUME NEW in \in Seq(AllSteps), NEW run, NEW ex, Ordered(in, run, ex), in # <<>>
  PROVE  /\ Ordered(Tail(in), run, ex)
         /\ \A t : Given(Tail(in), run, ex, t) => Given(in, run, ex, t)
         /\ \A i \in 1 .. Len(Tail(in)) : Before(Head(in), Tail(in)[i])
         /\ Head(in) \in AllSteps /\ ex[Head(in)] = "none" /\ Given(in, run, ex, Head(in))
<1>1. /\ Len(in) \in Nat \ {0} /\ Len(Tail(in)) = Len(in) - 1
      /\ \A i \in 1 .. Len(in) - 1 : Tail(in)[i] = in[i + 1]
      /\ Head(in) = in[1] /\ Head(in) \in AllSteps
  BY HeadTailProperties, EmptySeq, LenProperties
<1>2. \A i \in 1 .. Len(in) - 1 : i + 1 \in 1 .. Len(in) /\ 1 < i + 1
  BY <1>1
<1>3. 1 \in 1 .. Len(in)
  BY <1>1
<1>4. \A i, j \in 1 .. Len(in) - 1 : i < j => Before(Tail(in)[i], Tail(in)[j])
  BY <1>1, <1>2 DEF Ordered
<1>5. Ordered(Tail(in), run, ex)
  BY <1>1, <1>2, <1>4 DEF Ordered
<1>6. \A t : Given(Tail(in), run, ex, t) => Given(in, run, ex, t)
  BY <1>1, <1>2 DEF Given
<1>7. \A i \in 1 .. Len(Tail(in)) : Before(Head(in), Tail(in)[i])
  BY <1>1, <1>2, <1>3 DEF Ordered
<1>8. ex[Head(in)] = "none" /\ Given(in, run, ex, Head(in))
  BY <1>1, <1>3 DEF Ordered, Given
<1> QED
  BY <1>1, <1>5, <1>6, <1>7, <1>8

(* The step that is typed comes after all that were typed for its flow *)
LEMMA TypedInOrder ==
  ASSUME TypeOK, NEW f \in FlowIds, NEW s \in AllSteps, TypeStep(f, s),
         NEW ex \in [AllSteps -> Results], Ordered(input, running, ex),
         \A t \in AllSteps : Given(input, running, ex, t) => Before(t, s)
  PROVE  /\ Ordered(input', running, ex)
         /\ \A t \in AllSteps : Given(input', running, ex, t) =>
              Given(input, running, ex, t) \/ t = s
<1>1. input \in Seq(AllSteps) /\ running \in AllSteps \cup {NoStep} /\ <<>> \in Seq(AllSteps)
  BY EmptySeq DEF TypeOK
<1>2. PICK left \in {<<>>, input} : input' = Append(left, s)
  BY DEF TypeStep
<1>3. left \in Seq(AllSteps) /\ Ordered(left, running, ex)
  BY <1>1, EmptyOrdered
<1>4. \A t \in AllSteps : Given(left, running, ex, t) => Given(input, running, ex, t)
  BY EmptyOrdered
<1> QED
  BY <1>1, <1>2, <1>3, <1>4, AppendOrdered

(* The head of the loop for step i keeps the order *)
LEMMA LoopKeepsOrder ==
  ASSUME TypeOK, NEW f \in FlowIds, NEW i \in 1 .. Steps + 1, Loop(f, i), UNCHANGED running,
         exits' \in [AllSteps -> Results], Ordered(input, running, exits'),
         \A t \in AllSteps : Given(input, running, exits', t) =>
           IF t[1] = f THEN t[2] < i /\ t[2] <= step[f] ELSE Reached(t)
  PROVE  ShellInv'
<1>1. \A t \in AllSteps : t[1] # f => (Reached(t)' <=> Reached(t))
  <2>1. \A t \in AllSteps : t[1] \in FlowIds
    BY DEF AllSteps
  <2> QED
    BY <2>1, LoopFrame DEF Reached
<1>2. \A t \in AllSteps : t[2] \in Nat
  BY FlowsAssumption DEF AllSteps
<1>3. step[f] \in Nat
  BY FlowsAssumption DEF TypeOK
<1>4. ASSUME End(f), input' \in {<<>>, input}
      PROVE  ShellInv'
  <2>1. Ordered(input', running', exits')
    BY <1>4, EmptyOrdered
  <2>2. \A t \in AllSteps : Given(input', running', exits', t) => Given(input, running, exits', t)
    BY <1>4, EmptyOrdered
  <2>3. pc'[f] = "ended" /\ step' = step
    BY <1>4 DEF End, TypeOK
  <2>4. \A t \in AllSteps : t[1] = f /\ t[2] <= step[f] => Reached(t)'
    BY <1>2, <1>3, <2>3 DEF Reached
  <2> QED
    BY <1>1, <2>1, <2>2, <2>4 DEF ShellInv, RunsInOrder, Ordered, NothingAhead
<1>5. CASE ~StepsLeft(i)
  BY <1>4, <1>5 DEF Loop
<1>6. CASE StepsLeft(i) /\ f \in stopped
  BY <1>4, <1>6 DEF Loop, Interrupt
<1>7. CASE StepsLeft(i) /\ f \notin stopped
  <2>1. step'[f] = i /\ <<f, i>> \in AllSteps
    <3>1. i \in 1 .. Steps
      BY <1>7, FlowsAssumption DEF StepsLeft
    <3> QED
      BY <1>7, <3>1 DEF Loop, AllSteps, TypeOK
  <2>2. \A t \in AllSteps : t[1] = f /\ t[2] < i => Reached(t)'
    BY <2>1 DEF Reached
  <2>3. CASE pc'[f] = "waiting"
    <3>1. TypeStep(f, <<f, i>>)
      BY <1>7, <2>3 DEF Loop, TypeOK
    <3>2. \A t \in AllSteps : Given(input, running, exits', t) => Before(t, <<f, i>>)
      BY DEF Before
    <3>3. /\ Ordered(input', running, exits')
          /\ \A t \in AllSteps : Given(input', running, exits', t) =>
               Given(input, running, exits', t) \/ t = <<f, i>>
      BY <2>1, <3>1, <3>2, TypedInOrder
    <3>4. Reached(<<f, i>>)'
      BY <2>1, <2>3 DEF Reached
    <3> QED
      BY <1>1, <2>2, <3>3, <3>4 DEF ShellInv, RunsInOrder, Ordered, NothingAhead
  <2>4. CASE pc'[f] # "waiting"
    <3>1. UNCHANGED input
      BY <1>7, <2>4 DEF Loop, TypeOK
    <3> QED
      BY <1>1, <2>2, <3>1 DEF ShellInv, RunsInOrder, Ordered, NothingAhead
  <2> QED
    BY <2>3, <2>4
<1> QED
  BY <1>5, <1>6, <1>7

(* The order is kept when the shell gets nothing and no flow goes back *)
LEMMA OrderStays ==
  ASSUME TypeOK, ShellInv, UNCHANGED <<step, exits>>,
         \A f \in FlowIds : pc[f] \in {"waiting", "ended"} => pc'[f] \in {"waiting", "ended"},
         \/ UNCHANGED <<input, running>>
         \/ running' = running /\ input' = <<>>
         \/ running' = running /\ input # <<>> /\ input' = Tail(input)
  PROVE  ShellInv'
<1>1. Ordered(input, running, exits)
  BY DEF ShellInv, RunsInOrder, Ordered
<1>2. input \in Seq(AllSteps)
  BY DEF TypeOK
<1>3. /\ Ordered(input', running', exits')
      /\ \A t : Given(input', running', exits', t) => Given(input, running, exits, t)
  <2>1. exits' = exits
    OBVIOUS
  <2>2. CASE UNCHANGED <<input, running>>
    BY <1>1, <2>1, <2>2
  <2>3. CASE running' = running /\ input' = <<>>
    BY <1>1, <2>1, <2>3, EmptyOrdered
  <2>4. CASE running' = running /\ input # <<>> /\ input' = Tail(input)
    BY <1>1, <1>2, <2>1, <2>4, TailOrdered
  <2> QED
    BY <2>2, <2>3, <2>4
<1>4. \A t \in AllSteps : Reached(t) => Reached(t)'
  <2>1. \A t \in AllSteps : t[1] \in FlowIds
    BY DEF AllSteps
  <2> QED
    BY <2>1 DEF Reached
<1> QED
  BY <1>3, <1>4 DEF ShellInv, RunsInOrder, Ordered, NothingAhead

LEMMA ShellInit == Init => ShellInv
<1> SUFFICES ASSUME Init
             PROVE  ShellInv
  OBVIOUS
<1>1. \A t \in AllSteps : t # NoStep
  BY FlowsAssumption DEF AllSteps, NoStep
<1>2. RunsInOrder
  BY DEF Init, RunsInOrder
<1>3. NothingAhead
  BY <1>1 DEF Init, NothingAhead, Given
<1> QED
  BY <1>2, <1>3 DEF ShellInv

(* A step of a flow keeps the order *)
LEMMA FlowKeepsOrder ==
  ASSUME TypeOK, TypeOK', Beginnings, ShellInv, NEW f \in FlowIds, FlowStep(f)
  PROVE  ShellInv'
<1>1. Ordered(input, running, exits)
  BY DEF ShellInv, RunsInOrder, Ordered
<1>2. exits \in [AllSteps -> Results] /\ exits' \in [AllSteps -> Results]
  BY DEF TypeOK, Results
<1>3. /\ step[f] \in Nat /\ Current(f) = <<f, step[f]>> /\ Current(f) \in AllSteps
      /\ step[f] + 1 \in 1 .. Steps + 1
  BY NextStep, FlowsAssumption DEF Current, TypeOK
<1>4. \A t \in AllSteps : /\ t[1] \in FlowIds /\ t[2] \in Nat /\ t[2] >= 1
                          /\ t[1] = f /\ t[2] = step[f] => t = Current(f)
  BY <1>3, FlowsAssumption DEF AllSteps
<1>5. \A t \in AllSteps : Given(input, running, exits, t) => Reached(t)
  BY DEF ShellInv, NothingAhead
<1>6. ASSUME UNCHANGED <<input, running, exits, step>>,
             \A g \in FlowIds : pc[g] \in {"waiting", "ended"} => pc'[g] \in {"waiting", "ended"}
      PROVE  ShellInv'
  BY <1>6, OrderStays
<1>7. CASE \E v \in ViewIds : Start(f, v)
  <2>1. /\ UNCHANGED <<input, running, exits, step>> /\ pc[f] = "new"
        /\ \A g \in FlowIds \ {f} : pc'[g] = pc[g]
    BY <1>7 DEF Start, shellVars, TypeOK
  <2> QED
    BY <1>6, <2>1
<1>8. CASE Prepared(f)
  <2>1. /\ UNCHANGED <<input, running, exits, step>> /\ pc[f] = "preparing"
        /\ \A g \in FlowIds \ {f} : pc'[g] = pc[g]
    BY <1>8 DEF Prepared, End, shellVars, TypeOK
  <2> QED
    BY <1>6, <2>1
<1>9. CASE Answered(f)
  <2>1. pc[f] = "asking" /\ step[f] = 1 /\ UNCHANGED <<running, exits>>
    BY <1>9 DEF Answered, Beginnings
  <2>2. CASE Loop(f, 1)
    <3>1. \A t \in AllSteps : Given(input, running, exits, t) => t[1] # f /\ Reached(t)
      BY <1>4, <1>5, <2>1 DEF Reached
    <3> QED
      BY <1>1, <1>2, <2>1, <2>2, <3>1, LoopKeepsOrder, NextStep
  <2>3. CASE End(f) /\ UNCHANGED input
    BY <1>6, <2>1, <2>3 DEF End, TypeOK
  <2> QED
    BY <1>9, <2>2, <2>3 DEF Answered
<1>10. CASE Defined(f)
  <2>1. /\ pc[f] = "defining" /\ pc' = [pc EXCEPT ![f] = "waiting"] /\ TypeStep(f, Current(f))
        /\ UNCHANGED <<step, running, exits>>
    BY <1>10 DEF Defined
  <2>2. \A t \in AllSteps : Given(input, running, exits, t) => Before(t, Current(f))
    BY <1>3, <1>5, <2>1 DEF Reached, Before
  <2>3. /\ Ordered(input', running', exits')
        /\ \A t \in AllSteps : Given(input', running', exits', t) =>
             Given(input, running, exits, t) \/ t = Current(f)
    BY <1>1, <1>2, <1>3, <2>1, <2>2, TypedInOrder
  <2>4. \A t \in AllSteps : Reached(t) \/ t = Current(f) => Reached(t)'
    BY <1>3, <1>4, <2>1 DEF Reached, TypeOK
  <2> QED
    BY <1>5, <2>3, <2>4 DEF ShellInv, RunsInOrder, Ordered, NothingAhead
<1>11. CASE DesktopDone(f)
  <2>1. pc[f] = "desktop" /\ UNCHANGED running
    BY <1>11 DEF DesktopDone
  <2>2. PICK code \in {"ok", "failed"} : exits' = [exits EXCEPT ![Current(f)] = code]
    BY <1>11 DEF DesktopDone
  <2>3. ~ Given(input, running, exits, Current(f))
    BY <1>3, <1>5, <2>1 DEF Reached
  <2>4. Ordered(input, running, exits')
    <3>1. \A i \in 1 .. Len(input) : input[i] \in AllSteps /\ input[i] # Current(f)
      BY <2>3, ElementOfSeq DEF Given, TypeOK
    <3>2. running # Current(f) /\ running \in AllSteps \cup {NoStep}
      BY <2>3 DEF Given, TypeOK
    <3> QED
      BY <1>1, <1>2, <2>2, <3>1, <3>2 DEF Ordered
  <2>5. \A t \in AllSteps : Given(input, running, exits', t) =>
          Given(input, running, exits, t) \/ t = Current(f)
    BY <1>2, <2>2 DEF Given
  <2>6. \A t \in AllSteps : Given(input, running, exits', t) =>
          IF t[1] = f THEN t[2] <= step[f] ELSE Reached(t)
    BY <1>3, <1>4, <1>5, <2>1, <2>5 DEF Reached
  <2>7. CASE Loop(f, step[f] + 1)
    <3>1. \A t \in AllSteps : Given(input, running, exits', t) =>
            IF t[1] = f THEN t[2] < step[f] + 1 /\ t[2] <= step[f] ELSE Reached(t)
      BY <1>3, <1>4, <2>6
    <3> QED
      BY <1>2, <1>3, <2>1, <2>4, <2>7, <3>1, LoopKeepsOrder
  <2>8. CASE End(f) /\ UNCHANGED input
    <3>1. /\ pc'[f] = "ended" /\ step' = step
          /\ \A g \in FlowIds \ {f} : pc'[g] = pc[g]
      BY <2>8 DEF End, TypeOK
    <3>2. \A t \in AllSteps :
            (IF t[1] = f THEN t[2] <= step[f] ELSE Reached(t)) => Reached(t)'
      BY <1>3, <1>4, <3>1 DEF Reached
    <3> QED
      BY <2>1, <2>4, <2>6, <2>8, <3>2 DEF ShellInv, RunsInOrder, Ordered, NothingAhead
  <2> QED
    BY <1>11, <2>7, <2>8 DEF DesktopDone
<1>12. CASE Settled(f)
  <2>1. pc[f] = "waiting" /\ UNCHANGED <<running, exits>>
    BY <1>12 DEF Settled
  <2>2. CASE Loop(f, step[f] + 1)
    <3>1. \A t \in AllSteps : Given(input, running, exits, t) =>
            IF t[1] = f THEN t[2] < step[f] + 1 /\ t[2] <= step[f] ELSE Reached(t)
      BY <1>3, <1>4, <1>5 DEF Reached
    <3> QED
      BY <1>1, <1>2, <1>3, <2>1, <2>2, <3>1, LoopKeepsOrder
  <2>3. CASE End(f) /\ UNCHANGED input
    BY <1>6, <2>1, <2>3 DEF End, TypeOK
  <2> QED
    BY <1>12, <2>2, <2>3 DEF Settled
<1> QED
  BY <1>7, <1>8, <1>9, <1>10, <1>11, <1>12 DEF FlowStep

LEMMA ShellNext == TypeOK /\ Beginnings /\ ShellInv /\ [Next]_vars => ShellInv'
<1> SUFFICES ASSUME TypeOK, Beginnings, ShellInv, [Next]_vars
             PROVE  ShellInv'
  OBVIOUS
<1>1. TypeOK'
  BY TypesNext
<1>2. Ordered(input, running, exits)
  BY DEF ShellInv, RunsInOrder, Ordered
<1>3. CASE \E f \in FlowIds : FlowStep(f)
  BY <1>1, <1>3, FlowKeepsOrder
<1>4. CASE Abort
  BY <1>4, OrderStays DEF Abort, Interrupt
<1>5. CASE TypeCtrlC
  BY <1>5, OrderStays DEF TypeCtrlC, Interrupt, flowVars
<1>6. CASE Rebuild
  <2>1. \A f \in FlowIds : pc[f] \in {"waiting", "ended"} => pc'[f] \in {"waiting", "ended"}
    BY <1>6 DEF Rebuild
  <2> QED
    BY <1>6, <2>1, OrderStays DEF Rebuild, shellVars
<1>7. CASE WaitStep \/ UNCHANGED vars
  BY <1>7, OrderStays
  DEF WaitStep, Report, SeemsAtPrompt, FullScreen, Watch, vars, flowVars, shellVars
<1>8. CASE ShellReads
  <2>1. /\ running = NoStep /\ input # <<>> /\ running' = Head(input) /\ input' = Tail(input)
        /\ UNCHANGED <<pc, step, exits>>
    BY <1>8 DEF ShellReads, flowVars
  <2>2. /\ Ordered(Tail(input), running, exits)
        /\ \A t : Given(Tail(input), running, exits, t) => Given(input, running, exits, t)
        /\ \A i \in 1 .. Len(Tail(input)) : Before(Head(input), Tail(input)[i])
        /\ Head(input) \in AllSteps /\ exits[Head(input)] = "none"
        /\ Given(input, running, exits, Head(input))
    BY <1>2, <2>1, TailOrdered DEF TypeOK
  <2>3. Ordered(input', running', exits')
    BY <2>1, <2>2 DEF Ordered
  <2>4. \A t : Given(input', running', exits', t) => Given(input, running, exits, t)
    BY <2>1, <2>2 DEF Given
  <2> QED
    BY <2>1, <2>3, <2>4 DEF ShellInv, RunsInOrder, Ordered, NothingAhead, Reached
<1>9. CASE CommandReads
  BY <1>9, OrderStays DEF CommandReads, flowVars
<1>10. CASE CommandEnds
  <2>1. /\ running # NoStep /\ running' = NoStep
        /\ UNCHANGED <<pc, step, input>>
    BY <1>10 DEF CommandEnds, flowVars
  <2>2. PICK code : exits' = [exits EXCEPT ![running] = code]
    BY <1>10 DEF CommandEnds
  <2>3. running \in AllSteps
    BY <2>1 DEF TypeOK
  <2>4. exits \in [AllSteps -> Results] /\ exits' \in [AllSteps -> Results]
    BY <1>1 DEF TypeOK, Results
  <2>5. \A i \in 1 .. Len(input) : input[i] \in AllSteps /\ input[i] # running
    <3>1. ~ Before(running, running)
      BY <2>3 DEF Before, AllSteps
    <3> QED
      BY <1>2, <2>1, <3>1, ElementOfSeq DEF Ordered, TypeOK
  <2>6. Ordered(input', running', exits')
    BY <1>2, <2>1, <2>2, <2>4, <2>5 DEF Ordered
  <2>7. \A t \in AllSteps : Given(input', running', exits', t) => Given(input, running, exits, t)
    <3>1. \A t \in AllSteps : t # NoStep
      BY FlowsAssumption DEF AllSteps, NoStep
    <3> QED
      BY <2>1, <2>2, <2>4, <3>1 DEF Given
  <2> QED
    BY <2>1, <2>6, <2>7 DEF ShellInv, RunsInOrder, Ordered, NothingAhead, Reached
<1> QED
  BY <1>3, <1>4, <1>5, <1>6, <1>7, <1>8, <1>9, <1>10 DEF Next, UserStep, ShellStep

LEMMA ShellAlways == Spec => []ShellInv
BY ShellInit, ShellNext, FlowTypeCorrect, BeginningsAlways, PTL DEF Spec

(* The shell gets the steps of a flow in their order and none twice,       *)
(* whatever was given up, stopped, interrupted or settled by the report of *)
(* another step, and however flows overlap and views are rebuilt.          *)
THEOREM InOrderAlways == Spec => []RunsInOrder
<1>1. ShellInv => RunsInOrder
  BY DEF ShellInv
<1> QED
  BY <1>1, ShellAlways, PTL

(* How a step ended is never overwritten by a second run of it. *)
THEOREM RunsOnce == Spec => NoStepRunsTwice
<1>1. ASSUME TypeOK, ShellInv, [Next]_vars, NEW s \in AllSteps, exits[s] # "none"
      PROVE  exits'[s] = exits[s]
  <2>1. CASE UNCHANGED exits
    BY <2>1
  <2>2. ASSUME NEW f \in FlowIds, DesktopDone(f)
        PROVE  exits'[s] = exits[s]
    <3>1. PICK code : exits' = [exits EXCEPT ![Current(f)] = code]
      BY <2>2 DEF DesktopDone
    <3>2. Reached(s)
      BY <1>1 DEF ShellInv, NothingAhead, Given
    <3>3. s # Current(f)
      <4>1. step[f] \in Nat
        BY <1>1, FlowsAssumption DEF TypeOK
      <4> QED
        BY <2>2, <3>2, <4>1 DEF DesktopDone, Reached, Current
    <3> QED
      BY <1>1, <3>1, <3>3 DEF TypeOK
  <2>3. CASE CommandEnds
    <3>1. PICK code : exits' = [exits EXCEPT ![running] = code]
      BY <2>3 DEF CommandEnds
    <3>2. exits[running] = "none"
      BY <1>1, <2>3 DEF CommandEnds, ShellInv, RunsInOrder
    <3> QED
      BY <1>1, <3>1, <3>2 DEF TypeOK
  <2> QED
    BY <1>1, <2>1, <2>2, <2>3
    DEF Next, FlowStep, UserStep, WaitStep, ShellStep, Start, Prepared, Answered, Defined,
        Settled, Abort, TypeCtrlC, Rebuild, Report, SeemsAtPrompt, FullScreen, Watch,
        ShellReads, CommandReads, shellVars, vars
<1>2. TypeOK /\ ShellInv /\ [Next]_vars =>
        [\A s \in AllSteps : exits[s] # "none" => exits'[s] = exits[s]]_vars
  BY <1>1
<1> QED
  BY <1>2, FlowTypeCorrect, ShellAlways, PTL DEF Spec, NoStepRunsTwice

-----------------------------------------------------------------------------
(* The flows run out *)

(* The head of the loop for a step further down is nearer to the end *)
LEMMA LoopDescends ==
  ASSUME TypeOK, NEW f \in FlowIds, NEW i \in 1 .. Steps + 1, Loop(f, i)
  PROVE  PlaceLeft(f)' \in 0 .. 4 * (Steps - i) + 2 \/ PlaceLeft(f)' = 0
<1>1. Steps \in Nat
  BY FlowsAssumption
<1>2. CASE pc'[f] = "ended"
  BY <1>2 DEF PlaceLeft
<1>3. CASE pc'[f] # "ended"
  <2>1. StepsLeft(i) /\ f \notin stopped
    BY <1>3 DEF Loop, End, TypeOK
  <2>2. i \in 1 .. Steps /\ step'[f] = i /\ pc'[f] \in {"desktop", "defining", "waiting"}
    BY <1>1, <1>3, <2>1, LoopFrame DEF Loop, StepsLeft, TypeOK
  <2> QED
    BY <1>1, <2>2 DEF PlaceLeft
<1> QED
  BY <1>2, <1>3

(* A step in which a flow gets on leaves less of it *)
LEMMA PlaceDescends ==
  ASSUME TypeOK, NEW f \in FlowIds, FlowStep(f)
  PROVE  PlaceLeft(f)' < PlaceLeft(f)
<1>1. Steps \in Nat /\ Steps # 0 /\ step[f] \in 1 .. Steps
  BY FlowsAssumption DEF TypeOK
<1>2. CASE \E v \in ViewIds : Start(f, v)
  <2>1. pc[f] = "new" /\ pc'[f] = "preparing"
    BY <1>2 DEF Start, TypeOK
  <2> QED
    BY <1>1, <2>1 DEF PlaceLeft
<1>3. ASSUME End(f)
      PROVE  PlaceLeft(f)' = 0
  BY <1>3 DEF End, PlaceLeft, TypeOK
<1>4. CASE Prepared(f)
  <2>1. PlaceLeft(f) = 4 * Steps + 2
    BY <1>4 DEF Prepared, PlaceLeft
  <2>2. CASE pc' = [pc EXCEPT ![f] = "asking"]
    <3>1. PlaceLeft(f)' = 4 * Steps + 1
      BY <2>2 DEF TypeOK, PlaceLeft
    <3> QED
      BY <1>1, <2>1, <3>1
  <2> QED
    BY <1>1, <1>3, <1>4, <2>1, <2>2 DEF Prepared
<1>5. CASE Answered(f)
  <2>1. PlaceLeft(f) = 4 * Steps + 1
    BY <1>5 DEF Answered, PlaceLeft
  <2>2. CASE Loop(f, 1)
    <3>1. PlaceLeft(f)' \in 0 .. 4 * (Steps - 1) + 2 \/ PlaceLeft(f)' = 0
      BY <1>1, <2>2, LoopDescends
    <3> QED
      BY <1>1, <2>1, <3>1
  <2> QED
    BY <1>1, <1>3, <1>5, <2>1, <2>2 DEF Answered
<1>6. CASE Defined(f)
  <2>1. pc[f] = "defining" /\ pc'[f] = "waiting" /\ step' = step
    BY <1>6 DEF Defined, TypeOK
  <2> QED
    BY <1>1, <2>1 DEF PlaceLeft
<1>7. CASE DesktopDone(f) \/ Settled(f)
  <2>1. PlaceLeft(f) = 4 * (Steps - step[f]) + 1
    BY <1>7 DEF DesktopDone, Settled, PlaceLeft
  <2>2. CASE Loop(f, step[f] + 1)
    <3>1. PlaceLeft(f)' \in 0 .. 4 * (Steps - (step[f] + 1)) + 2 \/ PlaceLeft(f)' = 0
      BY <1>1, <2>2, LoopDescends
    <3> QED
      BY <1>1, <2>1, <3>1
  <2> QED
    BY <1>1, <1>3, <1>7, <2>1, <2>2 DEF DesktopDone, Settled
<1> QED
  BY <1>2, <1>4, <1>5, <1>6, <1>7 DEF FlowStep

(* No late report, interval, stop, other flow or rebuilt view takes a flow *)
(* back to a step it has left, or revives one that has ended.              *)
THEOREM FlowsRunOutProved == Spec => FlowsRunOut
<1>1. ASSUME TypeOK, [Next]_vars, NEW f \in FlowIds, ~(pc[f] = pc'[f] /\ step[f] = step'[f])
      PROVE  PlaceLeft(f)' < PlaceLeft(f)
  <2>1. CASE \E g \in FlowIds : FlowStep(g)
    <3>1. PICK g \in FlowIds : FlowStep(g)
      BY <2>1
    <3>2. g = f
      BY <1>1, <3>1, FlowFrame
    <3> QED
      BY <1>1, <3>1, <3>2, PlaceDescends
  <2>2. CASE Rebuild
    <3>1. pc[f] = "asking" /\ pc'[f] = "ended"
      BY <1>1, <2>2 DEF Rebuild
    <3>2. Steps \in Nat
      BY FlowsAssumption
    <3> QED
      BY <3>1, <3>2 DEF PlaceLeft
  <2>3. CASE Abort \/ TypeCtrlC \/ WaitStep \/ ShellStep \/ UNCHANGED vars
    BY <1>1, <2>3
    DEF Abort, TypeCtrlC, WaitStep, ShellStep, Report, SeemsAtPrompt, FullScreen, Watch,
        ShellReads, CommandReads, CommandEnds, flowVars, vars
  <2> QED
    BY <1>1, <2>1, <2>2, <2>3 DEF Next, UserStep
<1>2. TypeOK /\ [Next]_vars =>
        [\A f \in FlowIds :
           (pc[f] = pc'[f] /\ step[f] = step'[f]) \/ PlaceLeft(f)' < PlaceLeft(f)]_vars
  BY <1>1
<1> QED
  BY <1>2, FlowTypeCorrect, PTL DEF Spec, FlowsRunOut
=============================================================================
